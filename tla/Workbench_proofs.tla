-------------------------- MODULE Workbench_proofs --------------------------
(***************************************************************************)
(* Proofs about Workbench, for any number of workbenches, process ids, ports *)
(* and creations.  Births says where the creation times in play come from;   *)
(* with it the record can only name a process that a workbench started.       *)
(* Tracking says how an operation that runs alone leads from one started      *)
(* gateway in the record to the next.                                         *)
(***************************************************************************)
EXTENDS Workbench, FiniteSetTheorems, TLAPS

Births ==
  /\ started \subseteq 1 .. born
  /\ killed \subseteq started
  /\ \A p \in Alive : proc[p].born <= born /\ (proc[p].born \in started => proc[p].exe = "ours")
  /\ record # NoRecord => record.born \in started
  /\ \A b \in Benches : rec[b] # NoRecord => rec[b].born \in started

Attended == \A b \in Benches : Busy(b) => open[b] \in Ports

Alone == \A b, c \in Benches : Busy(b) /\ Busy(c) => b = c

NoneRuns == \A b \in Benches : pc[b] \in {"probe", "spawn", "remove"} => StartedByUs = {}

ChildOnly ==
  \A b \in Benches : pc[b] = "write" => \A p \in StartedByUs : rec[b] = RecordOf(p, proc[p].port)

SamePort ==
  \A b \in Benches : pc[b] = "owned" => \A p \in StartedByUs : proc[p].port = open[b]

KillsRecorded == \A b \in Benches : pc[b] \in {"check", "kill"} => rec[b] \in {record, NoRecord}

Recorded ==
  (\A b \in Benches : pc[b] # "write") => \A p \in StartedByUs : record = RecordOf(p, proc[p].port)

Tracking ==
  ~loose /\ ~misread =>
    Alone /\ NoneRuns /\ SamePort /\ ChildOnly /\ KillsRecorded /\ Recorded

Inv == TypeOK /\ Births /\ Attended /\ Tracking

-----------------------------------------------------------------------------
(* Births and types.                                                        *)

\* A record that ownedProcess accepts is of a process that a workbench started.
LEMMA OwnedIsStarted ==
  ASSUME TypeOK, Births, NEW r \in Records, r.born \in started, OwnedProcess(r)
  PROVE  r.pid \in StartedByUs /\ proc[r.pid].born = r.born
BY DEF OwnedProcess, SameProcess, StartedByUs

LEMMA GoneType ==
  ASSUME TypeOK, NEW q \in Pids, Gone(q)
  PROVE  /\ proc' \in [Pids -> Processes \cup {NoProc}]
         /\ listens' \in [Ports -> Pids \cup {None}]
         /\ up' \in SUBSET Pids
         /\ Alive' = Alive \ {q}
         /\ \A p \in Alive \ {q} : proc'[p] = proc[p]
BY DEF TypeOK, Gone, Alive

LEMMA NoProcIsNone == NoProc \notin Processes
BY DEF NoProc, Processes

LEMMA NoRecordIsNone == NoRecord \notin Records
BY DEF NoRecord, Records

LEMMA CreateType ==
  ASSUME TypeOK, NEW q \in Pids, NEW exe \in {"ours", "other"}, NEW port \in Ports \cup {None},
         Create(q, exe, port)
  PROVE  /\ proc' \in [Pids -> Processes \cup {NoProc}]
         /\ listens' = listens /\ up' = up
         /\ born' = born + 1 /\ born' \in 1 .. MaxBorn
         /\ q \notin Alive
         /\ Alive' = Alive \cup {q}
         /\ \A p \in Alive : proc'[p] = proc[p]
         /\ proc'[q] = [born |-> born + 1, exe |-> exe, port |-> port]
<1>1. born + 1 \in 1 .. MaxBorn
  BY WorkbenchAssumption DEF TypeOK, Create
<1>2. [born |-> born + 1, exe |-> exe, port |-> port] \in Processes
  BY <1>1 DEF Processes
<1>3. q \notin Alive
  BY DEF Create, Unused
<1>4. /\ proc' = [proc EXCEPT ![q] = [born |-> born + 1, exe |-> exe, port |-> port]]
      /\ born' = born + 1 /\ listens' = listens /\ up' = up
  BY DEF Create
<1> QED
  BY <1>1, <1>2, <1>3, <1>4, NoProcIsNone DEF TypeOK, Alive

\* What follows a successful stop keeps types and records.
LEMMA StoppedType ==
  ASSUME TypeOK, NEW b \in Benches, Stopped(b)
  PROVE  /\ open' \in [Benches -> Ports \cup {None}]
         /\ op' \in [Benches -> Ops \cup {None}]
         /\ login' \in [Benches -> BOOLEAN]
         /\ rec' = [rec EXCEPT ![b] = NoRecord]
         /\ \/ pc' = [pc EXCEPT ![b] = "idle"]
            \/ pc' = [pc EXCEPT ![b] = "survey"]
BY DEF TypeOK, Stopped, Done, Leave, Goto, Ops

LEMMA TypeInit == Init => TypeOK /\ Births
<1> SUFFICES ASSUME Init PROVE TypeOK /\ Births
  OBVIOUS
<1>1. TypeOK
  <2>1. /\ proc \in [Pids -> Processes \cup {NoProc}]
        /\ listens \in [Ports -> Pids \cup {None}]
        /\ record \in Records \cup {NoRecord}
        /\ rec \in [Benches -> Records \cup {NoRecord}]
    BY DEF Init
  <2>2. /\ open \in [Benches -> Ports \cup {None}]
        /\ op \in [Benches -> Ops \cup {None}]
        /\ pc \in [Benches -> Places]
    BY DEF Init, Places
  <2>3. up \in SUBSET Pids /\ started \in SUBSET (1 .. MaxBorn) /\ killed \in SUBSET (1 .. MaxBorn)
    BY Zenon DEF Init
  <2>4. born \in 0 .. MaxBorn
    BY WorkbenchAssumption DEF Init
  <2>5. loose \in BOOLEAN /\ misread \in BOOLEAN /\ login \in [Benches -> BOOLEAN]
    BY DEF Init
  <2> QED
    BY <2>1, <2>2, <2>3, <2>4, <2>5 DEF TypeOK
<1>2. Alive = {}
  BY DEF Init, Alive
<1>3. Births
  BY <1>2 DEF Init, Births
<1> QED
  BY <1>1, <1>3

\* Everything but the processes: what a step of the environment leaves alone.
LEMMA StrangerType ==
  ASSUME TypeOK, Births, Stranger
  PROVE  TypeOK' /\ Births'
<1> USE DEF benchVars, historyVars
<1>1. PICK q \in Pids, exe \in {"ours", "other"}, port \in Ports \cup {None} : Create(q, exe, port)
  BY DEF Stranger
<1>2. UNCHANGED <<record, benchVars, historyVars>>
  BY DEF Stranger
<1>3. /\ proc' \in [Pids -> Processes \cup {NoProc}]
      /\ listens' = listens /\ up' = up
      /\ born' = born + 1 /\ born' \in 1 .. MaxBorn
      /\ Alive' = Alive \cup {q}
      /\ \A p \in Alive : proc'[p] = proc[p]
      /\ proc'[q] = [born |-> born + 1, exe |-> exe, port |-> port]
  BY <1>1, CreateType
<1>4. TypeOK'
  BY <1>2, <1>3 DEF TypeOK
<1>5. born \in Nat /\ \A p \in Alive : proc[p].born \in Nat
  BY WorkbenchAssumption DEF TypeOK, Alive, Processes
<1>6. Births'
  BY <1>2, <1>3, <1>5 DEF Births
<1> QED
  BY <1>4, <1>6

LEMMA BindExitType ==
  ASSUME TypeOK, Births, NEW q \in Pids, Bind(q) \/ Exit(q)
  PROVE  TypeOK' /\ Births'
<1> USE DEF benchVars, historyVars
<1>1. UNCHANGED <<born, record, benchVars, historyVars>>
  BY DEF Bind, Exit
<1>2. CASE Gone(q)
  <2>1. TypeOK'
    BY <1>1, <1>2, GoneType DEF TypeOK
  <2>2. Births'
    BY <1>1, <1>2, GoneType DEF Births
  <2> QED
    BY <2>1, <2>2
<1>3. CASE ~Gone(q)
  <2>1. /\ q \in Alive /\ proc[q].port \in Ports /\ proc' = proc
        /\ listens' = [listens EXCEPT ![proc[q].port] = q]
        /\ up' \in {up, up \cup {q}}
    BY <1>3 DEF Bind, Exit, TypeOK, Processes, Alive
  <2>2. TypeOK'
    BY <1>1, <2>1 DEF TypeOK
  <2>3. Births'
    BY <1>1, <2>1 DEF Births, Alive
  <2> QED
    BY <2>2, <2>3
<1> QED
  BY <1>2, <1>3

LEMMA LifeType ==
  ASSUME TypeOK, Births, NEW b \in Benches,
         Open(b) \/ Close(b) \/ \E o \in Ops : Request(b, o)
  PROVE  TypeOK' /\ Births'
<1> USE DEF systemVars, Leave
<1>1. UNCHANGED <<systemVars, record, started, killed, misread>>
  BY DEF Open, Close, Request
<1>2. open' \in [Benches -> Ports \cup {None}]
  BY DEF Open, Close, Request, TypeOK
<1>3. op' \in [Benches -> Ops \cup {None}] /\ loose' \in BOOLEAN /\ login' \in [Benches -> BOOLEAN]
  BY DEF Open, Close, Request, TypeOK, Begin, Done, Ops
<1>4. pc' \in [Benches -> Places]
  BY DEF Open, Close, Request, TypeOK, Begin, Done, Goto, FirstStep, Places
<1>5. rec' = rec \/ rec' = [rec EXCEPT ![b] = NoRecord]
  BY DEF Open, Close, Request, Done
<1>6. TypeOK'
  BY <1>1, <1>2, <1>3, <1>4, <1>5 DEF TypeOK
<1>7. Births'
  BY <1>1, <1>5 DEF Births, TypeOK, Alive
<1> QED
  BY <1>6, <1>7

LEMMA LoginType ==
  ASSUME TypeOK, Births, NEW b \in Benches, LoginBegins(b) \/ LoginEnds(b)
  PROVE  TypeOK' /\ Births'
<1> USE DEF systemVars, historyVars
<1>1. UNCHANGED <<systemVars, record, open, op, pc, rec, historyVars>> /\ login' \in [Benches -> BOOLEAN]
  BY DEF LoginBegins, LoginEnds, TypeOK
<1>2. TypeOK'
  BY <1>1 DEF TypeOK
<1>3. Births'
  BY <1>1 DEF Births, Alive
<1> QED
  BY <1>2, <1>3

\* An operation's steps that leave processes alone.
Quiet(b) ==
  \/ Survey(b) \/ CheckOwned(b) \/ Probe(b) \/ Wait(b) \/ WriteRecord(b)
  \/ Stop(b) \/ CheckStop(b) \/ RemoveRecord(b) \/ ClearSession(b)

LEMMA QuietType ==
  ASSUME TypeOK, Births, NEW b \in Benches, Quiet(b)
  PROVE  TypeOK' /\ Births'
<1> USE DEF systemVars, historyVars, Quiet
<1>1. UNCHANGED <<systemVars, started, killed, loose>> /\ misread' \in BOOLEAN
  BY DEF Survey, CheckOwned, Probe, Wait, Stop, CheckStop, WriteRecord, RemoveRecord, ClearSession,
     TypeOK, Elsewhere, IsOwned
<1>2. /\ open' \in [Benches -> Ports \cup {None}]
      /\ op' \in [Benches -> Ops \cup {None}]
      /\ login' \in [Benches -> BOOLEAN]
  <2>1. CASE CheckStop(b) \/ ClearSession(b)
    <3>1. Stopped(b) => /\ open' \in [Benches -> Ports \cup {None}]
                        /\ op' \in [Benches -> Ops \cup {None}]
                        /\ login' \in [Benches -> BOOLEAN]
      BY StoppedType
    <3> QED
      BY <2>1, <3>1 DEF CheckStop, ClearSession, Done, TypeOK
  <2>2. CASE \/ Survey(b) \/ CheckOwned(b) \/ Probe(b) \/ Wait(b) \/ WriteRecord(b)
             \/ Stop(b) \/ RemoveRecord(b)
    BY <2>2 DEF Survey, CheckOwned, Probe, Wait, WriteRecord, Stop, RemoveRecord, Done, TypeOK
  <2> QED
    BY <2>1, <2>2
<1>3. pc' \in [Benches -> Places]
  <2>1. Stopped(b) => pc' \in [Benches -> Places]
    BY StoppedType DEF TypeOK, Places
  <2> QED
    BY <2>1 DEF Survey, CheckOwned, Probe, Wait, Stop, CheckStop, WriteRecord, RemoveRecord,
       ClearSession, Done, Goto, TypeOK, Places
<1>4. rec' \in {rec, [rec EXCEPT ![b] = NoRecord], [rec EXCEPT ![b] = record]}
  <2>1. Stopped(b) => rec' = [rec EXCEPT ![b] = NoRecord]
    BY StoppedType
  <2> QED
    BY <2>1 DEF Survey, CheckOwned, Probe, Wait, Stop, CheckStop, WriteRecord, RemoveRecord,
       ClearSession, Done
<1>5. record' \in {record, NoRecord, rec[b]}
  BY DEF Survey, CheckOwned, Probe, Wait, Stop, CheckStop, WriteRecord, RemoveRecord, ClearSession
<1>6. TypeOK'
  BY <1>1, <1>2, <1>3, <1>4, <1>5 DEF TypeOK
<1>7. Births'
  BY <1>1, <1>4, <1>5 DEF Births, TypeOK, Alive
<1> QED
  BY <1>6, <1>7

LEMMA SpawnType ==
  ASSUME TypeOK, Births, Attended, NEW b \in Benches, Spawn(b)
  PROVE  TypeOK' /\ Births'
<1> USE DEF systemVars
<1>1. UNCHANGED <<record, open, login, killed, loose, misread>>
  BY DEF Spawn
<1>2. open[b] \in Ports
  BY DEF Attended, Busy, Spawn
<1>3. ASSUME NEW q \in Pids,
             Create(q, "ours", open[b]),
             rec' = [rec EXCEPT ![b] = Child(b, q)],
             started' = started \cup {born + 1},
             Goto(b, "write"), UNCHANGED op
      PROVE  TypeOK' /\ Births'
  <2>1. /\ proc' \in [Pids -> Processes \cup {NoProc}]
        /\ listens' = listens /\ up' = up
        /\ born' = born + 1 /\ born' \in 1 .. MaxBorn
        /\ Alive' = Alive \cup {q}
        /\ \A p \in Alive : proc'[p] = proc[p]
        /\ proc'[q] = [born |-> born + 1, exe |-> "ours", port |-> open[b]]
    BY <1>2, <1>3, CreateType
  <2>2. born \in Nat /\ \A p \in Alive : proc[p].born \in Nat
    BY WorkbenchAssumption DEF TypeOK, Alive, Processes
  <2>3. Child(b, q) \in Records /\ Child(b, q).born = born + 1
    BY <1>2, <2>1 DEF Child, Records
  <2>4. TypeOK'
    BY <1>1, <1>3, <2>1, <2>3 DEF TypeOK, Goto, Places
  <2>5. started' \subseteq 1 .. born' /\ killed' \subseteq started'
    <3>1. started' = started \cup {born + 1} /\ killed' = killed /\ born' = born + 1
      BY <1>1, <1>3, <2>1
    <3>2. \A n \in 1 .. born : n \in 1 .. (born + 1)
      BY <2>2
    <3>3. born + 1 \in 1 .. (born + 1)
      BY <2>2
    <3> QED
      BY <3>1, <3>2, <3>3, Zenon DEF Births
  <2>6. \A p \in Alive' : proc'[p].born <= born' /\ (proc'[p].born \in started' => proc'[p].exe = "ours")
    BY <1>3, <2>1, <2>2 DEF Births
  <2>7. \A c \in Benches : rec'[c] # NoRecord => rec'[c].born \in started'
    BY <1>3, <2>3 DEF Births, TypeOK
  <2>8. record' # NoRecord => record'.born \in started'
    BY <1>1, <1>3 DEF Births
  <2> QED
    BY <2>4, <2>5, <2>6, <2>7, <2>8 DEF Births
<1>4. ASSUME Done(b), UNCHANGED <<systemVars, started>>
      PROVE  TypeOK' /\ Births'
  <2>1. TypeOK'
    BY <1>1, <1>4 DEF TypeOK, Done, Goto, Places
  <2>2. Births'
    BY <1>1, <1>4 DEF Births, Done, TypeOK, Alive
  <2> QED
    BY <2>1, <2>2
<1> QED
  BY <1>3, <1>4 DEF Spawn

\* The two steps that terminate a process.
LEMMA KillType ==
  ASSUME TypeOK, Births, NEW b \in Benches, Kill(b) \/ WriteFails(b)
  PROVE  TypeOK' /\ Births'
<1>1. UNCHANGED <<born, open, login, started, loose, misread>> /\ record' \in {record, NoRecord}
  BY DEF Kill, WriteFails
<1>2. /\ op' \in [Benches -> Ops \cup {None}]
      /\ pc' \in [Benches -> Places]
      /\ rec' \in {rec, [rec EXCEPT ![b] = NoRecord]}
  BY DEF Kill, WriteFails, Done, Goto, TypeOK, Places
<1>3. \/ UNCHANGED <<proc, listens, up, killed>>
      \/ /\ OwnedProcess(rec[b]) /\ Gone(rec[b].pid)
         /\ killed' = killed \cup {rec[b].born}
  BY DEF Kill, WriteFails, OwnedProcess, SameProcess
<1>4. CASE UNCHANGED <<proc, listens, up, killed>>
  <2>1. TypeOK'
    BY <1>1, <1>2, <1>4 DEF TypeOK
  <2>2. Births'
    BY <1>1, <1>2, <1>4 DEF Births, TypeOK, Alive
  <2> QED
    BY <2>1, <2>2
<1>5. CASE OwnedProcess(rec[b]) /\ Gone(rec[b].pid) /\ killed' = killed \cup {rec[b].born}
  <2>1. rec[b] \in Records /\ rec[b].pid \in Pids /\ rec[b].born \in started
    BY <1>5 DEF OwnedProcess, TypeOK, Births, Records
  <2>2. /\ proc' \in [Pids -> Processes \cup {NoProc}]
        /\ listens' \in [Ports -> Pids \cup {None}]
        /\ up' \in SUBSET Pids
        /\ Alive' = Alive \ {rec[b].pid}
        /\ \A p \in Alive \ {rec[b].pid} : proc'[p] = proc[p]
    BY <1>5, <2>1, GoneType
  <2>3. killed' \subseteq started'
    BY <1>1, <1>5, <2>1 DEF Births
  <2>4. TypeOK'
    BY <1>1, <1>2, <2>2, <2>3 DEF TypeOK
  <2>5. Births'
    BY <1>1, <1>2, <2>2, <2>3 DEF Births, TypeOK
  <2> QED
    BY <2>4, <2>5
<1> QED
  BY <1>3, <1>4, <1>5

\* A workbench that is amid an operation runs.
LEMMA AttendedStep ==
  ASSUME TypeOK, Attended, Next
  PROVE  Attended'
<1> USE DEF benchVars
<1>1. CASE UNCHANGED <<open, pc>>
  BY <1>1 DEF Attended, Busy
<1>2. ASSUME NEW b \in Benches, Open(b) \/ Close(b) \/ (\E o \in Ops : Request(b, o)) \/ Step(b)
      PROVE  Attended'
  <2>1. \A c \in Benches \ {b} : open'[c] = open[c] /\ pc'[c] = pc[c]
    BY <1>2 DEF TypeOK, Open, Close, Leave, Request, Begin, Done, Goto, Step, Survey,
       CheckOwned, Probe, Spawn, WriteRecord, WriteFails, Wait, Stop, CheckStop, Stopped, Kill,
       RemoveRecord, ClearSession
  <2>2. pc'[b] = "idle" \/ open'[b] \in Ports
    <3>1. CASE Open(b)
      BY <3>1 DEF Open, TypeOK
    <3>2. CASE Close(b)
      BY <3>2 DEF Close, Done, Goto, TypeOK
    <3>3. CASE \E o \in Ops : Request(b, o)
      BY <3>3 DEF Request, TypeOK
    <3>4. CASE Step(b)
      BY <3>4 DEF Attended, Busy, TypeOK, Done, Leave, Goto, Step, Survey, CheckOwned, Probe,
         Spawn, WriteRecord, WriteFails, Wait, Stop, CheckStop, Stopped, Kill, RemoveRecord,
         ClearSession
    <3> QED
      BY <1>2, <3>1, <3>2, <3>3, <3>4
  <2> QED
    BY <2>1, <2>2 DEF Attended, Busy
<1> QED
  BY <1>1, <1>2 DEF Next, Stranger, Bind, Exit, LoginBegins, LoginEnds

LEMMA TypeStep ==
  ASSUME TypeOK, Births, Attended, Next
  PROVE  TypeOK' /\ Births'
<1>1. CASE Stranger
  BY <1>1, StrangerType
<1>2. CASE \E p \in Pids : Bind(p) \/ Exit(p)
  BY <1>2, BindExitType
<1>3. ASSUME NEW b \in Benches, Open(b) \/ Close(b) \/ \E o \in Ops : Request(b, o)
      PROVE  TypeOK' /\ Births'
  BY <1>3, LifeType
<1>4. ASSUME NEW b \in Benches, LoginBegins(b) \/ LoginEnds(b)
      PROVE  TypeOK' /\ Births'
  BY <1>4, LoginType
<1>5. ASSUME NEW b \in Benches, Step(b)
      PROVE  TypeOK' /\ Births'
  BY <1>5, QuietType, SpawnType, KillType DEF Step, Quiet
<1> QED
  BY <1>1, <1>2, <1>3, <1>4, <1>5 DEF Next

LEMMA TypeStutter ==
  ASSUME TypeOK, Births, Attended, UNCHANGED vars
  PROVE  TypeOK' /\ Births' /\ Attended'
<1> USE DEF vars, systemVars, benchVars, historyVars
<1>1. TypeOK'
  BY DEF TypeOK
<1>2. Births'
  BY DEF Births, Alive
<1>3. Attended'
  BY DEF Attended, Busy
<1> QED
  BY <1>1, <1>2, <1>3

LEMMA AttendedInit == Init => Attended
BY DEF Init, Attended, Busy

\* Every variable of the workbench's model keeps its type.
THEOREM WorkbenchTypeCorrect == Spec => []TypeOK
<1>1. Init => TypeOK /\ Births /\ Attended
  BY TypeInit, AttendedInit
<1>2. TypeOK /\ Births /\ Attended /\ [Next]_vars => (TypeOK /\ Births /\ Attended)'
  BY TypeStep, AttendedStep, TypeStutter
<1> QED
  BY <1>1, <1>2, PTL DEF Spec

\* WORKBENCH.md:54, only processes that a workbench of this deployment started
\* are terminated, for any number of workbenches over one record, whatever ids
\* are given out again (ownedProcess, stopLocked).
THEOREM WorkbenchKillsOnlyOwn == Spec => []KillsOnlyOwn
<1>1. Init => TypeOK /\ Births /\ Attended
  BY TypeInit, AttendedInit
<1>2. TypeOK /\ Births /\ Attended /\ [Next]_vars => (TypeOK /\ Births /\ Attended)'
  BY TypeStep, AttendedStep, TypeStutter
<1>3. Births => KillsOnlyOwn
  BY DEF Births, KillsOnlyOwn
<1> QED
  BY <1>1, <1>2, <1>3, PTL DEF Spec

-----------------------------------------------------------------------------
(* Tracking: no two operations at once, none cut off between start and       *)
(* record, and no start that was blind.                                     *)

\* When the other workbenches are idle, only this one's part is to be shown.
LEMMA TrackingOfOne ==
  ASSUME NEW b \in Benches,
         \A c \in Benches \ {b} : pc'[c] = "idle",
         pc'[b] \in {"probe", "spawn", "remove"} => StartedByUs' = {},
         pc'[b] = "write" => \A p \in StartedByUs' : rec'[b] = RecordOf(p, proc[p].port)',
         pc'[b] = "owned" => \A p \in StartedByUs' : proc'[p].port = open'[b],
         pc'[b] \in {"check", "kill"} => rec'[b] \in {record', NoRecord},
         pc'[b] # "write" => \A p \in StartedByUs' : record' = RecordOf(p, proc[p].port)'
  PROVE  Tracking'
<1>1. Alone'
  BY DEF Alone, Busy
<1>2. NoneRuns'
  BY DEF NoneRuns
<1>3. ChildOnly'
  BY DEF ChildOnly
<1>4. KillsRecorded'
  BY DEF KillsRecorded
<1>5. Recorded'
  BY DEF Recorded
<1>6. SamePort'
  BY DEF SamePort
<1> QED
  BY <1>1, <1>2, <1>3, <1>4, <1>5, <1>6 DEF Tracking

\* Processes end, and workbenches that are idle come and go.
LEMMA TrackingOfFewer ==
  ASSUME Alone, NoneRuns, SamePort, ChildOnly, KillsRecorded, Recorded,
         pc' = pc, record' = record,
         \A b \in Benches : Busy(b) => rec'[b] = rec[b] /\ open'[b] = open[b],
         StartedByUs' \subseteq StartedByUs,
         \A p \in StartedByUs' : proc'[p] = proc[p]
  PROVE  Tracking'
<1>1. Alone'
  BY DEF Alone, Busy
<1>2. NoneRuns'
  BY DEF NoneRuns
<1>3. ChildOnly'
  BY DEF ChildOnly, RecordOf, Busy
<1>4. KillsRecorded'
  BY DEF KillsRecorded, Busy
<1>5. Recorded'
  BY DEF Recorded, RecordOf
<1>6. SamePort'
  BY DEF SamePort, Busy
<1> QED
  BY <1>1, <1>2, <1>3, <1>4, <1>5, <1>6 DEF Tracking

\* A started process that the record names is recognised by ownedProcess.
LEMMA RecordedIsOwned ==
  ASSUME TypeOK, Births, NEW p \in StartedByUs, NEW port, NEW r, r = RecordOf(p, port)
  PROVE  OwnedProcess(r) /\ r.pid = p
<1>1. r.pid = p /\ r.born = proc[p].born
  BY DEF RecordOf
<1>2. p \in Alive /\ proc[p].exe = "ours"
  BY DEF StartedByUs, Births
<1>3. r # NoRecord
  BY DEF RecordOf, NoRecord
<1> QED
  BY <1>1, <1>2, <1>3 DEF OwnedProcess, SameProcess

\* Where no process was terminated or created, StartedByUs is what it was.
LEMMA SameStarted ==
  ASSUME UNCHANGED <<proc, started>>
  PROVE  /\ StartedByUs' = StartedByUs
         /\ \A p, q : RecordOf(p, proc[q].port)' = RecordOf(p, proc[q].port)
BY DEF StartedByUs, Alive, RecordOf

LEMMA TrackingEnvironment ==
  ASSUME TypeOK, Births, Alone, NoneRuns, SamePort, ChildOnly, KillsRecorded, Recorded,
         Stranger \/ \E p \in Pids : Bind(p) \/ Exit(p)
  PROVE  Tracking'
<1> USE DEF benchVars, historyVars
<1>1. UNCHANGED <<record, benchVars, historyVars>>
  BY DEF Stranger, Bind, Exit
<1>2. StartedByUs' \subseteq StartedByUs /\ \A p \in StartedByUs' : proc'[p] = proc[p]
  <2>1. CASE Stranger
    <3>1. PICK q \in Pids, exe \in {"ours", "other"}, port \in Ports \cup {None} : Create(q, exe, port)
      BY <2>1 DEF Stranger
    <3>2. /\ Alive' = Alive \cup {q}
          /\ \A p \in Alive : proc'[p] = proc[p]
          /\ proc'[q] = [born |-> born + 1, exe |-> exe, port |-> port]
      BY <3>1, CreateType
    <3>3. born + 1 \notin started
      BY WorkbenchAssumption DEF Births, TypeOK
    <3>4. proc'[q].born = born + 1
      BY <3>2
    <3> QED
      BY <1>1, <3>2, <3>3, <3>4 DEF StartedByUs
  <2>2. ASSUME NEW q \in Pids, Bind(q) \/ Exit(q)
        PROVE  StartedByUs' \subseteq StartedByUs /\ \A p \in StartedByUs' : proc'[p] = proc[p]
    <3>1. CASE Gone(q)
      BY <1>1, <3>1, GoneType DEF StartedByUs
    <3>2. CASE proc' = proc
      BY <1>1, <3>2 DEF StartedByUs, Alive
    <3> QED
      BY <2>2, <3>1, <3>2 DEF Bind, Exit
  <2> QED
    BY <2>1, <2>2
<1> QED
  BY <1>1, <1>2, TrackingOfFewer

LEMMA TrackingLife ==
  ASSUME TypeOK, Births, Attended, Alone, NoneRuns, SamePort, ChildOnly, KillsRecorded, Recorded,
         ~loose', NEW b \in Benches,
         Open(b) \/ Close(b) \/ \E o \in Ops : Request(b, o)
  PROVE  Tracking'
<1> USE DEF systemVars, Leave
<1>1. UNCHANGED <<proc, started, record>>
  BY DEF Open, Close, Request
<1>2. \A c \in Benches \ {b} : pc'[c] = pc[c] /\ rec'[c] = rec[c] /\ open'[c] = open[c]
  BY DEF TypeOK, Open, Close, Request, Begin, Done, Goto
<1>3. CASE pc' = pc
  <2>1. Busy(b) => rec'[b] = rec[b] /\ open'[b] = open[b]
    BY <1>3, WorkbenchAssumption DEF Open, Close, Request, Done, Goto, Busy, TypeOK, Attended
  <2> QED
    BY <1>1, <1>2, <1>3, <2>1, SameStarted, TrackingOfFewer
<1>4. CASE pc' # pc
  <2>1. CASE Close(b)
    <3>1. pc'[b] = "idle" /\ pc[b] # "write" /\ pc[b] # "idle"
      BY <1>4, <2>1 DEF Close, Done, Goto, TypeOK
    <3>2. \A c \in Benches \ {b} : pc[c] = "idle"
      BY <3>1 DEF Alone, Busy
    <3>3. \A p \in StartedByUs : record = RecordOf(p, proc[p].port)
      BY <3>1, <3>2 DEF Recorded
    <3>4. \A p \in StartedByUs' : record' = RecordOf(p, proc[p].port)'
      BY <1>1, <3>3, SameStarted
    <3> QED
      BY <1>1, <1>2, <3>1, <3>2, <3>4, TrackingOfOne
  <2>2. CASE Open(b) \/ \E o \in Ops : Request(b, o)
    <3>1. \E o \in Ops : Begin(b, o)
      BY <1>4, <2>2 DEF Open, Request, Ops
    <3>2. \A c \in Benches \ {b} : pc[c] = "idle"
      BY <3>1 DEF Begin, Busy
    <3>3. pc[b] = "idle"
      BY <2>2, WorkbenchAssumption DEF Open, Request, Attended, Busy
    <3>4. pc'[b] \in {"survey", "stop"}
      BY <3>1 DEF Begin, Goto, FirstStep, TypeOK
    <3>5. \A p \in StartedByUs : record = RecordOf(p, proc[p].port)
      BY <3>2, <3>3 DEF Recorded
    <3>6. \A p \in StartedByUs' : record' = RecordOf(p, proc[p].port)'
      BY <1>1, <3>5, SameStarted
    <3> QED
      BY <1>1, <1>2, <3>2, <3>4, <3>6, TrackingOfOne
  <2> QED
    BY <2>1, <2>2
<1> QED
  BY <1>3, <1>4

LEMMA TrackingLogin ==
  ASSUME TypeOK, Alone, NoneRuns, SamePort, ChildOnly, KillsRecorded, Recorded,
         NEW b \in Benches, LoginBegins(b) \/ LoginEnds(b)
  PROVE  Tracking'
<1>1. UNCHANGED <<proc, started, record, open, pc, rec>>
  BY DEF LoginBegins, LoginEnds, systemVars, historyVars
<1> QED
  BY <1>1, SameStarted, TrackingOfFewer

LEMMA TrackingStep ==
  ASSUME TypeOK, Births, Attended, Alone, NoneRuns, SamePort, ChildOnly, KillsRecorded, Recorded,
         ~misread', NEW b \in Benches, Step(b)
  PROVE  Tracking'
<1> USE DEF systemVars, historyVars
<1>1. pc[b] # "idle"
  BY DEF Step, Survey, CheckOwned, Probe, Spawn, WriteRecord, WriteFails, Wait, Stop, CheckStop,
     Kill, RemoveRecord, ClearSession
<1>2. \A c \in Benches \ {b} : pc[c] = "idle"
  BY <1>1 DEF Alone, Busy
<1>3. \A c \in Benches \ {b} : pc'[c] = "idle"
  BY <1>2 DEF TypeOK, Step, Survey, CheckOwned, Probe, Spawn, WriteRecord, WriteFails, Wait, Stop,
     CheckStop, Stopped, Kill, RemoveRecord, ClearSession, Done, Goto
<1>4. pc[b] # "write" => \A p \in StartedByUs : record = RecordOf(p, proc[p].port)
  BY <1>2 DEF Recorded
<1>5. CASE Survey(b)
  <2>1. UNCHANGED <<proc, started, record, open>> /\ pc[b] = "survey"
    BY <1>5 DEF Survey
  <2>2. pc'[b] = "idle" \/ (pc'[b] = "owned" /\ ~Elsewhere(b))
    BY <1>5 DEF Survey, Done, Goto, TypeOK
  <2>3. ~Elsewhere(b) => \A p \in StartedByUs : proc[p].port = open[b]
    <3> SUFFICES ASSUME ~Elsewhere(b), NEW p \in StartedByUs PROVE proc[p].port = open[b]
      OBVIOUS
    <3>1. record = RecordOf(p, proc[p].port)
      BY <1>4, <2>1
    <3>2. OwnedProcess(record) /\ record.port = proc[p].port
      BY <3>1, RecordedIsOwned DEF RecordOf
    <3> QED
      BY <3>2 DEF Elsewhere
  <2>4. \A p \in StartedByUs' : record' = RecordOf(p, proc[p].port)'
    BY <1>4, <2>1, SameStarted
  <2> QED
    BY <1>3, <2>1, <2>2, <2>3, <2>4, SameStarted, TrackingOfOne
<1>14. CASE CheckOwned(b)
  <2>1. UNCHANGED <<proc, started, record, open>> /\ pc[b] = "owned"
    BY <1>14 DEF CheckOwned
  <2>2. pc'[b] = "idle" \/ (pc'[b] = "probe" /\ ~IsOwned(b))
    BY <1>14 DEF CheckOwned, Done, Goto, TypeOK
  <2>3. ~IsOwned(b) => StartedByUs = {}
    <3> SUFFICES ASSUME NEW p \in StartedByUs PROVE IsOwned(b)
      OBVIOUS
    <3>1. record = RecordOf(p, proc[p].port) /\ proc[p].port = open[b]
      BY <1>4, <2>1 DEF SamePort
    <3>2. OwnedProcess(record) /\ record.port = open[b]
      BY <3>1, RecordedIsOwned DEF RecordOf
    <3> QED
      BY <3>2 DEF IsOwned
  <2>4. \A p \in StartedByUs' : record' = RecordOf(p, proc[p].port)'
    BY <1>4, <2>1, SameStarted
  <2> QED
    BY <1>3, <2>1, <2>2, <2>3, <2>4, SameStarted, TrackingOfOne
<1>6. CASE Probe(b)
  <2>1. UNCHANGED <<proc, started, record>> /\ pc[b] = "probe" /\ pc'[b] \in {"idle", "spawn"}
    BY <1>6 DEF Probe, Done, Goto, TypeOK
  <2>2. StartedByUs' = {}
    BY <2>1, SameStarted DEF NoneRuns
  <2> QED
    BY <1>3, <2>1, <2>2, TrackingOfOne
<1>7. CASE Spawn(b)
  <2>1. StartedByUs = {} /\ record' = record
    BY <1>7 DEF NoneRuns, Spawn
  <2>2. open[b] \in Ports
    BY <1>1 DEF Attended, Busy
  <2>3. ASSUME NEW q \in Pids,
               Create(q, "ours", open[b]),
               rec' = [rec EXCEPT ![b] = Child(b, q)],
               started' = started \cup {born + 1},
               Goto(b, "write")
        PROVE  Tracking'
    <3>1. /\ Alive' = Alive \cup {q}
          /\ \A p \in Alive : proc'[p] = proc[p]
          /\ proc'[q] = [born |-> born + 1, exe |-> "ours", port |-> open[b]]
      BY <2>2, <2>3, CreateType
    <3>2. \A p \in Alive : proc[p].born # born + 1
      BY WorkbenchAssumption DEF Births, Alive, TypeOK, Processes
    <3>3. StartedByUs' \subseteq {q}
      BY <2>1, <2>3, <3>1, <3>2 DEF StartedByUs
    <3>4. rec'[b] = Child(b, q) /\ pc'[b] = "write"
      BY <2>3 DEF TypeOK, Goto
    <3>5. Child(b, q) = RecordOf(q, proc[q].port)'
      BY <3>1 DEF Child, RecordOf
    <3>6. \A p \in StartedByUs' : rec'[b] = RecordOf(p, proc[p].port)'
      BY <3>3, <3>4, <3>5
    <3> QED
      BY <1>3, <3>4, <3>6, TrackingOfOne
  <2>4. ASSUME Done(b), UNCHANGED <<systemVars, started>>
        PROVE  Tracking'
    <3>1. pc'[b] = "idle" /\ StartedByUs' = {}
      BY <2>1, <2>4, SameStarted DEF Done, Goto, TypeOK
    <3> QED
      BY <1>3, <3>1, TrackingOfOne
  <2> QED
    BY <1>7, <2>3, <2>4 DEF Spawn
<1>8. CASE WriteRecord(b)
  <2>1. UNCHANGED <<proc, started>> /\ pc[b] = "write" /\ pc'[b] = "wait" /\ record' = rec[b]
    BY <1>8 DEF WriteRecord, Goto, TypeOK
  <2>2. \A p \in StartedByUs' : record' = RecordOf(p, proc[p].port)'
    BY <2>1, SameStarted DEF ChildOnly
  <2> QED
    BY <1>3, <2>1, <2>2, TrackingOfOne
<1>9. CASE WriteFails(b)
  <2>1. pc[b] = "write" /\ pc'[b] = "idle" /\ started' = started
    BY <1>9 DEF WriteFails, Done, Goto, TypeOK
  <2>2. \A p \in StartedByUs : OwnedProcess(rec[b]) /\ rec[b].pid = p
    BY <2>1, RecordedIsOwned DEF ChildOnly
  <2>3. StartedByUs' = {}
    <3>1. CASE OwnedProcess(rec[b])
      <4>1. rec[b].pid \in Pids /\ Gone(rec[b].pid)
        BY <1>9, <3>1 DEF WriteFails, OwnedProcess, Alive
      <4>2. Alive' = Alive \ {rec[b].pid} /\ \A p \in Alive \ {rec[b].pid} : proc'[p] = proc[p]
        BY <4>1, GoneType
      <4> QED
        BY <2>1, <2>2, <4>2 DEF StartedByUs
    <3>2. CASE ~OwnedProcess(rec[b])
      BY <1>9, <2>1, <2>2, <3>2, SameStarted DEF WriteFails
    <3> QED
      BY <3>1, <3>2
  <2> QED
    BY <1>3, <2>1, <2>3, TrackingOfOne
<1>10. CASE Wait(b)
  <2>1. UNCHANGED <<proc, started, record>> /\ pc[b] = "wait" /\ pc'[b] = "idle"
    BY <1>10 DEF Wait, Done, Goto, TypeOK
  <2>2. \A p \in StartedByUs' : record' = RecordOf(p, proc[p].port)'
    BY <1>4, <2>1, SameStarted
  <2> QED
    BY <1>3, <2>1, <2>2, TrackingOfOne
<1>11. CASE Stop(b)
  <2>1. /\ UNCHANGED <<proc, started, record>> /\ pc[b] = "stop" /\ pc'[b] = "check"
        /\ rec'[b] \in {record, NoRecord}
    BY <1>11 DEF Stop, Goto, TypeOK
  <2>2. \A p \in StartedByUs' : record' = RecordOf(p, proc[p].port)'
    BY <1>4, <2>1, SameStarted
  <2> QED
    BY <1>3, <2>1, <2>2, TrackingOfOne
<1>15. CASE CheckStop(b)
  <2>1. UNCHANGED <<proc, started, record>> /\ pc[b] = "check"
    BY <1>15 DEF CheckStop
  <2>2. pc'[b] \in {"idle", "survey"} \/ (pc'[b] = "kill" /\ rec'[b] = rec[b])
    BY <1>15, StoppedType DEF CheckStop, Done, Goto, TypeOK
  <2>3. rec[b] \in {record, NoRecord}
    BY <2>1 DEF KillsRecorded
  <2>4. \A p \in StartedByUs' : record' = RecordOf(p, proc[p].port)'
    BY <1>4, <2>1, SameStarted
  <2> QED
    BY <1>3, <2>1, <2>2, <2>3, <2>4, TrackingOfOne
<1>12. CASE Kill(b)
  <2>1. pc[b] = "kill" /\ record' = record /\ started' = started
    BY <1>12 DEF Kill
  <2>2. ASSUME Done(b), UNCHANGED proc
        PROVE  Tracking'
    <3>1. pc'[b] = "idle"
      BY <2>2 DEF Done, Goto, TypeOK
    <3>2. \A p \in StartedByUs' : record' = RecordOf(p, proc[p].port)'
      BY <1>4, <2>1, <2>2, SameStarted
    <3> QED
      BY <1>3, <3>1, <3>2, TrackingOfOne
  <2>3. ASSUME OwnedProcess(rec[b]), Gone(rec[b].pid), Goto(b, "remove")
        PROVE  Tracking'
    <3>1. pc'[b] = "remove"
      BY <2>3 DEF Goto, TypeOK
    <3>2. rec[b].pid \in Pids
      BY <2>3 DEF OwnedProcess, Alive
    <3>3. Alive' = Alive \ {rec[b].pid} /\ \A p \in Alive \ {rec[b].pid} : proc'[p] = proc[p]
      BY <2>3, <3>2, GoneType
    <3>6. rec[b] = record
      BY <2>1, <2>3 DEF KillsRecorded, OwnedProcess
    <3>4. \A p \in StartedByUs : p = rec[b].pid
      BY <1>4, <2>1, <3>6, RecordedIsOwned
    <3>5. StartedByUs' = {}
      BY <2>1, <3>3, <3>4 DEF StartedByUs
    <3> QED
      BY <1>3, <3>1, <3>5, TrackingOfOne
  <2> QED
    BY <1>12, <2>2, <2>3 DEF Kill
<1>13. CASE RemoveRecord(b)
  <2>1. UNCHANGED <<proc, started>> /\ pc[b] = "remove" /\ pc'[b] = "session"
    BY <1>13 DEF RemoveRecord, Goto, TypeOK
  <2>2. StartedByUs' = {}
    BY <2>1, SameStarted DEF NoneRuns
  <2> QED
    BY <1>3, <2>1, <2>2, TrackingOfOne
<1>16. CASE ClearSession(b)
  <2>1. UNCHANGED <<proc, started, record>> /\ pc[b] = "session" /\ pc'[b] \in {"idle", "survey"}
    BY <1>16, StoppedType DEF ClearSession, TypeOK
  <2>2. \A p \in StartedByUs' : record' = RecordOf(p, proc[p].port)'
    BY <1>4, <2>1, SameStarted
  <2> QED
    BY <1>3, <2>1, <2>2, TrackingOfOne
<1> QED
  BY <1>5, <1>6, <1>7, <1>8, <1>9, <1>10, <1>11, <1>12, <1>13, <1>14, <1>15, <1>16 DEF Step

\* An exception once made is not forgotten.
LEMMA ExceptionsStay ==
  ASSUME [Next]_vars, TypeOK, ~loose', ~misread'
  PROVE  ~loose /\ ~misread
BY DEF TypeOK, Next, vars, historyVars, Stranger, Bind, Exit, Open, Close, LoginBegins, LoginEnds,
   Request, Begin, Step, Survey, CheckOwned, Probe, Spawn, WriteRecord, WriteFails, Wait, Stop,
   CheckStop, Kill, RemoveRecord, ClearSession

LEMMA InvInit == Init => Inv
<1> SUFFICES ASSUME Init PROVE Inv
  OBVIOUS
<1>1. StartedByUs = {}
  BY DEF Init, StartedByUs
<1>2. Tracking
  BY <1>1 DEF Init, Tracking, Alone, Busy, NoneRuns, SamePort, ChildOnly, KillsRecorded, Recorded
<1> QED
  BY <1>2, TypeInit, AttendedInit DEF Inv

LEMMA InvStep == Inv /\ [Next]_vars => Inv'
<1> SUFFICES ASSUME Inv, [Next]_vars PROVE Inv'
  OBVIOUS
<1>1. TypeOK' /\ Births' /\ Attended'
  BY TypeStep, AttendedStep, TypeStutter DEF Inv
<1>2. ASSUME ~loose', ~misread' PROVE Tracking'
  <2>1. Alone /\ NoneRuns /\ SamePort /\ ChildOnly /\ KillsRecorded /\ Recorded
    BY <1>2, ExceptionsStay DEF Inv, Tracking
  <2>2. CASE Next
    BY <1>2, <2>1, <2>2, TrackingEnvironment, TrackingLife, TrackingLogin, TrackingStep DEF Next, Inv
  <2>3. CASE UNCHANGED vars
    <3>1. UNCHANGED <<proc, started, record, open, pc, rec>>
      BY <2>3 DEF vars, systemVars, benchVars, historyVars
    <3> QED
      BY <2>1, <3>1, SameStarted, TrackingOfFewer
  <2> QED
    BY <2>2, <2>3
<1>3. Tracking'
  BY <1>2 DEF Tracking
<1> QED
  BY <1>1, <1>3 DEF Inv

\* A gateway that a workbench started is in the record, or about to be
\* (startLocked, stopLocked), as long as no workbench went between start and
\* record, no two operated at once, and no start missed a running gateway
\* because a read of the record or a question to the system failed.
THEOREM WorkbenchKeepsTrack == Spec => []KeepsTrack
<1>1. Inv => KeepsTrack
  <2> SUFFICES ASSUME Inv, ~loose, ~misread, NEW p \in StartedByUs
               PROVE  \/ record = RecordOf(p, proc[p].port)
                      \/ \E b \in Benches : pc[b] = "write" /\ rec[b] = RecordOf(p, proc[p].port)
    BY DEF KeepsTrack
  <2> QED
    BY DEF Inv, Tracking, Recorded, ChildOnly
<1> QED
  BY <1>1, InvInit, InvStep, PTL DEF Spec

\* With the same three exceptions no second gateway runs over the deployment's
\* database (startLocked looks for one on other ports, too).
THEOREM WorkbenchOneGateway == Spec => []OneGateway
<1>1. Inv => OneGateway
  <2> SUFFICES ASSUME Inv, ~loose, ~misread PROVE Cardinality(StartedByUs) <= 1
    BY DEF OneGateway
  <2>1. \A p, q \in StartedByUs : p = q
    <3> SUFFICES ASSUME NEW p \in StartedByUs, NEW q \in StartedByUs PROVE p = q
      OBVIOUS
    <3>1. PICK r : r = RecordOf(p, proc[p].port) /\ r = RecordOf(q, proc[q].port)
      BY DEF Inv, Tracking, Recorded, ChildOnly
    <3> QED
      BY <3>1 DEF RecordOf
  <2>2. CASE StartedByUs = {}
    BY <2>2, FS_EmptySet
  <2>3. CASE StartedByUs # {}
    <3>1. PICK p : p \in StartedByUs
      BY <2>3
    <3>2. StartedByUs = {p}
      BY <2>1, <3>1
    <3> QED
      BY <3>2, FS_Singleton
  <2> QED
    BY <2>2, <2>3
<1> QED
  BY <1>1, InvInit, InvStep, PTL DEF Spec
=============================================================================
