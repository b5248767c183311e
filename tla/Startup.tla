------------------------------ MODULE Startup -------------------------------
(***************************************************************************)
(* How a gateway process comes up over a data directory (cmd/server/main.go, *)
(* internal/config/config.go, internal/store/store.go): it reads or makes    *)
(* the master key, reads or makes the device identity, decrypts the account  *)
(* into its pool, starts the background refreshes, and only then tries to    *)
(* bind its port.  The process may be killed between any two steps, and a    *)
(* second one may be started over the same directory at any moment.          *)
(*                                                                         *)
(* What is encrypted carries the key it was encrypted with.                  *)
(***************************************************************************)
EXTENDS Credential

CONSTANTS
  MasterKeys,  \* keys that rand.Read may give
  Devices,     \* device identities that GenerateDeviceKey may give
  ReadErrors,  \* reading master.key may fail though the file is there
  Torn         \* what os.WriteFile leaves between creating and writing

ASSUME StartupAssumption ==
  /\ ReadErrors \in BOOLEAN
  /\ Torn # None
  /\ {None, Torn} \cap MasterKeys = {}
  /\ None \notin Devices

VARIABLES
  boot,     \* where a process is in run()
  mkey,     \* its cfg.MasterKey
  ident,    \* its devicePriv
  keyFile,  \* data/master.key
  device,   \* the row of table device
  sealed,   \* the master key that accounts.refresh_token_enc was made with
  clash     \* history: a master key was written over another

bootVars == <<boot, mkey, ident, keyFile, device, sealed, clash>>
vars == <<credentialVars, bootVars>>

NoDevice == [id |-> None, by |-> None]

BootStates == {"off", "key", "create", "write", "device", "insert", "pool", "bind", "serve"}

StartupTypeOK ==
  /\ TypeOK
  /\ boot \in [Gateways -> BootStates]
  /\ mkey \in [Gateways -> MasterKeys \cup {None}]
  /\ ident \in [Gateways -> Devices \cup {None}]
  /\ keyFile \in MasterKeys \cup {None, Torn}
  /\ device \in [id : Devices, by : MasterKeys] \cup {NoDevice}
  /\ sealed \in MasterKeys \cup {None}
  /\ clash \in BOOLEAN

Init ==
  /\ CredentialInit
  /\ boot = [g \in Gateways |-> "off"]
  /\ mkey = [g \in Gateways |-> None]
  /\ ident = [g \in Gateways |-> None]
  /\ keyFile = None
  /\ device = NoDevice
  /\ sealed = None
  /\ clash = FALSE

Goto(g, there) == boot' = [boot EXCEPT ![g] = there]

\* The process is gone, and what it had in memory.
Ends(g) ==
  /\ Goto(g, "off")
  /\ mkey' = [mkey EXCEPT ![g] = None]
  /\ ident' = [ident EXCEPT ![g] = None]

-----------------------------------------------------------------------------
(* LoadOrCreateMasterKey, without MASTER_KEY in the environment, which the   *)
(* workbench takes away.                                                    *)

Launch(g) ==
  /\ boot[g] = "off"
  /\ Goto(g, "key")
  /\ UNCHANGED <<credentialVars, mkey, ident, keyFile, device, sealed, clash>>

KeysInUse == {mkey[g] : g \in Gateways} \cup {keyFile, device.by, sealed}

\* A file that can be read is used, or ends the start if it is no key; any
\* error of the read, not only a missing file, leads to a new key.
ReadKey(g) ==
  /\ boot[g] = "key"
  /\ \/ /\ keyFile \in MasterKeys
        /\ mkey' = [mkey EXCEPT ![g] = keyFile]
        /\ Goto(g, "device")
        /\ UNCHANGED ident
     \/ keyFile = Torn /\ Ends(g)
     \/ /\ keyFile = None \/ ReadErrors
        /\ \E k \in MasterKeys \ KeysInUse : mkey' = [mkey EXCEPT ![g] = k]
        /\ Goto(g, "create")
        /\ UNCHANGED ident
  /\ UNCHANGED <<credentialVars, keyFile, device, sealed, clash>>

\* os.WriteFile creates or empties the file, then writes it.
CreateKeyFile(g) ==
  /\ boot[g] = "create"
  /\ keyFile' = Torn
  /\ clash' = (clash \/ keyFile # None)
  /\ Goto(g, "write")
  /\ UNCHANGED <<credentialVars, mkey, ident, device, sealed>>

\* Mutant: the new key is used and not saved.
KeepInMemory(g) == keyFile

SaveKey(g) == mkey[g]

WriteKey(g) ==
  /\ boot[g] = "write"
  /\ keyFile' = SaveKey(g)
  /\ Goto(g, "device")
  /\ UNCHANGED <<credentialVars, mkey, ident, device, sealed, clash>>

-----------------------------------------------------------------------------
(* LoadOrCreateDeviceKey: two statements.                                   *)

FindDevice(g) ==
  /\ boot[g] = "device"
  /\ \/ device = NoDevice /\ Goto(g, "insert") /\ UNCHANGED <<mkey, ident>>
     \/ /\ device # NoDevice /\ device.by = mkey[g]
        /\ ident' = [ident EXCEPT ![g] = device.id]
        /\ Goto(g, "pool")
        /\ UNCHANGED mkey
     \/ device # NoDevice /\ device.by # mkey[g] /\ Ends(g)
  /\ UNCHANGED <<credentialVars, keyFile, device, sealed, clash>>

\* Mutant: INSERT OR REPLACE.
RowIsFree == TRUE

\* The row's key is 1: a second INSERT fails.
RowIsMissing == device = NoDevice

InsertDevice(g) ==
  /\ boot[g] = "insert"
  /\ IF RowIsMissing
     THEN /\ \E d \in Devices \ ({ident[h] : h \in Gateways} \cup {device.id}) :
               /\ device' = [id |-> d, by |-> mkey[g]]
               /\ ident' = [ident EXCEPT ![g] = d]
          /\ Goto(g, "pool")
          /\ UNCHANGED mkey
     ELSE Ends(g) /\ UNCHANGED device
  /\ UNCHANGED <<credentialVars, keyFile, sealed, clash>>

-----------------------------------------------------------------------------
(* The rest of run().                                                       *)

\* pool.New; StartLimitsLoop may refresh from now on.
LoadPool(g) ==
  /\ boot[g] = "pool"
  /\ OpenPool(g, sealed = mkey[g])
  /\ Goto(g, "bind")
  /\ UNCHANGED <<mkey, ident, keyFile, device, sealed, clash>>

\* The process ends, wherever it is.
Kill(g) ==
  /\ Ends(g)
  /\ IF pool[g] = "down" THEN UNCHANGED credentialVars ELSE Crash(g)
  /\ UNCHANGED <<keyFile, device, sealed, clash>>

\* ListenAndServe: the port of the directory's settings is free or taken.
Bind(g) ==
  /\ boot[g] = "bind"
  /\ IF \E h \in Gateways : boot[h] = "serve"
     THEN Kill(g)
     ELSE Goto(g, "serve") /\ UNCHANGED <<credentialVars, mkey, ident, keyFile, device, sealed, clash>>

Terminate(g) == boot[g] # "off" /\ Kill(g)

\* An administrator's AddAccount, and OnRotate: both encrypt with the key of
\* the process.
AddAccount(g) ==
  /\ boot[g] = "serve"
  /\ LogIn(g)
  /\ sealed' = mkey[g]
  /\ UNCHANGED <<boot, mkey, ident, keyFile, device, clash>>

WriteToken(c) ==
  /\ Persist(c)
  /\ sealed' = IF stored' = stored THEN sealed ELSE mkey[c[1]]
  /\ UNCHANGED <<boot, mkey, ident, keyFile, device, clash>>

Exchange(c) == Refresh(c) /\ UNCHANGED bootVars
Age(g) == AccessExpires(g) /\ UNCHANGED bootVars

Next ==
  \/ \E g \in Gateways :
       \/ Launch(g) \/ ReadKey(g) \/ CreateKeyFile(g) \/ WriteKey(g)
       \/ FindDevice(g) \/ InsertDevice(g) \/ LoadPool(g) \/ Bind(g)
       \/ Terminate(g) \/ AddAccount(g) \/ Age(g)
  \/ \E c \in Callers : Exchange(c) \/ WriteToken(c)

Spec == Init /\ [][Next]_vars

-----------------------------------------------------------------------------
(* Properties.                                                              *)

HasKey == {g \in Gateways : boot[g] \in {"device", "insert", "pool", "bind", "serve"}}

\* DESIGN.md:80, data is lost with the master key: whatever start is killed
\* halfway, repeated, or overlaps with another, all that is stored can be
\* decrypted with the key on disk, and so can what any running process will
\* store, unless a key was written over another: by a second first start, or
\* after a read that failed.
DataReadable ==
  ~clash =>
    /\ \A g \in HasKey : mkey[g] = keyFile
    /\ device # NoDevice => device.by = keyFile
    /\ stored # None => sealed = keyFile

\* config.go:110, a key is generated if there is no file: one that is on disk
\* stays there, however often the gateway is started and killed.
KeyIsKept == [][(keyFile \in MasterKeys) => UNCHANGED keyFile]_vars

\* main.go:57, the identity outlives restarts: all processes sign as the one
\* device that the store has, also when they were first started at once.
OneDevice ==
  \A g \in Gateways : ident[g] # None => device.id = ident[g]
=============================================================================
