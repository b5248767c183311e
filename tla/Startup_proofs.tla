--------------------------- MODULE Startup_proofs ---------------------------
(***************************************************************************)
(* Proofs about Startup and the part of it that is Credential, for any number *)
(* of processes, goroutines, tokens, logins, keys and devices.               *)
(*                                                                         *)
(* Startup moves the variables of Credential by Credential's own steps only,  *)
(* so what is inductive for these holds in Startup.                          *)
(***************************************************************************)
EXTENDS Startup, TLAPS

\* What a process and a caller hold where they are.
Held ==
  /\ \A g \in Gateways : pool[g] = "ready" => tok[g] \in 1 .. issued
  /\ behind \subseteq Ready
  /\ \A c \in Callers :
       /\ pc[c] = "post" => sent[c] \in 1 .. issued
       /\ c \in MidRotation => reply[c] \in 1 .. issued
       /\ pc[c] # "idle" => c[1] \in Ready
  /\ \A t \in 1 .. issued : login[t] \in 1 .. logins

\* Whoever is not behind holds tokens of the last login.
Lineage ==
  ~undone =>
    /\ NewLoginUsed
    /\ \A c \in Callers : c[1] \notin behind =>
         /\ pc[c] = "post" => login[sent[c]] = logins
         /\ c \in MidRotation => login[reply[c]] = logins

\* A token on its way from the server to the store is nobody else's: it is not
\* stored, not about to be spent, and in a Client only while that is fresh.
OnItsWay ==
  \A c \in MidRotation :
    /\ reply[c] # stored
    /\ \A d \in Callers : /\ pc[d] = "post" => sent[d] # reply[c]
                          /\ d \in MidRotation /\ d # c => reply[d] # reply[c]
    /\ \A g \in Ready : tok[g] = reply[c] => pc[c] = "persist" /\ g = c[1] /\ fresh[g]

\* The server accepts the newest token of a login only.
NewestValid ==
  /\ \A t \in valid : \A u \in 1 .. issued : login[u] = login[t] => u <= t
  /\ \A c \in MidRotation : reply[c] \in valid

StoreFollows ==
  stored # None /\ ~dropped =>
    \/ stored \in valid
    \/ \E c \in MidRotation : login[reply[c]] = login[stored]

Rotations == OnItsWay /\ NewestValid /\ StoreFollows

CredentialInv == TypeOK /\ Held /\ Lineage

-----------------------------------------------------------------------------
(* The steps.                                                               *)

LEMMA CallerIs ==
  \A c \in Callers : c[1] \in Gateways /\ c[2] \in Threads /\ c = <<c[1], c[2]>>
BY DEF Callers

LEMMA StepsOfCredential ==
  ASSUME [CredentialNext]_credentialVars
  PROVE  \/ UNCHANGED credentialVars
         \/ \E c \in Callers :
              \/ StartRefresh(c) \/ ServerRotates(c) \/ RefreshFails(c)
              \/ ReplyLost(c) \/ Receive(c) \/ Persist(c)
         \/ \E g \in Gateways :
              \/ AccessExpires(g) \/ LogIn(g) \/ Crash(g)
              \/ \E listed \in BOOLEAN : OpenPool(g, listed)
BY DEF CredentialNext, Refresh

\* The steps of a process that comes up, serves and ends, seen from the token.
LEMMA StartupSteps ==
  ASSUME [Next]_vars
  PROVE  [CredentialNext]_credentialVars
<1>1. CASE UNCHANGED vars
  BY <1>1 DEF vars
<1>2. ASSUME NEW g \in Gateways,
             \/ Launch(g) \/ ReadKey(g) \/ CreateKeyFile(g) \/ WriteKey(g)
             \/ FindDevice(g) \/ InsertDevice(g)
      PROVE  UNCHANGED credentialVars
  BY <1>2 DEF Launch, ReadKey, CreateKeyFile, WriteKey, FindDevice, InsertDevice
<1>3. ASSUME NEW g \in Gateways, LoadPool(g)
      PROVE  CredentialNext
  <2>1. (sealed = mkey[g]) \in BOOLEAN
    OBVIOUS
  <2>2. PICK listed \in BOOLEAN : listed = (sealed = mkey[g])
    BY <2>1
  <2>3. OpenPool(g, listed)
    BY <1>3, <2>2 DEF LoadPool, OpenPool
  <2>4. QED
    BY <2>3 DEF CredentialNext
<1>4. ASSUME NEW g \in Gateways, Bind(g) \/ Terminate(g)
      PROVE  [CredentialNext]_credentialVars
  BY <1>4 DEF Bind, Terminate, Kill, CredentialNext
<1>5. ASSUME NEW g \in Gateways, AddAccount(g) \/ Age(g)
      PROVE  CredentialNext
  BY <1>5 DEF AddAccount, Age, CredentialNext
<1>6. ASSUME NEW c \in Callers, Exchange(c) \/ WriteToken(c)
      PROVE  CredentialNext
  BY <1>6 DEF Exchange, WriteToken, CredentialNext
<1>7. QED
  BY <1>1, <1>2, <1>3, <1>4, <1>5, <1>6 DEF Next

-----------------------------------------------------------------------------
(* Types, and which login a token is of.                                    *)

LEMMA CredentialInitInv ==
  ASSUME CredentialInit
  PROVE  CredentialInv /\ Rotations
<1>1. TypeOK
  <2>1. /\ issued \in 0 .. MaxToken /\ valid \in SUBSET (1 .. issued)
        /\ login \in [Tokens -> 0 .. MaxLogins] /\ logins \in 0 .. MaxLogins
    BY CredentialAssumption DEF CredentialInit
  <2>2. /\ pool \in [Gateways -> {"down", "empty", "ready"}]
        /\ tok \in [Gateways -> (1 .. issued) \cup {None}]
        /\ fresh \in [Gateways -> BOOLEAN]
    BY DEF CredentialInit
  <2>3. /\ pc \in [Callers -> {"idle", "post", "reply", "persist"}]
        /\ sent \in [Callers -> (1 .. issued) \cup {None}]
        /\ reply \in [Callers -> (1 .. issued) \cup {None}]
    BY DEF CredentialInit
  <2>4. QED
    BY <2>1, <2>2, <2>3 DEF CredentialInit, TypeOK
<1>2. Held
  BY DEF CredentialInit, Held, MidRotation
<1>3. Lineage
  BY DEF CredentialInit, Lineage, NewLoginUsed, MidRotation, Ready
<1>4. Rotations
  BY DEF CredentialInit, Rotations, OnItsWay, NewestValid, StoreFollows, MidRotation
<1>5. QED
  BY <1>1, <1>2, <1>3, <1>4 DEF CredentialInv

LEMMA CredentialStep ==
  ASSUME CredentialInv, [CredentialNext]_credentialVars
  PROVE  CredentialInv'
<1> USE CredentialAssumption, CallerIs
    DEF TypeOK, Held, MidRotation, Ready, Tokens, serverVars, clientVars, callerVars, loginVars
<1>1. CASE UNCHANGED credentialVars
  BY <1>1 DEF credentialVars, CredentialInv, Lineage, NewLoginUsed
<1>2. ASSUME NEW c \in Callers, StartRefresh(c)
      PROVE  CredentialInv'
  <2>1. TypeOK' /\ Held'
    <3>1. TypeOK'
      BY <1>2 DEF CredentialInv, StartRefresh, NeedsRefresh
    <3>2. Held'
      BY <1>2 DEF CredentialInv, StartRefresh, NeedsRefresh
    <3>3. QED
      BY <3>1, <3>2
  <2>2. Lineage'
    BY <1>2, <2>1 DEF CredentialInv, Lineage, NewLoginUsed, StartRefresh, NeedsRefresh
  <2>3. QED
    BY <2>1, <2>2 DEF CredentialInv
<1>3. ASSUME NEW c \in Callers, ServerRotates(c)
      PROVE  CredentialInv'
  <2>1. TypeOK' /\ Held'
    <3>1. /\ issued' = issued + 1 /\ issued' \in 1 .. MaxToken
          /\ 1 .. issued' = (1 .. issued) \cup {issued'}
          /\ sent[c] \in valid /\ sent[c] \in 1 .. issued
      BY <1>3 DEF CredentialInv, ServerRotates
    <3>2. /\ valid' \subseteq valid \cup {issued'}
          /\ login' \in [Tokens -> 0 .. MaxLogins]
          /\ login'[issued'] = login[sent[c]]
          /\ \A t \in 1 .. issued : login'[t] = login[t]
      BY <1>3, <3>1 DEF CredentialInv, ServerRotates
    <3>3. /\ reply' \in [Callers -> (1 .. issued') \cup {None}]
          /\ pc' \in [Callers -> {"idle", "post", "reply", "persist"}]
      BY <1>3, <3>1 DEF CredentialInv, ServerRotates
    <3>4. TypeOK'
      BY <1>3, <3>1, <3>2, <3>3 DEF CredentialInv, ServerRotates
    <3>5. Held'
      <4>1. \A t \in 1 .. issued' : login'[t] \in 1 .. logins'
        BY <1>3, <3>1, <3>2 DEF CredentialInv, ServerRotates
      <4>2. \A d \in Callers : /\ pc'[d] = "post" => pc[d] = "post"
                               /\ d \in MidRotation' => reply'[d] \in 1 .. issued'
                               /\ pc'[d] # "idle" => pc[d] # "idle"
        BY <1>3, <3>1 DEF CredentialInv, ServerRotates
      <4>3. QED
        BY <1>3, <3>1, <4>1, <4>2 DEF CredentialInv, ServerRotates
    <3>6. QED
      BY <3>4, <3>5
  <2>2. Lineage'
    BY <1>3, <2>1 DEF CredentialInv, Lineage, NewLoginUsed, ServerRotates
  <2>3. QED
    BY <2>1, <2>2 DEF CredentialInv
<1>4. ASSUME NEW c \in Callers, RefreshFails(c)
      PROVE  CredentialInv'
  <2>1. TypeOK' /\ Held'
    <3>1. TypeOK'
      BY <1>4 DEF CredentialInv, RefreshFails, Idle
    <3>2. Held'
      BY <1>4 DEF CredentialInv, RefreshFails, Idle
    <3>3. QED
      BY <3>1, <3>2
  <2>2. Lineage'
    BY <1>4, <2>1 DEF CredentialInv, Lineage, NewLoginUsed, RefreshFails, Idle
  <2>3. QED
    BY <2>1, <2>2 DEF CredentialInv
<1>5. ASSUME NEW c \in Callers, ReplyLost(c)
      PROVE  CredentialInv'
  <2>1. TypeOK' /\ Held'
    <3>1. TypeOK'
      BY <1>5 DEF CredentialInv, ReplyLost, Idle
    <3>2. Held'
      BY <1>5 DEF CredentialInv, ReplyLost, Idle
    <3>3. QED
      BY <3>1, <3>2
  <2>2. Lineage'
    BY <1>5, <2>1 DEF CredentialInv, Lineage, NewLoginUsed, ReplyLost, Idle
  <2>3. QED
    BY <2>1, <2>2 DEF CredentialInv
<1>6. ASSUME NEW c \in Callers, Receive(c)
      PROVE  CredentialInv'
  <2>1. TypeOK' /\ Held'
    <3>1. /\ tok' \in [Gateways -> (1 .. issued) \cup {None}] /\ fresh' \in [Gateways -> BOOLEAN]
          /\ \A g \in Gateways : pool[g] = "ready" => tok'[g] \in 1 .. issued
      BY <1>6 DEF CredentialInv, Receive
    <3>2. /\ pc' \in [Callers -> {"idle", "post", "reply", "persist"}]
          /\ sent' \in [Callers -> (1 .. issued) \cup {None}]
          /\ reply' \in [Callers -> (1 .. issued) \cup {None}]
      <4>1. CASE Rotated(c)
        BY <1>6, <4>1 DEF CredentialInv, Receive
      <4>2. CASE ~Rotated(c)
        BY <1>6, <4>2 DEF CredentialInv, Receive, Idle
      <4>3. QED
        BY <4>1, <4>2
    <3>3. TypeOK'
      BY <1>6, <3>1, <3>2 DEF CredentialInv, Receive
    <3>4. \A d \in Callers : /\ pc'[d] = "post" => pc[d] = "post" /\ sent'[d] = sent[d]
                             /\ d \in MidRotation' => d \in MidRotation /\ reply'[d] = reply[d]
                             /\ pc'[d] # "idle" => pc[d] # "idle"
      <4>1. CASE Rotated(c)
        BY <1>6, <4>1 DEF CredentialInv, Receive
      <4>2. CASE ~Rotated(c)
        BY <1>6, <4>2 DEF CredentialInv, Receive, Idle
      <4>3. QED
        BY <4>1, <4>2
    <3>5. Held'
      BY <1>6, <3>1, <3>4 DEF CredentialInv, Receive
    <3>6. QED
      BY <3>3, <3>5
  <2>2. Lineage'
    BY <1>6, <2>1 DEF CredentialInv, Lineage, NewLoginUsed, Receive, Idle, Rotated
  <2>3. QED
    BY <2>1, <2>2 DEF CredentialInv
<1>7. ASSUME NEW c \in Callers, Persist(c)
      PROVE  CredentialInv'
  <2>1. TypeOK' /\ Held'
    <3>1. TypeOK'
      BY <1>7 DEF CredentialInv, Persist, Idle
    <3>2. Held'
      BY <1>7 DEF CredentialInv, Persist, Idle
    <3>3. QED
      BY <3>1, <3>2
  <2>2. Lineage'
    BY <1>7, <2>1 DEF CredentialInv, Lineage, NewLoginUsed, Persist, Idle
  <2>3. QED
    BY <2>1, <2>2 DEF CredentialInv
<1>8. ASSUME NEW g \in Gateways, AccessExpires(g)
      PROVE  CredentialInv'
  <2>1. TypeOK' /\ Held'
    <3>1. TypeOK'
      BY <1>8 DEF CredentialInv, AccessExpires
    <3>2. Held'
      BY <1>8 DEF CredentialInv, AccessExpires
    <3>3. QED
      BY <3>1, <3>2
  <2>2. Lineage'
    BY <1>8, <2>1 DEF CredentialInv, Lineage, NewLoginUsed, AccessExpires
  <2>3. QED
    BY <2>1, <2>2 DEF CredentialInv
<1>9. ASSUME NEW g \in Gateways, LogIn(g)
      PROVE  CredentialInv'
  <2>1. TypeOK' /\ Held'
    <3>1. /\ issued \in Nat /\ issued' = issued + 1 /\ issued' \in 1 .. MaxToken
          /\ 1 .. issued' = (1 .. issued) \cup {issued'}
      BY <1>9 DEF CredentialInv, LogIn
    <3>2. /\ valid' \in SUBSET (1 .. issued') /\ stored' = issued'
          /\ login' \in [Tokens -> 0 .. MaxLogins] /\ logins' \in 0 .. MaxLogins
      BY <1>9, <3>1 DEF CredentialInv, LogIn, TokenOfLogin
    <3>3. /\ pool' \in [Gateways -> {"down", "empty", "ready"}]
          /\ tok' \in [Gateways -> (1 .. issued') \cup {None}]
          /\ \A h \in Gateways : pool'[h] = "ready" => tok'[h] \in 1 .. issued'
          /\ \A h \in Ready : h \in Ready'
      <4>1. CASE pool[g] = "ready"
        BY <1>9, <3>1, <3>2, <4>1 DEF CredentialInv, LogIn
      <4>2. CASE pool[g] # "ready"
        BY <1>9, <3>1, <3>2, <4>2 DEF CredentialInv, LogIn
      <4>3. QED
        BY <4>1, <4>2
    <3>4. TypeOK'
      <4>1. /\ fresh' \in [Gateways -> BOOLEAN]
            /\ pc' \in [Callers -> {"idle", "post", "reply", "persist"}]
            /\ sent' \in [Callers -> (1 .. issued) \cup {None}]
            /\ reply' \in [Callers -> (1 .. issued) \cup {None}]
            /\ dropped' \in BOOLEAN /\ behind' \in SUBSET Gateways /\ undone' \in BOOLEAN
        BY <1>9 DEF CredentialInv, LogIn
      <4>2. /\ sent' \in [Callers -> (1 .. issued') \cup {None}]
            /\ reply' \in [Callers -> (1 .. issued') \cup {None}]
        BY <3>1, <4>1
      <4>3. issued' \in 0 .. MaxToken /\ stored' \in (1 .. issued') \cup {None}
        BY <3>1, <3>2
      <4>4. QED
        BY <3>2, <3>3, <4>1, <4>2, <4>3
    <3>5. \A t \in 1 .. issued' : login'[t] \in 1 .. logins'
      BY <1>9, <3>1 DEF CredentialInv, LogIn
    <3>6. Held'
      BY <1>9, <3>1, <3>3, <3>5 DEF CredentialInv, LogIn
    <3>7. QED
      BY <3>4, <3>6
  <2>2. Lineage'
    BY <1>9, <2>1 DEF CredentialInv, Lineage, NewLoginUsed, LogIn, TokenOfLogin
  <2>3. QED
    BY <2>1, <2>2 DEF CredentialInv
<1>10. ASSUME NEW g \in Gateways, Crash(g)
      PROVE  CredentialInv'
  <2>1. TypeOK' /\ Held'
    BY <1>10 DEF CredentialInv, Crash
  <2>2. Lineage'
    BY <1>10, <2>1 DEF CredentialInv, Lineage, NewLoginUsed, Crash
  <2>3. QED
    BY <2>1, <2>2 DEF CredentialInv
<1>11. ASSUME NEW g \in Gateways, NEW listed \in BOOLEAN, OpenPool(g, listed)
      PROVE  CredentialInv'
  <2>1. TypeOK' /\ Held'
    <3>1. CASE listed /\ stored # None
      <4>1. /\ pool' = [pool EXCEPT ![g] = "ready"] /\ tok' = [tok EXCEPT ![g] = stored]
            /\ stored \in 1 .. issued
            /\ UNCHANGED <<serverVars, fresh, stored, callerVars, dropped, loginVars>>
        BY <1>11, <3>1 DEF CredentialInv, OpenPool
      <4>2. /\ pool' \in [Gateways -> {"down", "empty", "ready"}]
            /\ tok' \in [Gateways -> (1 .. issued) \cup {None}]
            /\ \A h \in Gateways : pool'[h] = "ready" => tok'[h] \in 1 .. issued
            /\ Ready \subseteq Ready'
        BY <4>1 DEF CredentialInv
      <4>3. QED
        BY <4>1, <4>2 DEF CredentialInv
    <3>2. CASE ~(listed /\ stored # None)
      BY <1>11, <3>2 DEF CredentialInv, OpenPool
    <3>3. QED
      BY <3>1, <3>2
  <2>2. Lineage'
    BY <1>11, <2>1 DEF CredentialInv, Lineage, NewLoginUsed, OpenPool
  <2>3. QED
    BY <2>1, <2>2 DEF CredentialInv
<1>12. QED
  BY <1>1, <1>2, <1>3, <1>4, <1>5, <1>6, <1>7, <1>8, <1>9, <1>10, <1>11, StepsOfCredential

-----------------------------------------------------------------------------
(* Rotations, with a server that revokes what it rotates.                   *)

LEMMA RotationStep ==
  ASSUME Revokes, PromptPersist, CredentialInv, CredentialInv', Rotations,
         [CredentialNext]_credentialVars
  PROVE  Rotations'
<1> USE CredentialAssumption, CallerIs
    DEF CredentialInv, TypeOK, Held, MidRotation, Ready, Tokens,
        serverVars, clientVars, callerVars, loginVars
<1>1. CASE UNCHANGED credentialVars
  BY <1>1 DEF credentialVars, Rotations, OnItsWay, NewestValid, StoreFollows
<1>2. ASSUME NEW c \in Callers, StartRefresh(c)
      PROVE  Rotations'
  <2>1. OnItsWay'
    BY <1>2 DEF Rotations, OnItsWay, StartRefresh, NeedsRefresh
  <2>2. NewestValid'
    BY <1>2 DEF Rotations, OnItsWay, NewestValid, StartRefresh, NeedsRefresh
  <2>3. StoreFollows'
    <3>1. MidRotation' = MidRotation /\ UNCHANGED <<stored, dropped, valid, login, reply>>
      BY <1>2 DEF StartRefresh
    <3>2. QED
      BY <3>1 DEF Rotations, StoreFollows
  <2>4. QED
    BY <2>1, <2>2, <2>3 DEF Rotations
<1>3. ASSUME NEW c \in Callers, ServerRotates(c)
      PROVE  Rotations'
  <2>1. OnItsWay'
    BY <1>3 DEF Rotations, OnItsWay, ServerRotates
  <2>2. NewestValid'
    <3> DEFINE spent == sent[c]
               next == issued + 1
    <3>1. /\ spent \in valid /\ spent \in 1 .. issued /\ next \in 1 .. MaxToken /\ issued' = next
          /\ valid' = (valid \ {spent}) \cup {next}
          /\ \A t \in 1 .. issued : login'[t] = login[t]
          /\ login'[next] = login[spent]
      BY <1>3 DEF ServerRotates
    <3>2. 1 .. issued' = (1 .. issued) \cup {next}
      BY <3>1
    <3>3. ASSUME NEW t \in valid', NEW u \in 1 .. issued', login'[u] = login'[t]
          PROVE  u <= t
      <4>1. CASE t = next
        BY <3>1, <3>2, <4>1
      <4>2. CASE t # next
        <5>1. t \in valid /\ t # spent /\ t \in 1 .. issued /\ login'[t] = login[t]
          BY <3>1, <4>2
        <5>2. login[t] # login[spent]
          <6>1. login[t] = login[spent] => t <= spent /\ spent <= t
            BY <3>1, <5>1 DEF Rotations, NewestValid
          <6>2. issued \in Int /\ t \in Int /\ spent \in Int
            BY <3>1, <5>1
          <6>3. QED
            BY <5>1, <6>1, <6>2
        <5>3. u \in 1 .. issued
          BY <3>1, <3>2, <3>3, <5>1, <5>2
        <5>4. QED
          BY <3>1, <3>3, <5>1, <5>3 DEF Rotations, NewestValid
      <4>3. QED
        BY <4>1, <4>2
    <3>4. ASSUME NEW d \in Callers, d \in MidRotation'
          PROVE  reply'[d] \in valid'
      <4>1. CASE d = c
        BY <1>3, <3>1, <4>1 DEF ServerRotates
      <4>2. CASE d # c
        BY <1>3, <3>1, <3>4, <4>2 DEF ServerRotates, Rotations, OnItsWay, NewestValid
      <4>3. QED
        BY <4>1, <4>2
    <3>5. QED
      BY <3>3, <3>4 DEF NewestValid
  <2>3. StoreFollows'
    <3>1. /\ sent[c] \in valid /\ sent[c] \in 1 .. issued /\ issued + 1 \in 1 .. MaxToken
          /\ issued' = issued + 1 /\ valid \ {sent[c]} \subseteq valid'
          /\ pc[c] = "post" /\ UNCHANGED <<stored, dropped>>
      BY <1>3 DEF ServerRotates, CredentialInv, TypeOK, Held
    <3>2. /\ \A t \in 1 .. issued : login'[t] = login[t]
          /\ login'[issued + 1] = login[sent[c]]
      BY <1>3, <3>1 DEF ServerRotates, CredentialInv, TypeOK
    <3>3. /\ c \in MidRotation' /\ reply'[c] = issued + 1
          /\ \A d \in MidRotation : d # c /\ d \in MidRotation' /\ reply'[d] = reply[d]
      BY <1>3, <3>1 DEF ServerRotates, MidRotation, CredentialInv, TypeOK
    <3>4. SUFFICES ASSUME stored # None, ~dropped
                   PROVE  \/ stored \in valid'
                          \/ \E d \in MidRotation' : login'[reply'[d]] = login'[stored]
      BY <3>1 DEF StoreFollows
    <3>5. stored \in 1 .. issued
      BY <3>4 DEF CredentialInv, TypeOK
    <3>6. CASE stored = sent[c]
      BY <3>2, <3>3, <3>5, <3>6
    <3>7. CASE stored # sent[c] /\ stored \in valid
      BY <3>1, <3>7
    <3>8. CASE stored \notin valid
      <4>1. PICK d \in MidRotation : login[reply[d]] = login[stored]
        BY <3>4, <3>8 DEF Rotations, StoreFollows
      <4>2. reply[d] \in 1 .. issued
        BY DEF CredentialInv, Held, MidRotation
      <4>3. QED
        BY <3>2, <3>3, <3>5, <4>1, <4>2
    <3>9. QED
      BY <3>6, <3>7, <3>8
  <2>4. QED
    BY <2>1, <2>2, <2>3 DEF Rotations
<1>4. ASSUME NEW c \in Callers, RefreshFails(c)
      PROVE  Rotations'
  <2>1. OnItsWay'
    BY <1>4 DEF Rotations, OnItsWay, RefreshFails, Idle
  <2>2. NewestValid'
    BY <1>4 DEF Rotations, OnItsWay, NewestValid, RefreshFails, Idle
  <2>3. StoreFollows'
    BY <1>4 DEF Rotations, OnItsWay, NewestValid, StoreFollows, RefreshFails, Idle
  <2>4. QED
    BY <2>1, <2>2, <2>3 DEF Rotations
<1>5. ASSUME NEW c \in Callers, ReplyLost(c)
      PROVE  Rotations'
  <2>1. OnItsWay'
    BY <1>5 DEF Rotations, OnItsWay, ReplyLost, Idle
  <2>2. NewestValid'
    BY <1>5 DEF Rotations, OnItsWay, NewestValid, ReplyLost, Idle
  <2>3. StoreFollows'
    BY <1>5 DEF Rotations, OnItsWay, NewestValid, StoreFollows, ReplyLost, Idle
  <2>4. QED
    BY <2>1, <2>2, <2>3 DEF Rotations
<1>6. ASSUME NEW c \in Callers, Receive(c)
      PROVE  Rotations'
  <2>1. /\ c \in MidRotation /\ pc[c] = "reply" /\ c[1] \in Ready
        /\ c[1] \in Gateways /\ pool[c[1]] = "ready"
    BY <1>6 DEF Receive, MidRotation, CredentialInv, Held, Ready
  <2>2. reply[c] # tok[c[1]]
    BY <2>1 DEF Rotations, OnItsWay
  <2>3. /\ tok' = [tok EXCEPT ![c[1]] = reply[c]]
        /\ fresh' = [fresh EXCEPT ![c[1]] = TRUE]
        /\ pc' = [pc EXCEPT ![c] = "persist"]
        /\ UNCHANGED <<sent, reply, serverVars, pool, stored, dropped>>
    BY <1>6, <2>2 DEF Receive, Rotated
  <2>4. Ready' = Ready
    BY <2>3 DEF Ready
  <2>5. MidRotation' = MidRotation /\ pc'[c] = "persist"
    BY <2>1, <2>3 DEF MidRotation, CredentialInv, TypeOK
  <2>6. /\ tok'[c[1]] = reply[c] /\ fresh'[c[1]]
        /\ \A g \in Ready : g # c[1] => tok'[g] = tok[g] /\ fresh'[g] = fresh[g]
        /\ \A d \in Callers : d # c => pc'[d] = pc[d]
    BY <2>1, <2>3 DEF CredentialInv, TypeOK, Ready
  <2>7. OnItsWay'
    <3>1. ASSUME NEW d \in MidRotation
          PROVE  /\ reply[d] # stored
                 /\ \A e \in Callers : /\ pc'[e] = "post" => sent[e] # reply[d]
                                       /\ e \in MidRotation /\ e # d => reply[e] # reply[d]
      BY <2>5, <2>6 DEF Rotations, OnItsWay
    <3>2. ASSUME NEW d \in MidRotation, NEW g \in Ready, tok'[g] = reply[d]
          PROVE  pc'[d] = "persist" /\ g = d[1] /\ fresh'[g]
      <4>1. CASE g = c[1]
        <5>1. d = c
          BY <2>1, <2>6, <3>2, <4>1 DEF Rotations, OnItsWay, MidRotation
        <5>2. QED
          BY <2>5, <2>6, <4>1, <5>1
      <4>2. CASE g # c[1]
        <5>1. tok[g] = reply[d] /\ fresh'[g] = fresh[g]
          BY <2>6, <3>2, <4>2
        <5>2. pc[d] = "persist" /\ g = d[1] /\ fresh[g]
          BY <5>1 DEF Rotations, OnItsWay
        <5>3. QED
          BY <2>1, <2>5, <2>6, <5>1, <5>2 DEF MidRotation
      <4>3. QED
        BY <4>1, <4>2
    <3>3. QED
      BY <2>3, <2>4, <2>5, <3>1, <3>2 DEF OnItsWay
  <2>8. NewestValid'
    BY <2>3, <2>5 DEF serverVars, Rotations, NewestValid
  <2>9. StoreFollows'
    BY <2>3, <2>5 DEF serverVars, Rotations, StoreFollows
  <2>10. QED
    BY <2>7, <2>8, <2>9 DEF Rotations
<1>7. ASSUME NEW c \in Callers, Persist(c)
      PROVE  Rotations'
  <2>1. OnItsWay'
    BY <1>7 DEF Rotations, OnItsWay, Persist, Idle
  <2>2. NewestValid'
    BY <1>7 DEF Rotations, OnItsWay, NewestValid, Persist, Idle
  <2>3. StoreFollows'
    BY <1>7 DEF Rotations, OnItsWay, NewestValid, StoreFollows, Persist, Idle
  <2>4. QED
    BY <2>1, <2>2, <2>3 DEF Rotations
<1>8. ASSUME NEW g \in Gateways, AccessExpires(g)
      PROVE  Rotations'
  <2>1. OnItsWay'
    BY <1>8 DEF Rotations, OnItsWay, AccessExpires
  <2>2. NewestValid'
    BY <1>8 DEF Rotations, OnItsWay, NewestValid, AccessExpires
  <2>3. StoreFollows'
    BY <1>8 DEF Rotations, OnItsWay, NewestValid, StoreFollows, AccessExpires
  <2>4. QED
    BY <2>1, <2>2, <2>3 DEF Rotations
<1>9. ASSUME NEW g \in Gateways, LogIn(g)
      PROVE  Rotations'
  <2>1. OnItsWay'
    BY <1>9 DEF Rotations, OnItsWay, LogIn, TokenOfLogin
  <2>2. NewestValid'
    <3>1. /\ issued \in Nat /\ issued' = issued + 1 /\ valid' = valid \cup {issued'}
          /\ valid \subseteq 1 .. issued /\ 1 .. issued' = (1 .. issued) \cup {issued'}
          /\ UNCHANGED <<pc, reply>>
      BY <1>9 DEF LogIn
    <3>2. /\ login'[issued'] = logins + 1
          /\ \A t \in 1 .. issued : login'[t] = login[t] /\ login[t] # logins + 1
      BY <1>9, <3>1 DEF LogIn
    <3>3. ASSUME NEW t \in valid', NEW u \in 1 .. issued', login'[u] = login'[t]
          PROVE  u <= t
      <4>1. CASE t = issued'
        BY <3>1, <4>1
      <4>2. CASE t # issued'
        <5>1. t \in valid /\ t \in 1 .. issued /\ u \in 1 .. issued
          BY <3>1, <3>2, <3>3, <4>2
        <5>2. QED
          BY <3>2, <3>3, <5>1 DEF Rotations, NewestValid
      <4>3. QED
        BY <4>1, <4>2
    <3>4. \A c \in MidRotation' : reply'[c] \in valid'
      BY <3>1 DEF Rotations, NewestValid
    <3>5. QED
      BY <3>3, <3>4 DEF NewestValid
  <2>3. StoreFollows'
    BY <1>9 DEF Rotations, OnItsWay, NewestValid, StoreFollows, LogIn, TokenOfLogin
  <2>4. QED
    BY <2>1, <2>2, <2>3 DEF Rotations
<1>10. ASSUME NEW g \in Gateways, Crash(g)
      PROVE  Rotations'
  <2>1. OnItsWay'
    BY <1>10 DEF Rotations, OnItsWay, Crash
  <2>2. NewestValid'
    BY <1>10 DEF Rotations, OnItsWay, NewestValid, Crash
  <2>3. StoreFollows'
    BY <1>10 DEF Rotations, OnItsWay, NewestValid, StoreFollows, Crash
  <2>4. QED
    BY <2>1, <2>2, <2>3 DEF Rotations
<1>11. ASSUME NEW g \in Gateways, NEW listed \in BOOLEAN, OpenPool(g, listed)
      PROVE  Rotations'
  <2>1. OnItsWay'
    <3>1. CASE listed /\ stored # None
      <4>1. /\ tok' = [tok EXCEPT ![g] = stored] /\ Ready' = Ready \cup {g}
            /\ UNCHANGED <<fresh, stored, pc, sent, reply>>
        BY <1>11, <3>1 DEF OpenPool
      <4>2. \A h \in Ready' : tok'[h] = stored \/ (h \in Ready /\ tok'[h] = tok[h])
        BY <4>1
      <4>3. QED
        BY <4>1, <4>2 DEF Rotations, OnItsWay
    <3>2. CASE ~(listed /\ stored # None)
      BY <1>11, <3>2 DEF Rotations, OnItsWay, OpenPool
    <3>3. QED
      BY <3>1, <3>2
  <2>2. NewestValid'
    BY <1>11 DEF Rotations, OnItsWay, NewestValid, OpenPool
  <2>3. StoreFollows'
    BY <1>11 DEF Rotations, OnItsWay, NewestValid, StoreFollows, OpenPool
  <2>4. QED
    BY <2>1, <2>2, <2>3 DEF Rotations
<1>12. QED
  BY <1>1, <1>2, <1>3, <1>4, <1>5, <1>6, <1>7, <1>8, <1>9, <1>10, <1>11, StepsOfCredential

\* Startup starts where Credential does and takes its steps only.
LEMMA CredentialHolds == Spec => CredentialSpec
<1>1. Init => CredentialInit
  BY DEF Init
<1>2. [Next]_vars => [CredentialNext]_credentialVars
  BY StartupSteps
<1>3. QED
  BY <1>1, <1>2, PTL DEF Spec, CredentialSpec

LEMMA CredentialInvariant == CredentialSpec => []CredentialInv
<1>1. CredentialInit => CredentialInv
  BY CredentialInitInv
<1>2. CredentialInv /\ [CredentialNext]_credentialVars => CredentialInv'
  BY CredentialStep
<1>3. QED
  BY <1>1, <1>2, PTL DEF CredentialSpec

\* After a new login the row and every process that starts use it, across
\* rotations, kills and restarts, unless a process of before has written to the
\* row (store.go, AddAccount; client.go, AccessToken).
THEOREM LoginUsed == Spec => []NewLoginUsed
<1>1. CredentialInv => NewLoginUsed
  <2> SUFFICES ASSUME Lineage PROVE NewLoginUsed
    BY DEF CredentialInv
  <2>1. CASE undone
    BY <2>1 DEF NewLoginUsed
  <2>2. CASE ~undone
    BY <2>2 DEF Lineage
  <2>3. QED
    BY <2>1, <2>2
<1>2. QED
  BY <1>1, CredentialHolds, CredentialInvariant, PTL

\* With a server that revokes what it rotates, the row holds the newest token
\* of its login, or a caller is about to store it, unless a rotation was lost,
\* for any number of processes and goroutines (client.go, AccessToken).
THEOREM RestartsSafe == PromptPersist /\ Spec => []RestartSafe
<1>1. CredentialInit => Rotations
  BY CredentialInitInv
<1>2. ASSUME Revokes, PromptPersist
      PROVE  CredentialSpec => []Rotations
  <2>1. CredentialInv /\ CredentialInv' /\ Rotations /\ [CredentialNext]_credentialVars => Rotations'
    BY <1>2, RotationStep
  <2>2. QED
    BY <1>1, <2>1, CredentialInvariant, PTL DEF CredentialSpec
<1>3. ASSUME CredentialInv, Rotations
      PROVE  RestartSafe
  <2> SUFFICES ASSUME stored # None, ~dropped
               PROVE  \/ stored \in valid /\ \A t \in Kin(stored) : t <= stored
                      \/ \E c \in MidRotation : reply[c] \in valid \cap Kin(stored)
    BY DEF RestartSafe
  <2>1. CASE stored \in valid
    BY <1>3, <2>1 DEF Rotations, NewestValid, Kin
  <2>2. CASE \E c \in MidRotation : login[reply[c]] = login[stored]
    <3>1. PICK c \in MidRotation : login[reply[c]] = login[stored]
      BY <2>2
    <3>2. reply[c] \in 1 .. issued /\ reply[c] \in valid
      BY <1>3 DEF CredentialInv, Held, Rotations, NewestValid, MidRotation
    <3>3. QED
      BY <3>1, <3>2 DEF Kin
  <2>3. QED
    BY <1>3, <2>1, <2>2 DEF Rotations, StoreFollows
<1>4. CASE ~Revokes
  <2>1. RestartSafe
    BY <1>4 DEF RestartSafe
  <2>2. QED
    BY <2>1, PTL
<1>5. CASE Revokes /\ PromptPersist
  BY <1>2, <1>3, <1>5, CredentialHolds, CredentialInvariant, PTL
<1>6. QED
  BY <1>4, <1>5

-----------------------------------------------------------------------------
(* The master key, the device and what is encrypted.                        *)

\* Where a process is in run() and what it has by then.
Booted ==
  /\ \A g \in Gateways :
       /\ g \in HasKey \/ boot[g] \in {"create", "write"} => mkey[g] \in MasterKeys
       /\ pool[g] # "down" <=> boot[g] \in {"bind", "serve"}
  /\ stored # None => sealed \in MasterKeys

\* Only the first start writes the key file.
OneWriter ==
  ~clash => \A g \in Gateways : boot[g] = "write" =>
              /\ keyFile = Torn
              /\ \A h \in Gateways \ {g} : boot[h] # "write"

StartupInv == CredentialInv /\ StartupTypeOK /\ Booted /\ OneWriter /\ DataReadable /\ OneDevice

LEMMA StartupInitInv ==
  ASSUME Init
  PROVE  StartupInv
<1>1. CredentialInv
  BY CredentialInitInv DEF Init
<1>2. StartupTypeOK
  BY <1>1 DEF Init, CredentialInv, StartupTypeOK, BootStates
<1>3. Booted /\ OneWriter /\ DataReadable /\ OneDevice
  BY DEF Init, CredentialInit, Booted, OneWriter, DataReadable, OneDevice, HasKey, NoDevice
<1>4. QED
  BY <1>1, <1>2, <1>3 DEF StartupInv

LEMMA Killed ==
  ASSUME StartupInv, CredentialInv', NEW g \in Gateways, Kill(g)
  PROVE  StartupTypeOK' /\ Booted'
<1> USE StartupAssumption DEF StartupTypeOK, BootStates, Booted, HasKey
<1>1. pool \in [Gateways -> {"down", "empty", "ready"}]
  BY DEF StartupInv, CredentialInv, TypeOK
<1>2. pool' = [pool EXCEPT ![g] = "down"]
  <2>1. CASE pool[g] = "down"
    BY <1>1, <2>1 DEF Kill, credentialVars
  <2>2. CASE pool[g] # "down"
    BY <2>2 DEF Kill, Crash
  <2>3. QED
    BY <2>1, <2>2
<1>3. /\ boot' = [boot EXCEPT ![g] = "off"]
      /\ mkey' = [mkey EXCEPT ![g] = None]
      /\ ident' = [ident EXCEPT ![g] = None]
      /\ UNCHANGED <<stored, keyFile, device, sealed, clash>>
  BY DEF Kill, Ends, Goto, Crash, credentialVars
<1>4. QED
  BY <1>1, <1>2, <1>3 DEF StartupInv, CredentialInv

LEMMA StartupStep ==
  ASSUME StartupInv, [Next]_vars
  PROVE  StartupInv'
<1> USE StartupAssumption, CredentialAssumption, CallerIs
    DEF StartupTypeOK, BootStates, Booted, OneWriter, DataReadable, OneDevice, HasKey,
        NoDevice, Goto, Ends
<1>1. CredentialInv'
  BY StartupSteps, CredentialStep DEF StartupInv
<1> DEFINE Rest == /\ StartupTypeOK /\ Booted /\ OneWriter /\ DataReadable /\ OneDevice
<1>2. CASE UNCHANGED vars
  <2>1. Rest'
    BY <1>1, <1>2 DEF StartupInv, CredentialInv, vars, bootVars, credentialVars
  <2>2. QED
    BY <1>1, <2>1 DEF StartupInv
<1>3. ASSUME NEW g \in Gateways, Launch(g)
      PROVE  StartupInv'
  <2>1. StartupTypeOK' /\ Booted'
    BY <1>1, <1>3 DEF StartupInv, CredentialInv, Launch, credentialVars
  <2>2. OneWriter' /\ DataReadable'
    BY <1>3, <2>1 DEF StartupInv, Launch, credentialVars
  <2>3. OneDevice'
    BY <1>3, <2>1 DEF StartupInv, Launch, credentialVars
  <2>4. QED
    BY <1>1, <2>1, <2>2, <2>3 DEF StartupInv
<1>4. ASSUME NEW g \in Gateways, ReadKey(g)
      PROVE  StartupInv'
  <2>1. StartupTypeOK' /\ Booted'
    BY <1>1, <1>4 DEF StartupInv, CredentialInv, ReadKey, credentialVars
  <2>2. OneWriter' /\ DataReadable'
    BY <1>4, <2>1 DEF StartupInv, ReadKey, credentialVars
  <2>3. OneDevice'
    BY <1>4, <2>1 DEF StartupInv, ReadKey, credentialVars
  <2>4. QED
    BY <1>1, <2>1, <2>2, <2>3 DEF StartupInv
<1>5. ASSUME NEW g \in Gateways, CreateKeyFile(g)
      PROVE  StartupInv'
  <2>1. StartupTypeOK' /\ Booted'
    BY <1>1, <1>5 DEF StartupInv, CredentialInv, CreateKeyFile, credentialVars
  <2>2. OneWriter' /\ DataReadable'
    <3>1. OneWriter'
      BY <1>5, <2>1 DEF StartupInv, CreateKeyFile, credentialVars
    <3>2. DataReadable'
      <4>1. ~clash' => ~clash /\ keyFile = None
        BY <1>5 DEF CreateKeyFile
      <4>2. ~clash' => HasKey = {} /\ device = NoDevice /\ stored = None
        BY <4>1 DEF StartupInv
      <4>3. HasKey' = HasKey /\ UNCHANGED <<mkey, device, stored>>
        BY <1>5 DEF StartupInv, CreateKeyFile, credentialVars
      <4>4. QED
        BY <4>2, <4>3
    <3>3. QED
      BY <3>1, <3>2
  <2>3. OneDevice'
    BY <1>5, <2>1 DEF StartupInv, CreateKeyFile, credentialVars
  <2>4. QED
    BY <1>1, <2>1, <2>2, <2>3 DEF StartupInv
<1>6. ASSUME NEW g \in Gateways, WriteKey(g)
      PROVE  StartupInv'
  <2>1. StartupTypeOK' /\ Booted'
    BY <1>1, <1>6 DEF StartupInv, CredentialInv, WriteKey, SaveKey, credentialVars
  <2>2. OneWriter' /\ DataReadable'
    BY <1>6, <2>1 DEF StartupInv, WriteKey, SaveKey, credentialVars
  <2>3. OneDevice'
    BY <1>6, <2>1 DEF StartupInv, WriteKey, SaveKey, credentialVars
  <2>4. QED
    BY <1>1, <2>1, <2>2, <2>3 DEF StartupInv
<1>7. ASSUME NEW g \in Gateways, FindDevice(g)
      PROVE  StartupInv'
  <2>1. StartupTypeOK' /\ Booted'
    BY <1>1, <1>7 DEF StartupInv, CredentialInv, FindDevice, credentialVars
  <2>2. OneWriter' /\ DataReadable'
    BY <1>7, <2>1 DEF StartupInv, FindDevice, credentialVars
  <2>3. OneDevice'
    BY <1>7, <2>1 DEF StartupInv, FindDevice, credentialVars
  <2>4. QED
    BY <1>1, <2>1, <2>2, <2>3 DEF StartupInv
<1>8. ASSUME NEW g \in Gateways, InsertDevice(g)
      PROVE  StartupInv'
  <2>1. StartupTypeOK' /\ Booted'
    BY <1>1, <1>8 DEF StartupInv, CredentialInv, InsertDevice, RowIsMissing, credentialVars
  <2>2. OneWriter' /\ DataReadable'
    BY <1>8, <2>1 DEF StartupInv, InsertDevice, RowIsMissing, credentialVars
  <2>3. OneDevice'
    BY <1>8, <2>1 DEF StartupInv, InsertDevice, RowIsMissing, credentialVars
  <2>4. QED
    BY <1>1, <2>1, <2>2, <2>3 DEF StartupInv
<1>9. ASSUME NEW g \in Gateways, LoadPool(g)
      PROVE  StartupInv'
  <2>1. StartupTypeOK' /\ Booted'
    <3>1. /\ pool \in [Gateways -> {"down", "empty", "ready"}]
          /\ pool' = [pool EXCEPT ![g] = "ready"] \/ pool' = [pool EXCEPT ![g] = "empty"]
      BY <1>9 DEF StartupInv, CredentialInv, TypeOK, LoadPool, OpenPool
    <3>2. \A h \in Gateways : pool'[h] # "down" <=> h = g \/ pool[h] # "down"
      BY <3>1
    <3>3. boot' = [boot EXCEPT ![g] = "bind"] /\ boot[g] = "pool"
      BY <1>9 DEF LoadPool
    <3>4. UNCHANGED <<stored, mkey, ident, keyFile, device, sealed, clash>>
      BY <1>9 DEF LoadPool, OpenPool
    <3>5. QED
      BY <1>1, <3>2, <3>3, <3>4 DEF StartupInv, CredentialInv
  <2>2. OneWriter' /\ DataReadable'
    BY <1>9, <2>1 DEF StartupInv, LoadPool, OpenPool, serverVars, callerVars, loginVars
  <2>3. OneDevice'
    BY <1>9, <2>1 DEF StartupInv, LoadPool, OpenPool, serverVars, callerVars, loginVars
  <2>4. QED
    BY <1>1, <2>1, <2>2, <2>3 DEF StartupInv
<1>10. ASSUME NEW g \in Gateways, Terminate(g)
      PROVE  StartupInv'
  <2>1. StartupTypeOK' /\ Booted'
    BY <1>1, <1>10, Killed DEF Terminate
  <2>2. OneWriter' /\ DataReadable'
    BY <1>10, <2>1 DEF StartupInv, Terminate, Kill, Crash, serverVars, credentialVars
  <2>3. OneDevice'
    BY <1>10, <2>1 DEF StartupInv, Terminate, Kill, Crash, serverVars, credentialVars
  <2>4. QED
    BY <1>1, <2>1, <2>2, <2>3 DEF StartupInv
<1>11. ASSUME NEW g \in Gateways, Bind(g)
      PROVE  StartupInv'
  <2>1. StartupTypeOK' /\ Booted'
    <3>1. CASE Kill(g)
      BY <1>1, <3>1, Killed
    <3>2. CASE ~Kill(g)
      BY <1>1, <1>11, <3>2 DEF StartupInv, CredentialInv, Bind, credentialVars
    <3>3. QED
      BY <3>1, <3>2
  <2>2. OneWriter' /\ DataReadable'
    BY <1>11, <2>1 DEF StartupInv, Bind, Kill, Crash, serverVars, credentialVars
  <2>3. OneDevice'
    BY <1>11, <2>1 DEF StartupInv, Bind, Kill, Crash, serverVars, credentialVars
  <2>4. QED
    BY <1>1, <2>1, <2>2, <2>3 DEF StartupInv
<1>12. ASSUME NEW g \in Gateways, AddAccount(g)
      PROVE  StartupInv'
  <2>1. StartupTypeOK' /\ Booted'
    BY <1>1, <1>12 DEF StartupInv, CredentialInv, AddAccount, LogIn, TokenOfLogin
  <2>2. OneWriter' /\ DataReadable'
    BY <1>12, <2>1 DEF StartupInv, AddAccount, LogIn, TokenOfLogin
  <2>3. OneDevice'
    BY <1>12, <2>1 DEF StartupInv, AddAccount, LogIn, TokenOfLogin
  <2>4. QED
    BY <1>1, <2>1, <2>2, <2>3 DEF StartupInv
<1>13. ASSUME NEW g \in Gateways, Age(g)
      PROVE  StartupInv'
  <2>1. StartupTypeOK' /\ Booted'
    BY <1>1, <1>13 DEF StartupInv, CredentialInv, Age, AccessExpires, bootVars
  <2>2. OneWriter' /\ DataReadable'
    BY <1>13, <2>1 DEF StartupInv, Age, AccessExpires, bootVars
  <2>3. OneDevice'
    BY <1>13, <2>1 DEF StartupInv, Age, AccessExpires, bootVars
  <2>4. QED
    BY <1>1, <2>1, <2>2, <2>3 DEF StartupInv
<1>14. ASSUME NEW c \in Callers, Exchange(c)
      PROVE  StartupInv'
  <2>1. StartupTypeOK' /\ Booted'
    BY <1>1, <1>14 DEF StartupInv, CredentialInv, Exchange, Refresh, StartRefresh, ServerRotates, RefreshFails, ReplyLost, Receive, bootVars
  <2>2. OneWriter' /\ DataReadable'
    BY <1>14, <2>1 DEF StartupInv, Exchange, Refresh, StartRefresh, ServerRotates, RefreshFails, ReplyLost, Receive, bootVars
  <2>3. OneDevice'
    BY <1>14, <2>1 DEF StartupInv, Exchange, Refresh, StartRefresh, ServerRotates, RefreshFails, ReplyLost, Receive, bootVars
  <2>4. QED
    BY <1>1, <2>1, <2>2, <2>3 DEF StartupInv
<1>15. ASSUME NEW c \in Callers, WriteToken(c)
      PROVE  StartupInv'
  <2>1. c[1] \in HasKey /\ mkey[c[1]] \in MasterKeys
    <3>1. pool[c[1]] = "ready"
      BY <1>15 DEF StartupInv, CredentialInv, Held, Ready, WriteToken, Persist
    <3>2. boot[c[1]] \in {"bind", "serve"}
      BY <3>1 DEF StartupInv
    <3>3. QED
      BY <3>2 DEF StartupInv
  <2>2. /\ sealed' = sealed \/ sealed' = mkey[c[1]]
        /\ stored' # None => sealed' = mkey[c[1]] \/ (stored # None /\ sealed' = sealed)
        /\ UNCHANGED <<boot, mkey, ident, keyFile, device, clash, pool>>
    BY <1>15 DEF WriteToken, Persist
  <2>3. StartupTypeOK' /\ Booted'
    BY <1>1, <2>1, <2>2 DEF StartupInv, CredentialInv
  <2>4. OneWriter' /\ DataReadable'
    BY <2>1, <2>2 DEF StartupInv
  <2>5. OneDevice'
    BY <2>2 DEF StartupInv
  <2>6. QED
    BY <1>1, <2>3, <2>4, <2>5 DEF StartupInv
<1>16. QED
  BY <1>2, <1>3, <1>4, <1>5, <1>6, <1>7, <1>8, <1>9, <1>10, <1>11, <1>12, <1>13, <1>14, <1>15 DEF Next

LEMMA StartupInvariant == Spec => []StartupInv
<1>1. Init => StartupInv
  BY StartupInitInv
<1>2. StartupInv /\ [Next]_vars => StartupInv'
  BY StartupStep
<1>3. QED
  BY <1>1, <1>2, PTL DEF Spec

\* Every variable of a process, of its token and of the data directory keeps
\* its type through any order of starts, kills and failed reads.
THEOREM StartupTypeCorrect == Spec => []StartupTypeOK
<1>1. StartupInv => StartupTypeOK
  BY DEF StartupInv
<1>2. QED
  BY <1>1, StartupInvariant, PTL

\* As long as no master key is written over another, all that is stored can be
\* decrypted with the one on disk, for any number of processes started at once
\* and killed anywhere (config.go, LoadOrCreateMasterKey).
THEOREM DataStaysReadable == Spec => []DataReadable
<1>1. StartupInv => DataReadable
  BY DEF StartupInv
<1>2. QED
  BY <1>1, StartupInvariant, PTL

\* All processes sign as the device that the store has (store.go,
\* LoadOrCreateDeviceKey).
THEOREM DeviceIsOne == Spec => []OneDevice
<1>1. StartupInv => OneDevice
  BY DEF StartupInv
<1>2. QED
  BY <1>1, StartupInvariant, PTL
=============================================================================
