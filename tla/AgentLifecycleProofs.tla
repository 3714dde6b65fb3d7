----------------------- MODULE AgentLifecycleProofs ------------------------
(***************************************************************************)
(* Proofs about AgentLifecycle, for every set of tokens, any settings of *)
(* CredentialsWriteEnabled and any number of crashes.                      *)
(***************************************************************************)
EXTENDS AgentLifecycle, TLAPS

\* The agent has a registration token when it registers, and an identity from
\* then on.
TypeInv ==
    /\ TypeOK
    /\ pc = "register" => held \in RegTokens
    /\ pc \in {"saveGet", "saveUpdate", "client", "rotating"} => ident \in Tokens

\* Whatever reaches the Secret is remembered as stored, and App.Run gives the
\* client no identity that it did not find there or put there.
StoredInv == (secret \in Tokens => secret \in stored) /\ UsesStoredIdentity

\* The flag of the client is up only in a session, whoever looks.
ReadyInv == ready => pc = "client" /\ mode = "session"

----------------------------------------------------------------------------
(* What the common parts of the actions do *)

ProcTyped == pc \in Startup \cup {"client", "rotating", "exited"}
             /\ ident \in Tokens \cup {None} /\ held \in RegTokens \cup {None}
             /\ unchanged \in BOOLEAN /\ credsReady \in BOOLEAN /\ Client!TypeOK
             /\ (pc = "register" => held \in RegTokens)
             /\ (pc \in {"saveGet", "saveUpdate", "client", "rotating"} => ident \in Tokens)

WorldTyped == secret \in Tokens \cup {None, Partial} /\ late \in BOOLEAN
              /\ regSecret \in RegTokens \cup {None} /\ used \subseteq RegTokens
              /\ granted \subseteq Tokens /\ stored \subseteq Tokens

LEMMA TypeParts == TypeInv <=> ProcTyped /\ WorldTyped /\ crashes \in 0..MaxCrashes
BY DEF TypeInv, TypeOK, ProcTyped, WorldTyped

LEMMA ExitEffect ==
  ASSUME Exit
  PROVE  /\ ProcTyped'
         /\ pc' = "exited" /\ ~ready'
BY DEF Exit, NoClient, Client!TypeOK, ProcTyped, Startup

LEMMA NewClientEffect ==
  ASSUME ProcTyped, NEW i \in Tokens, NewClient(i), UNCHANGED <<held, unchanged>>
  PROVE  /\ ProcTyped'
         /\ pc' = "client" /\ ident' = i /\ UNCHANGED ready
BY DEF NewClient, ProcTyped, Client!TypeOK, Startup

\* A step inside the startup of the agent, which has no client yet.
LEMMA StartupEffect ==
  ASSUME ProcTyped, NEW p \in Startup \ {"register", "saveGet", "saveUpdate"}, pc' = p,
         UNCHANGED <<ident, unchanged, credsReady, clientVars, ctxDone>>,
         held' \in RegTokens \cup {None}
  PROVE  ProcTyped'
BY DEF ProcTyped, Client!TypeOK, clientVars, Startup

LEMMA ClientEffect ==
  ASSUME ProcTyped, pc = "client", Client!Client, UNCHANGED procVars, UNCHANGED ctxDone
  PROVE  ProcTyped'
<1>1. Client!TypeOK'
  BY DEF ProcTyped, Client!TypeOK, Client!Client, Client!Open, Client!Beat,
     Client!Lose, Client!Return
<1> QED BY <1>1 DEF ProcTyped, procVars

LEMMA ProcStays ==
  ASSUME ProcTyped, UNCHANGED <<procVars, clientVars>>, ctxDone' \in BOOLEAN
  PROVE  ProcTyped'
BY DEF ProcTyped, Client!TypeOK, procVars, clientVars

----------------------------------------------------------------------------

\* Every variable keeps its type, the client's that of the contract included.
THEOREM LifecycleTyped == Spec => [](TypeOK /\ TypeInv)
<1>1. Init => TypeInv
  <2> SUFFICES ASSUME Init PROVE ProcTyped /\ WorldTyped /\ crashes \in 0..MaxCrashes
    BY TypeParts
  <2>1. ProcTyped
    BY DEF Init, ProcTyped, Startup, Client!Init, Client!TypeOK
  <2>2. WorldTyped
    BY DEF Init, WorldTyped
  <2>3. crashes \in 0..MaxCrashes
    BY ConfigAssumption DEF Init
  <2> QED BY <2>1, <2>2, <2>3
<1>2. TypeInv /\ [Next]_vars => TypeInv'
  <2> SUFFICES ASSUME ProcTyped, WorldTyped, crashes \in 0..MaxCrashes, [Next]_vars
               PROVE  ProcTyped' /\ WorldTyped' /\ crashes' \in 0..MaxCrashes
    BY TypeParts DEF TypeInv, TypeOK, ProcTyped, WorldTyped
  <2> USE DEF WorldTyped
  <2>1. CASE LoadIdentity
    <3>1. WorldTyped' /\ crashes' \in 0..MaxCrashes
      BY <2>1 DEF LoadIdentity, worldVars
    <3>2. CASE secret \in Tokens /\ NewClient(secret) /\ UNCHANGED <<held, unchanged>>
      BY <3>1, <3>2, NewClientEffect
    <3>3. CASE Exit
      BY <3>1, <3>3, ExitEffect
    <3>4. CASE pc' = "token" /\ UNCHANGED <<ident, held, unchanged, credsReady,
                                            clientVars, ctxDone>>
      BY <3>1, <3>4, StartupEffect DEF ProcTyped, Startup
    <3> QED BY <2>1, <3>2, <3>3, <3>4 DEF LoadIdentity
  <2>2. CASE ReadRegistrationToken
    BY <2>2, StartupEffect DEF ReadRegistrationToken, ProcTyped, Startup, worldVars
  <2>3. CASE BootstrapLoad
    <3>1. WorldTyped' /\ crashes' \in 0..MaxCrashes
      BY <2>3 DEF BootstrapLoad, worldVars
    <3>2. CASE secret \in Tokens /\ NewClient(secret) /\ UNCHANGED <<held, unchanged>>
      BY <3>1, <3>2, NewClientEffect
    <3>3. CASE Exit
      BY <3>1, <3>3, ExitEffect
    <3>4. CASE /\ held # None /\ pc' = "register"
               /\ UNCHANGED <<ident, held, unchanged, credsReady, clientVars, ctxDone>>
      BY <3>1, <3>4 DEF ProcTyped, Client!TypeOK, clientVars, Startup
    <3> QED BY <2>3, <3>2, <3>3, <3>4 DEF BootstrapLoad
  <2>4. CASE Register
    <3>1. WorldTyped' /\ crashes' \in 0..MaxCrashes
      BY <2>4 DEF Register, ProcTyped
    <3>2. CASE Exit
      BY <3>1, <3>2, ExitEffect
    <3>3. CASE /\ pc' = "saveGet" /\ ident' \in Tokens
               /\ UNCHANGED <<held, unchanged, credsReady, clientVars, ctxDone>>
      BY <3>1, <3>3 DEF ProcTyped, Client!TypeOK, clientVars, Startup
    <3> QED BY <2>4, <3>2, <3>3 DEF Register
  <2>5. CASE SaveGet
    <3>1. WorldTyped' /\ crashes' \in 0..MaxCrashes
      BY <2>5 DEF SaveGet, worldVars
    <3>2. CASE Exit
      BY <3>1, <3>2, ExitEffect
    <3>3. CASE /\ pc' = "saveUpdate" /\ unchanged' = TRUE
               /\ UNCHANGED <<ident, held, credsReady, clientVars, ctxDone>>
      BY <2>5, <3>1, <3>3 DEF SaveGet, ProcTyped, Client!TypeOK, clientVars, Startup
    <3> QED BY <2>5, <3>2, <3>3 DEF SaveGet
  <2>6. CASE SaveUpdate
    <3>1. ident \in Tokens
      BY <2>6 DEF SaveUpdate, ProcTyped
    <3>2. WorldTyped' /\ crashes' \in 0..MaxCrashes
      BY <2>6, <3>1 DEF SaveUpdate
    <3>3. CASE Exit
      BY <3>2, <3>3, ExitEffect
    <3>4. CASE NewClient(ident) /\ UNCHANGED <<held, unchanged>>
      BY <3>1, <3>2, <3>4, NewClientEffect
    <3> QED BY <2>6, <3>3, <3>4 DEF SaveUpdate
  <2>7. CASE ClientReturned
    <3>1. WorldTyped' /\ crashes' \in 0..MaxCrashes
      BY <2>7 DEF ClientReturned, worldVars
    <3>2. CASE Exit
      BY <3>1, <3>2, ExitEffect
    <3>3. CASE pc' = "rotating" /\ UNCHANGED <<ident, held, unchanged, credsReady,
                                               clientVars, ctxDone>>
      BY <2>7, <3>1, <3>3 DEF ClientReturned, ProcTyped, Client!TypeOK, clientVars
    <3> QED BY <2>7, <3>2, <3>3 DEF ClientReturned
  <2>8. CASE RotationPoll
    BY <2>8, NewClientEffect DEF RotationPoll, worldVars
  <2>9. CASE Interrupted
    BY <2>9, ExitEffect DEF Interrupted, worldVars
  <2>10. CASE ClientStep
    BY <2>10, ClientEffect DEF ClientStep, worldVars
  <2>11. CASE Environment
    <3>1. CASE Restart
      BY <3>1, StartupEffect DEF Restart, ProcTyped, Startup, worldVars
    <3>2. CASE Terminate
      BY <3>2, ProcStays DEF Terminate, worldVars
    <3>3. CASE Crash
      BY <3>3, ExitEffect, ConfigAssumption DEF Crash, worldVars
    <3>4. ASSUME NEW s \in Tokens \cup {Partial}, ControllerWrites(s)
          PROVE  ProcTyped' /\ WorldTyped' /\ crashes' \in 0..MaxCrashes
      <4>1. ProcTyped'
        BY <3>4 DEF ControllerWrites, ProcTyped, Client!TypeOK, clientVars
      <4>2. stored' \subseteq Tokens
        BY <3>4 DEF ControllerWrites
      <4> QED BY <3>4, <4>1, <4>2 DEF ControllerWrites
    <3>5. ASSUME NEW r \in RegTokens, OperatorWrites(r)
          PROVE  ProcTyped' /\ WorldTyped' /\ crashes' \in 0..MaxCrashes
      BY <3>5, ProcStays DEF OperatorWrites, ProcTyped, Client!TypeOK
    <3>6. ASSUME NEW t \in Tokens, Grant(t)
          PROVE  ProcTyped' /\ WorldTyped' /\ crashes' \in 0..MaxCrashes
      BY <3>6, ProcStays DEF Grant, ProcTyped, Client!TypeOK
    <3>7. ASSUME NEW t \in Tokens, Deny(t)
          PROVE  ProcTyped' /\ WorldTyped' /\ crashes' \in 0..MaxCrashes
      BY <3>7 DEF Deny, ProcTyped, Client!TypeOK, procVars
    <3> QED BY <2>11, <3>1, <3>2, <3>3, <3>4, <3>5, <3>6, <3>7 DEF Environment
  <2>12. CASE UNCHANGED vars
    BY <2>12, ProcStays DEF vars, worldVars, ProcTyped, Client!TypeOK
  <2> QED BY <2>1, <2>2, <2>3, <2>4, <2>5, <2>6, <2>7, <2>8, <2>9, <2>10, <2>11,
       <2>12 DEF Next, App
<1>3. TypeInv => TypeOK
  BY DEF TypeInv
<1> QED BY <1>1, <1>2, <1>3, PTL DEF Spec

\* The agent speaks to the gateway only as an identity that has been stored: no
\* path of App.Run, whatever fails and whoever writes the Secret meanwhile,
\* starts a client with an identity that Save did not write or Load did not find.
THEOREM IdentityStored == Spec => []UsesStoredIdentity
<1>1. Init => StoredInv
  BY TokensAssumption DEF Init, StoredInv, UsesStoredIdentity
<1>2. TypeInv /\ StoredInv /\ [Next]_vars => StoredInv'
  <2> SUFFICES ASSUME TypeInv, StoredInv, [Next]_vars
               PROVE  StoredInv'
    OBVIOUS
  <2> USE DEF StoredInv, UsesStoredIdentity
  <2>1. CASE LoadIdentity
    BY <2>1 DEF LoadIdentity, NewClient, Exit, worldVars
  <2>2. CASE ReadRegistrationToken
    BY <2>2 DEF ReadRegistrationToken, worldVars
  <2>3. CASE BootstrapLoad
    BY <2>3 DEF BootstrapLoad, NewClient, Exit, worldVars
  <2>4. CASE Register
    BY <2>4 DEF Register, Exit
  <2>5. CASE SaveGet
    BY <2>5 DEF SaveGet, Exit, worldVars
  <2>6. CASE SaveUpdate
    <3>1. CASE secret' = ident /\ stored' = stored \cup {ident} /\ NewClient(ident)
      BY <3>1 DEF NewClient
    <3>2. CASE Exit /\ UNCHANGED <<secret, stored>>
      BY <3>2 DEF Exit
    <3> QED BY <2>6, <3>1, <3>2 DEF SaveUpdate
  <2>7. CASE ClientReturned
    BY <2>7 DEF ClientReturned, Exit, worldVars
  <2>8. CASE RotationPoll
    BY <2>8 DEF RotationPoll, NewClient, worldVars
  <2>9. CASE Interrupted
    BY <2>9 DEF Interrupted, Exit, worldVars
  <2>10. CASE ClientStep
    BY <2>10 DEF ClientStep, procVars, worldVars
  <2>11. CASE Environment
    BY <2>11, TokensAssumption
    DEF Environment, Restart, Terminate, Crash, Exit, ControllerWrites, OperatorWrites,
        Grant, Deny, procVars, worldVars
  <2>12. CASE UNCHANGED vars
    BY <2>12 DEF vars, procVars, worldVars
  <2> QED BY <2>1, <2>2, <2>3, <2>4, <2>5, <2>6, <2>7, <2>8, <2>9, <2>10, <2>11,
       <2>12 DEF Next, App
<1>3. StoredInv => UsesStoredIdentity
  BY DEF StoredInv
<1>4. Spec => []TypeInv
  BY LifecycleTyped, PTL
<1> QED BY <1>1, <1>2, <1>3, <1>4, PTL DEF Spec

LEMMA ReadinessHeld == Spec => []ReadyInv
<1>1. Init => ReadyInv
  BY DEF Init, Client!Init, ReadyInv
<1>2. ReadyInv /\ [Next]_vars => ReadyInv'
  <2> SUFFICES ASSUME ReadyInv, [Next]_vars
               PROVE  ReadyInv'
    OBVIOUS
  <2> USE DEF ReadyInv
  <2>1. CASE LoadIdentity
    BY <2>1 DEF LoadIdentity, NewClient, Exit, NoClient, clientVars
  <2>2. CASE ReadRegistrationToken
    BY <2>2 DEF ReadRegistrationToken, clientVars
  <2>3. CASE BootstrapLoad
    BY <2>3 DEF BootstrapLoad, NewClient, Exit, NoClient, clientVars
  <2>4. CASE Register
    BY <2>4 DEF Register, Exit, NoClient, clientVars
  <2>5. CASE SaveGet
    BY <2>5 DEF SaveGet, Exit, NoClient, clientVars
  <2>6. CASE SaveUpdate
    BY <2>6 DEF SaveUpdate, NewClient, Exit, NoClient
  <2>7. CASE ClientReturned
    BY <2>7 DEF ClientReturned, Exit, NoClient, clientVars
  <2>8. CASE RotationPoll
    BY <2>8 DEF RotationPoll, NewClient
  <2>9. CASE Interrupted
    BY <2>9 DEF Interrupted, Exit, NoClient
  <2>10. CASE ClientStep
    BY <2>10 DEF ClientStep, procVars, Client!Client, Client!Open, Client!Beat,
       Client!Lose, Client!Return
  <2>11. CASE Environment
    BY <2>11 DEF Environment, Restart, Terminate, Crash, Exit, NoClient, ControllerWrites,
       OperatorWrites, Grant, Deny, procVars, clientVars
  <2>12. CASE UNCHANGED vars
    BY <2>12 DEF vars, procVars, clientVars
  <2> QED BY <2>1, <2>2, <2>3, <2>4, <2>5, <2>6, <2>7, <2>8, <2>9, <2>10, <2>11,
       <2>12 DEF Next, App
<1> QED BY <1>1, <1>2, PTL DEF Spec

\* /readyz never answers ready for an agent whose client is not in a session,
\* across any number of clients, rotations and restarts of the process.
THEOREM ReadinessConnected == Spec => []ReadyMeansConnected
<1>1. ReadyInv => ReadyMeansConnected
  BY DEF ReadyInv, ReadyMeansConnected
<1> QED BY <1>1, ReadinessHeld, PTL

\* While an agent registers, what the Secret holds was put there after Bootstrap
\* had found it empty.
LateInv == pc \in Registering /\ secret # None => late

LEMMA LateTruly == Spec => []LateInv
<1>1. Init => LateInv
  BY DEF Init, LateInv
<1>2. LateInv /\ [Next]_vars => LateInv'
  <2> SUFFICES ASSUME LateInv, [Next]_vars
               PROVE  LateInv'
    OBVIOUS
  <2> USE DEF LateInv, Registering
  <2>1. CASE LoadIdentity
    BY <2>1 DEF LoadIdentity, NewClient, Exit
  <2>2. CASE ReadRegistrationToken
    BY <2>2 DEF ReadRegistrationToken
  <2>3. CASE BootstrapLoad
    BY <2>3 DEF BootstrapLoad, NewClient, Exit, worldVars
  <2>4. CASE Register
    BY <2>4 DEF Register, Exit
  <2>5. CASE SaveGet
    BY <2>5 DEF SaveGet, Exit, worldVars
  <2>6. CASE SaveUpdate
    BY <2>6 DEF SaveUpdate, NewClient, Exit
  <2>7. CASE ClientReturned \/ RotationPoll \/ Interrupted
    BY <2>7 DEF ClientReturned, RotationPoll, Interrupted, NewClient, Exit
  <2>8. CASE ClientStep
    BY <2>8 DEF ClientStep, procVars, worldVars
  <2>9. CASE Restart \/ Terminate \/ Crash
    BY <2>9 DEF Restart, Terminate, Crash, Exit, procVars, worldVars
  <2>10. CASE \E s \in Tokens \cup {Partial} : ControllerWrites(s)
    BY <2>10 DEF ControllerWrites
  <2>11. CASE \/ \E r \in RegTokens : OperatorWrites(r)
              \/ \E t \in Tokens : Grant(t) \/ Deny(t)
    BY <2>11 DEF OperatorWrites, Grant, Deny, procVars
  <2>12. CASE UNCHANGED vars
    BY <2>12 DEF vars, procVars, worldVars
  <2> QED BY <2>1, <2>2, <2>3, <2>4, <2>5, <2>6, <2>7, <2>8, <2>9, <2>10, <2>11,
       <2>12 DEF Next, App, Environment
<1> QED BY <1>1, <1>2, PTL DEF Spec

\* A registration never replaces an identity that was there when it began.
THEOREM EarlierIdentityKept == Spec => KeepsEarlierIdentity
<1>1. LateInv => [pc = "saveUpdate" /\ pc' = "client" => secret = None \/ late]_vars
  BY DEF LateInv, Registering
<1> QED BY <1>1, LateTruly, PTL DEF KeepsEarlierIdentity

\* No registration token is spent on an agent that has an identity.
THEOREM TokensNotWasted == Spec => TokenNotWasted
<1>1. LateInv /\ [Next]_vars => [used' # used => secret = None \/ late]_vars
  <2> SUFFICES ASSUME LateInv, Next, used' # used
               PROVE  secret = None \/ late
    BY DEF vars
  <2>1. Register
    BY DEF Next, App, Environment, LoadIdentity, ReadRegistrationToken, BootstrapLoad,
       SaveGet, SaveUpdate, ClientReturned, RotationPoll, Interrupted, ClientStep,
       Restart, Terminate, Crash, ControllerWrites, OperatorWrites, Grant, Deny,
       worldVars, procVars
  <2> QED BY <2>1 DEF Register, LateInv, Registering
<1> QED BY <1>1, LateTruly, PTL DEF Spec, TokenNotWasted

----------------------------------------------------------------------------
(* One client after the other *)

\* What is proved of GatewayClient under its contract may be used of each client
\* the agent makes: it starts with the flag of the health state down.
THEOREM ClientsAreContracts == Spec => ClientsKeepContract
<1>1. ASSUME ReadyInv, [Next]_vars, pc' = "client", pc # "client"
      PROVE  mode' = "apart" /\ outcome' = "none" /\ ~ready'
  <2>1. CASE LoadIdentity \/ BootstrapLoad \/ SaveUpdate \/ RotationPoll
    BY <1>1, <2>1 DEF LoadIdentity, BootstrapLoad, SaveUpdate, RotationPoll, NewClient,
       Exit, ReadyInv
  <2>2. CASE ReadRegistrationToken \/ Register \/ SaveGet \/ ClientReturned \/ Interrupted
    BY <1>1, <2>2 DEF ReadRegistrationToken, Register, SaveGet, ClientReturned,
       Interrupted, Exit
  <2>3. CASE ClientStep \/ Environment \/ UNCHANGED vars
    BY <1>1, <2>3 DEF ClientStep, Environment, Restart, Terminate, Crash, Exit,
       ControllerWrites, OperatorWrites, Grant, Deny, vars, procVars
  <2> QED BY <1>1, <2>1, <2>2, <2>3 DEF Next, App
<1>2. ASSUME TypeOK, [Next]_vars, pc' = "client", pc = "client"
      PROVE  [Client!Next]_(Client!vars)
  <2>1. CASE App
    BY <1>2, <2>1 DEF App, LoadIdentity, ReadRegistrationToken, BootstrapLoad, Register,
       SaveGet, SaveUpdate, ClientReturned, RotationPoll, Interrupted, Exit, Startup
  <2>2. CASE ClientStep
    BY <2>2 DEF ClientStep, Client!Next
  <2>3. CASE Restart \/ Crash
    BY <1>2, <2>3 DEF Restart, Crash, Exit
  <2>4. CASE Terminate
    BY <2>4 DEF Terminate, clientVars, Client!Next, Client!Cancel
  <2>5. CASE \/ \E s \in Tokens \cup {Partial} : ControllerWrites(s)
             \/ \E r \in RegTokens : OperatorWrites(r)
             \/ \E t \in Tokens : Grant(t)
    BY <2>5 DEF ControllerWrites, OperatorWrites, Grant, clientVars, Client!vars
  <2>6. ASSUME NEW t \in Tokens, Deny(t)
        PROVE  [Client!Next]_(Client!vars)
    <3>1. UNCHANGED <<mode, outcome, ready, ctxDone>>
          /\ denied' = (denied \/ (pc = "client" /\ ident = t))
      BY <2>6 DEF Deny
    <3>2. denied \in BOOLEAN
      BY <1>2 DEF TypeOK, Client!TypeOK
    <3>3. CASE denied \/ ident # t
      <4>1. denied' = denied
        BY <1>2, <3>1, <3>2, <3>3
      <4> QED BY <3>1, <4>1 DEF Client!vars
    <3>4. CASE ~denied /\ ident = t
      <4>1. denied' = TRUE
        BY <1>2, <3>1, <3>4
      <4> QED BY <3>1, <3>4, <4>1 DEF Client!Next, Client!Deny
    <3> QED BY <3>3, <3>4
  <2>7. CASE UNCHANGED vars
    BY <2>7 DEF vars, clientVars, Client!vars
  <2> QED BY <1>2, <2>1, <2>2, <2>3, <2>4, <2>5, <2>6, <2>7 DEF Next, Environment
<1>3. Spec => []ReadyInv
  BY ReadinessHeld, PTL
<1>4. Spec => []TypeOK
  BY LifecycleTyped, PTL
<1>5. ReadyInv /\ TypeOK /\ [Next]_vars =>
        [pc' = "client" =>
           IF pc = "client" THEN [Client!Next]_(Client!vars)
           ELSE mode' = "apart" /\ outcome' = "none" /\ ~ready']_vars
  BY <1>1, <1>2
<1> QED BY <1>3, <1>4, <1>5, PTL DEF Spec, ClientsKeepContract

============================================================================
