--------------------------- MODULE AgentLifecycle ---------------------------
(***************************************************************************)
(* internal/app and internal/auth: where the agent's identity comes from,  *)
(* which one it uses, and what happens to it across registration, rotation,*)
(* revocation, crashes and restarts.                                       *)
(*                                                                         *)
(* The gateway client is its contract (ClientContract, which GatewayClient *)
(* implements).  The credentials Secret is shared with an external         *)
(* controller that may write it at any time; the gateway decides which     *)
(* tokens it accepts, the platform which registration tokens.              *)
(***************************************************************************)
EXTENDS Naturals, FiniteSets

CONSTANTS
    Tokens,         \* complete identities: an agent_id with its agent_token
    RegTokens,      \* one-time registration tokens
    None,           \* no identity, an empty Secret, no registration token
    Partial,        \* a Secret with only one of the two keys
    WriteModes,     \* values of cfg.CredentialsWriteEnabled, read at each start
    MaxCrashes      \* bound on the crashes explored

ASSUME TokensAssumption ==
    {None, Partial} \cap (Tokens \cup RegTokens) = {} /\ None # Partial
ASSUME ConfigAssumption == WriteModes \subseteq BOOLEAN /\ MaxCrashes \in Nat

VARIABLES
    pc,             \* where App.Run is
    ident,          \* the identity it holds
    held,           \* the registration token it holds
    unchanged,      \* the Secret is still as Save read it
    credsReady,     \* HealthState.credentialsReady
    secret,         \* the credentials Secret
    late,           \* the controller wrote it during a registration (history)
    regSecret,      \* the registration token Secret, or the environment's value
    used,           \* registration tokens the platform has exchanged
    granted,        \* tokens the gateway accepts at the moment
    stored,         \* identities that have ever been in the Secret (history)
    crashes,
    mode, outcome, ready, ctxDone, denied       \* the client's contract

procVars   == <<pc, ident, held, unchanged, credsReady>>
worldVars  == <<secret, late, regSecret, used, granted, stored>>
clientVars == <<mode, outcome, ready, denied>>
vars == <<procVars, worldVars, crashes, clientVars, ctxDone>>

Client == INSTANCE ClientContract

Startup == {"starting", "token", "bootstrap", "register", "saveGet", "saveUpdate"}

\* Bootstrap after its own Load.
Registering == {"register", "saveGet", "saveUpdate"}

TypeOK ==
    /\ pc \in Startup \cup {"client", "rotating", "exited"}
    /\ ident \in Tokens \cup {None} /\ held \in RegTokens \cup {None}
    /\ unchanged \in BOOLEAN /\ credsReady \in BOOLEAN
    /\ secret \in Tokens \cup {None, Partial} /\ late \in BOOLEAN
    /\ regSecret \in RegTokens \cup {None} /\ used \subseteq RegTokens
    /\ granted \subseteq Tokens /\ stored \subseteq Tokens
    /\ crashes \in 0..MaxCrashes
    /\ Client!TypeOK

NoClient == mode' = "apart" /\ outcome' = "none" /\ ready' = FALSE /\ denied' = FALSE

\* The Secret is created empty; the operator has put a token next to it, or not.
Init ==
    /\ pc = "starting" /\ ident = None /\ held = None
    /\ unchanged = FALSE /\ credsReady = FALSE
    /\ secret = None /\ late = FALSE
    /\ regSecret \in RegTokens \cup {None} /\ used = {}
    /\ granted = {} /\ stored = {} /\ crashes = 0
    /\ Client!Init

----------------------------------------------------------------------------
(* The process *)

\* Run returns, the process exits, and nothing it held in memory is left.
Exit ==
    /\ pc' = "exited" /\ ident' = None /\ held' = None
    /\ unchanged' = FALSE /\ credsReady' = FALSE /\ ctxDone' = FALSE
    /\ NoClient

\* A new client for identity i, in the loop of Run.  The health state, and with
\* it ready, belongs to the process.
NewClient(i) ==
    /\ pc' = "client" /\ ident' = i /\ credsReady' = TRUE
    /\ mode' = "apart" /\ outcome' = "none" /\ denied' = (i \notin granted)
    /\ UNCHANGED <<ready, ctxDone>>

\* Slip: Load refuses an empty Secret only, not one that holds half an identity.
LoadIdentity_half ==
    /\ pc = "starting"
    /\ \/ secret # None /\ NewClient(secret) /\ UNCHANGED <<held, unchanged>>
       \/ secret = None /\ Exit
    /\ UNCHANGED <<worldVars, crashes>>

\* store.Load at startup.  A Secret that holds one key only is an error.
LoadIdentity ==
    /\ pc = "starting"
    /\ \/ secret \in Tokens /\ NewClient(secret) /\ UNCHANGED <<held, unchanged>>
       \/ /\ secret = None /\ TRUE \in WriteModes
          /\ pc' = "token"
          /\ UNCHANGED <<ident, held, unchanged, credsReady, clientVars, ctxDone>>
       \/ secret = Partial /\ Exit
       \/ secret = None /\ FALSE \in WriteModes /\ Exit
    /\ UNCHANGED <<worldVars, crashes>>

\* tokenSource.Load; a missing Secret gives the empty token.
ReadRegistrationToken ==
    /\ pc = "token"
    /\ pc' = "bootstrap" /\ held' = regSecret
    /\ UNCHANGED <<ident, unchanged, credsReady, worldVars, crashes, clientVars, ctxDone>>

\* Slip: Bootstrap goes by what App.identity has read.
BootstrapLoad_trusting ==
    /\ pc = "bootstrap"
    /\ \/ /\ held # None /\ pc' = "register"
          /\ UNCHANGED <<ident, held, unchanged, credsReady, clientVars, ctxDone>>
       \/ held = None /\ Exit
    /\ UNCHANGED <<worldVars, crashes>>

\* Bootstrap loads the Secret again before it uses the registration token.
BootstrapLoad ==
    /\ pc = "bootstrap"
    /\ \/ secret \in Tokens /\ NewClient(secret) /\ UNCHANGED <<held, unchanged>>
       \/ /\ secret = None /\ held # None
          /\ pc' = "register"
          /\ UNCHANGED <<ident, held, unchanged, credsReady, clientVars, ctxDone>>
       \/ secret = Partial /\ Exit
       \/ secret = None /\ held = None /\ Exit
    /\ UNCHANGED <<worldVars, crashes>>

\* The platform exchanges the one-time token for a new identity.  The answer
\* may be lost or incomplete, and a used token is refused: each ends the process.
Register ==
    /\ pc = "register"
    /\ \/ /\ held \notin used
          /\ used' = used \cup {held}
          /\ \E t \in Tokens \ (granted \cup stored) :
               /\ granted' = granted \cup {t}
               /\ \/ /\ pc' = "saveGet" /\ ident' = t
                     /\ UNCHANGED <<held, unchanged, credsReady, clientVars, ctxDone>>
                  \/ Exit
       \/ Exit /\ UNCHANGED <<used, granted>>
    /\ UNCHANGED <<secret, late, regSecret, stored, crashes>>

\* Save reads the Secret for its resourceVersion ...
SaveGet ==
    /\ pc = "saveGet"
    /\ \/ /\ pc' = "saveUpdate" /\ unchanged' = TRUE
          /\ UNCHANGED <<ident, held, credsReady, clientVars, ctxDone>>
       \/ Exit
    /\ UNCHANGED <<worldVars, crashes>>

\* Slip: an update that fails is logged, and the identity used all the same.
SaveUpdate_unchecked ==
    /\ pc = "saveUpdate"
    /\ NewClient(ident)
    /\ \/ /\ unchanged
          /\ secret' = ident /\ stored' = stored \cup {ident}
       \/ UNCHANGED <<secret, stored>>
    /\ UNCHANGED <<held, unchanged, late, regSecret, used, granted, crashes>>

\* ... and updates it, unless someone else did in between or the API refuses.
SaveUpdate ==
    /\ pc = "saveUpdate"
    /\ \/ /\ unchanged
          /\ secret' = ident /\ stored' = stored \cup {ident}
          /\ NewClient(ident) /\ UNCHANGED <<held, unchanged>>
       \/ Exit /\ UNCHANGED <<secret, stored>>
    /\ UNCHANGED <<late, regSecret, used, granted, crashes>>

\* What the client does while Run waits for it; the gateway accepts a
\* handshake only with a token it grants.
ClientStep ==
    /\ pc = "client"
    /\ Client!Client
    /\ (mode = "apart" /\ mode' = "session") => ident \in granted
    /\ UNCHANGED <<procVars, worldVars, crashes, denied, ctxDone>>

\* client.Run has returned: wait for other credentials, or return.
ClientReturned ==
    /\ pc = "client" /\ mode = "returned"
    /\ \/ /\ outcome = "revoked" /\ pc' = "rotating"
          /\ UNCHANGED <<ident, held, unchanged, credsReady, clientVars, ctxDone>>
       \/ outcome # "revoked" /\ Exit
    /\ UNCHANGED <<worldVars, crashes>>

\* Slip: "identity, err :=" in the loop of Run shadows the identity.
RotationPoll_shadowed ==
    /\ pc = "rotating"
    /\ secret \in Tokens /\ secret # ident
    /\ NewClient(ident)
    /\ UNCHANGED <<held, unchanged, worldVars, crashes>>

\* waitForUpdatedCredentials: a poll that finds a complete identity with
\* another token; a poll that does not changes nothing.
RotationPoll ==
    /\ pc = "rotating"
    /\ secret \in Tokens /\ secret # ident
    /\ NewClient(secret)
    /\ UNCHANGED <<held, unchanged, worldVars, crashes>>

\* Everything but the client returns an error once the context is cancelled.
Interrupted ==
    /\ ctxDone /\ pc \in Startup \cup {"rotating"}
    /\ Exit
    /\ UNCHANGED <<worldVars, crashes>>

\* The kubelet starts the container again.
Restart ==
    /\ pc = "exited" /\ pc' = "starting"
    /\ UNCHANGED <<ident, held, unchanged, credsReady, worldVars, crashes,
                   clientVars, ctxDone>>

----------------------------------------------------------------------------
(* The environment *)

\* SIGTERM
Terminate ==
    /\ pc # "exited" /\ ~ctxDone /\ ctxDone' = TRUE
    /\ UNCHANGED <<procVars, worldVars, crashes, clientVars>>

\* The process dies, or a call to the Kubernetes API fails while it starts.
Crash ==
    /\ pc # "exited" /\ crashes < MaxCrashes /\ crashes' = crashes + 1
    /\ Exit
    /\ UNCHANGED worldVars

\* The external controller writes the Secret.
ControllerWrites(s) ==
    /\ secret' = s /\ stored' = IF s \in Tokens THEN stored \cup {s} ELSE stored
    /\ unchanged' = FALSE /\ late' = (pc \in Registering)
    /\ UNCHANGED <<pc, ident, held, credsReady, regSecret, used, granted, crashes,
                   clientVars, ctxDone>>

\* The operator replaces the registration token.
OperatorWrites(r) ==
    /\ regSecret' = r
    /\ UNCHANGED <<procVars, secret, late, used, granted, stored, crashes, clientVars,
                   ctxDone>>

\* The gateway starts to accept a token ...
Grant(t) ==
    /\ granted' = granted \cup {t}
    /\ UNCHANGED <<procVars, secret, late, regSecret, used, stored, crashes, clientVars,
                   ctxDone>>

\* ... or stops: it is revoked, or refused for a while.
Deny(t) ==
    /\ t \in granted /\ granted' = granted \ {t}
    /\ denied' = (denied \/ (pc = "client" /\ ident = t))
    /\ UNCHANGED <<procVars, secret, late, regSecret, used, stored, crashes, mode,
                   outcome, ready, ctxDone>>

----------------------------------------------------------------------------

App == \/ LoadIdentity \/ ReadRegistrationToken \/ BootstrapLoad \/ Register
       \/ SaveGet \/ SaveUpdate \/ ClientReturned \/ RotationPoll \/ Interrupted

Environment ==
    \/ Restart \/ Terminate \/ Crash
    \/ \E s \in Tokens \cup {Partial} : ControllerWrites(s)
    \/ \E r \in RegTokens : OperatorWrites(r)
    \/ \E t \in Tokens : Grant(t) \/ Deny(t)

Next == App \/ ClientStep \/ Environment

Spec == Init /\ [][Next]_vars

\* Run is one goroutine and keeps going; the kubelet restarts what exits; the
\* gateway refuses or ends the session of a token it does not grant.
Fairness ==
    /\ WF_vars(App) /\ WF_vars(Restart)
    /\ WF_vars(ClientStep /\ ident \notin granted /\ mode' = "returned")

FairSpec == Spec /\ Fairness

----------------------------------------------------------------------------
(* Properties *)

\* The agent talks to the gateway only as an identity that has been stored: an
\* identity that exists in memory alone would be lost at the next restart, and
\* the one-time token with it (bootstrap.go:32-35, app.go:62-97).
UsesStoredIdentity == pc \in {"client", "rotating"} => ident \in stored

\* "Bootstrap returns existing persistent credentials whenever possible"
\* (bootstrap.go:12-20): an identity Save overwrites can only be one that the
\* controller stored after Bootstrap had found the Secret empty.  Such a one is
\* overwritten when it was written before Save's Get (credentials.go:67-93).
KeepsEarlierIdentity ==
    [][pc = "saveUpdate" /\ pc' = "client" => secret = None \/ late]_vars

\* A registration token, which can be exchanged once, is spent only by an agent that
\* found no identity in the Secret: whatever was put there before Bootstrap looked is
\* used instead, also across crashes and restarts (bootstrap.go:15-32).
TokenNotWasted == [][used' # used => secret = None \/ late]_vars

\* Each client that Run makes, one after the other in one process, begins where the
\* contract of a client begins, although the health state it reports to is the old
\* one, and keeps the contract from then on, whatever happens to its token, to the
\* Secret and to the process (app.go:66-98).
ClientsKeepContract ==
    [][pc' = "client" =>
         IF pc = "client" THEN [Client!Next]_(Client!vars)
         ELSE mode' = "apart" /\ outcome' = "none" /\ ~ready']_vars

\* /readyz says ready only while a client with credentials is in a session,
\* across revocation, rotation, crash and restart (prometheus.go:12-23).
ReadyMeansConnected == credsReady /\ ready => pc = "client" /\ mode = "session"

\* Rotation takes effect: when the Secret settles on an identity, the only one
\* the gateway accepts and one it accepted whenever the agent held it, then an
\* agent that is not being terminated comes back to it (app.go:86-97, 135-148).
\* Without the second condition it does not: an agent refused with a token that
\* the gateway accepts only later waits for another token for ever.
RotationTakesEffect ==
    \A t \in Tokens :
        ([](ident = t => t \in granted) /\ <>[](secret = t /\ granted = {t} /\ ~ctxDone))
            => []<>(pc = "client" /\ ident = t)

\* "On first start the agent exchanges the one-time registration token for a
\* permanent agent ID and agent token.  It stores these ... in the ... Secret"
\* (README.md:68): an agent that has received its identity does not exit and
\* leave the Secret empty, with the registration token used up.
ExchangedIsStored ==
    [][(pc \in {"saveGet", "saveUpdate"} /\ pc' = "exited") => secret' # None]_vars

============================================================================
