# A verification project for the IncidentFlow Kubernetes agent

TLA+ specifications of the agent in this repository, TLC configurations that
check them on small instances, and TLAPS proofs for every instance. Paths such
as `client.go:158` are relative to `src/internal/gateway` unless they name
another directory.

## 1. The system

The agent is one Go process in a Kubernetes cluster. It holds an outbound
websocket to the IncidentFlow gateway, receives read-only commands over it,
answers them from the Kubernetes API, and keeps its own identity in a Secret.

| Component | State it keeps | Operations | Interacts with |
|---|---|---|---|
| Process (`cmd/agent/main.go`) | signal context | start, SIGTERM, exit | app |
| App lifecycle (`app/app.go`) | identity, health state, the client | `Run`, `identity`, `waitForUpdatedCredentials` | credential store, registrar, gateway client |
| Credentials and registration (`auth/`) | the credentials Secret (shared with an external controller), the one-time registration token | `Load`, `Save` (Get + Update), `Bootstrap`, `Register` | Kubernetes API, platform API |
| Gateway client (`gateway/client.go`, `websocket.go`, `heartbeat.go`, `reconnect.go`) | session, `writeMu`, `errCh`, `commandSem`, replay memory `seenCommands`, read deadline, backoff | `Run`, `serveConnection`, `heartbeat`, `readLoop`, `claimCommand`, `handleCommand`, `writeResponse` | gateway, router (callback `Handler`), health state (callbacks `OnHeartbeat`, `OnConnectionState`) |
| Access policy (`client.go:256`, `pkg/api/v1`) | none; the policy comes with the command | `policyAllowsCommand` | reader |
| Command router (`commands/`) | none per command beyond its calls | `ValidateCommand`, `dispatch`, `parallelMapTraced`, `classifyError` | guard, kube service |
| Namespace guard and limits (`security/`) | allowlist, denylist, log limits | `Check`, `AllowedNamespaces`, `TailLines` | router |
| Kube service (`kube/`) | namespace cache (TTL, singleflight) | lists, logs, describe, rollout status | Kubernetes API |
| Health and metrics (`telemetry/`) | `credentialsReady`, `gatewayConnected` | `/readyz`, `/healthz` | app, gateway client |
| Config, tracing, logging, version | constants, output | | all |

What is hard in this code, and what makes each part correct:

* **Gateway client.** Four kinds of goroutines share a mutex, an error channel,
  a semaphore and a socket, and a session must be torn down completely before
  the next one starts, whoever fails first and whatever is blocked. Correct: no
  goroutine outlives its session; one data writer at a time; no error lost that
  is needed; shutdown completes; a command starts at most once while it is
  remembered; `Run` returns for the reason it names.
* **Its durations.** The replay memory, the command timeout, the semaphore, the
  heartbeat and the read deadline count on each other, and the reader is where
  they meet: it alone takes pongs and commands, in order, and takes nothing while
  it waits for a slot. Correct: a redelivered command never runs beside its first
  execution; silence is found out, and only silence; delays follow failures.
* **Router and policy.** Four parties (policy, decoder, guard, fan-out) each
  decide a part of what may be read, and decode the same bytes twice. Calls run
  in parallel, fail, and cancel each other. Correct: reads stay in the boundary;
  a success is complete; an error is the real cause; every command is answered.
* **Lifecycle.** A one-time token, a Secret written by two parties, revocation,
  rotation, crashes and restarts. Correct: the agent uses only identities that
  are stored; readiness is honest; rotation takes effect.
* **Namespace cache.** Callers share one fetch that runs under the context of
  the first, and do not watch their own while they wait; the cache is checked
  before and filled after. Correct: answers do not go back in time, their age is
  bounded, nobody waits beyond its deadline.
* **Reads of the cluster.** Objects change between calls, counts in a status may
  be of an older generation than the specification next to them, calls fail one
  by one, lists and logs are cut. Correct: "complete" is true of what is there
  now; a description leaves out only what matters less; what is missing because
  a call failed is not said to be absent.

PROJECT.json lists every component, with the ones left out and why, and every
hazard with its line.

## 2. The modules

```
GatewayClient  ──(GatewayRefinement)───> ClientContract <──INSTANCE── AgentLifecycle
SessionClock   ──(SessionRefinement)───> CommandLife    (the durations GatewayClient leaves out)
CommandRouter
NamespaceCache ──(NamespaceRefinement)─> NamespaceLists
      │
NamespaceCache, Rollout, PodReads ──EXTENDS──> KubeService

proofs:  GatewayClientProofs, SessionClockProofs, CommandRouterProofs, AgentLifecycleProofs,
         NamespaceCacheProofs, RolloutProofs, PodReadsProofs, and KubeServiceProofs over
         the last three
for TLC: MCGatewayClient, MCSessionClock, MCCommandRouter, MCAgentLifecycle, MCKubeService
         (symmetry sets and definitions)
```

### GatewayClient

One client over any number of sessions. Each goroutine has a program counter: `pc`
is `Run` with `serveConnection` inside it, `hb` the heartbeat, `rd` the reader,
`phase[s]` the handler that holds slot `s` of `commandSem`. `writeMu` records its
owner, `errCh` is a sequence of at most two errors, `sock` is the connection,
`unread` counts the frames received that `ReadMessage` has not returned, `goodbye`
is the close frame 1008 behind them, `access` the gateway's view of the token,
`seen` the replay memory. `starts` is a history variable: handlers started under the
current entry of an id.

| Code | Actions |
|---|---|
| `Run` | `LoopTop`, `Connect`, `DialRefused`, `DialFailed`, `Sleep`, `SessionOver` |
| `serveConnection` | `Connect` (starts the loops), `ServeUntilDone`, `CloseSocket`, `JoinLoops`, `SessionOver` |
| `heartbeat` | `HeartbeatTick`, `HeartbeatLocks`, `HeartbeatPings`, `HeartbeatWrites`, `HeartbeatCallback`, `HeartbeatReports`, `HeartbeatStops` |
| `readLoop` | `ReadFrame` (`ReadInvalid`, `ReadDenied`, `ReadDuplicate`, `ReadClaimed`), `RefusalLocks`, `RefusalWritten`, `StartHandler`, `AbandonCommand`, `ReadGoodbye`, `ReadFails`, `ReadTimesOut`, `ReaderReports` |
| `handleCommand` | `HandlerReturns`, `HandlerLocks`, `HandlerExits` |
| process, gateway, network, clock | `Shutdown`, `Revoke`, `Receive`, `SayGoodbye`, `Drop`, `StallOrResume`, `Expire` |

Abstractions. Durations are left out: a timer that may fire is an enabled action,
`Expire` is a replay entry passing its TTL. The slots of `commandSem` are a set of
names. `draining` says whether the peer reads; it is independent of `sock`. The
`select` in `serveConnection` and `connCancel()` are one step, as are the close
frame and `Close`, and reading, decoding, policy check and claim of one command
(nothing else touches what they read, and the reader is alone). What a frame holds
is chosen when it is read. Frames outlive the connection: `ReadMessage` returns what
is in its buffer also after `Close` (`client.go:184, 218`), so the reader of a
closing session still refuses, claims and starts commands; how many of the frames
are in that buffer, and how many the kernel drops with the connection, is left open
(`KeepBuffered`). Metrics and logs are left out. After a write failed the websocket
library fails every further write; the model lets it succeed or fail again, which
has more behaviours.

### SessionClock

The same client with a clock and without its goroutines. Times are ages and
remaining times, in ticks: `age[id]` since the claim, `left[s]` of the timeout of
the handler in slot `s`, `deadline` of the read deadline, `beat` to the next
ping, `wait` of the sleep between two dials. `stream` is what the gateway has
sent and the reader has not taken, pongs among commands, of which `buffered`
messages are in the reader's buffer: those are returned whatever the deadline.
`since`, `failures`, `prompt`, `quiet` and `stalled` are history variables.

| Code | Actions |
|---|---|
| `Run`, `Backoff`, `sleepContext` | `Connect`, `DialFails`, `Wake`, `SessionLost` (in `Drop` and `ReadTimesOut`), `Revoked`; `NextDelay`, `BackOff` |
| `App.Run` after a rotation | `NewClient` (an empty replay memory) |
| `heartbeat`, `configureHeartbeat` | `Heartbeat`, `ReadPong` |
| `readLoop`, `claimCommand` | `Receive`, `Claim`, `RefuseDuplicate`, `Start`, `ReadTimesOut` |
| `handleCommand` | `Finish` |
| gateway, network, clock | `Send`, `Drop`, `Tick` |

`Tick` waits for what is due (`Due`): local work takes no time, a handler returns
by its timeout, and writes do not block. Where they do block is the subject of
`GatewayClient`. A refused dial and a dial that fails differ only in what `Run`
does next.

### CommandLife and SessionRefinement

`CommandLife` is what a client promises about each command id, without sessions,
timers or slots: unknown, held by the reader, worked on by one handler, done and
remembered, and then unknown again, which it becomes from "done" only. A session
that ends turns what is under way into "done". `SessionRefinement` reads this off
`SessionClock` (`Life`: the reader's command, what `running` holds, what is not
older than the TTL) and states `KeepsCommandLife`. `GatewayClient` does not keep this
promise: without durations an entry may lapse while its command waits or runs.

### ClientContract and GatewayRefinement

`ClientContract` is what a client promises the application: sessions open and
are lost, readiness rises only in a session (`Beat`), and `Run` returns once
with a reason that holds: "canceled" if the context is done, "revoked" if the
gateway refused the token. `GatewayRefinement` maps `GatewayClient` onto it
(`Mode`, `Outcome`; `denied` is `access = "revoked"`) and states
`ImplementsContract`.

### CommandRouter

One command from the moment it is read to its answer. The configuration and the
command are chosen in `Init` and never change. Params are one of four forms
(`absent`, `garbled`: no string namespace to decode, `mistyped`: the namespace
decodes but another field does not, `proper`), a policy is its mode, its
namespaces and its logs switch. `hasId` stands for a complete envelope.
`DeniedByPolicy`, `RejectedCommand`, `RejectedParams` and `DeniedNamespace` are
the refusals in the order of the code; `Dispatch` starts the calls; `CallSucceeds`
and `CallFails` are their returns, the latter with what errgroup does to the
siblings; `CommandTimeout` and `ConnectionLost` end the context; `Reply` builds
the answer. Handlers of different commands share no state in this code, so one
command is enough. The data of an answer is the set of namespaces it was read from.

### AgentLifecycle

`App.Run` from start to exit, over any number of restarts. `pc` is where `Run`
is, `ident` the identity it holds, `secret` the Secret, `regSecret` the
registration token, `used` the tokens the platform has exchanged, `granted` the
identities the gateway accepts, `stored` (history) the identities that have been in the
Secret. The client is `INSTANCE ClientContract`; `ClientStep` lets it take any
step of the contract, and a session opens only with a granted token. `Save` is
two steps, `SaveGet` and `SaveUpdate`; `late` (history) is whether the controller
wrote the Secret during a registration; `unchanged` is the resourceVersion check
of the update. `Crash` and `Exit` clear what the process held in memory. A
startup call that fails ends the process, which is an exit with a restart.

### NamespaceCache

`ListNamespaces` of any number of commands, the singleflight call they share and
the cache. This module has a clock, because its properties are about age and
deadlines. A list is the time at which the API server took it (reads without a
resourceVersion are consistent, so that is a time within the call). The actions
are the steps of a caller (`ListNamespaces` looks at the cache, `Do`, `Return`,
`ContextEnds`) and of the call (`ListAnswered`, `ListFailed`, `FillCache`,
`Land`). `Tick` waits for the agent's own steps, for due deadlines and for a
cancelled fetch: local work takes no time compared to seconds. `floor` and
`newest` are history variables. The fetched list is never empty, as a cluster
has its system namespaces; an empty one would not be cached.

`NamespaceLists` is the promise to the commands without cache or shared fetch: a
command that asks is answered by its deadline, at once or together with others,
with an error or with a list younger than `MaxAge` and not older than one that a
command had been answered with when it asked. `NamespaceRefinement` maps the cache onto it
(`Status` from `pc`; `MaxAge` is the lifetime and one timeout) and states
`KeepsListPromise`.

### Rollout

`GetRolloutStatus` is one read and a decision, `Complete`, over the object as it
is. The decision is the code's; the actions are the cluster's: the user changes
the template or the scale, the controller creates and deletes pods as far as the
strategy allows and counts them into the status when it gets to it, pods become
ready and available and stop being so. `pods` counts them by revision and stage.
`total`, `done` and `template` in the status are not read by the agent.

### PodReads

`DescribePod` as the calls it makes (`GetPod`, `ListSelected`, or after
`SelectorFails` `ListAll` or `ListAllFails`) while events are recorded, recur and
expire between them. `Sorted` has every order the unstable sort may leave,
`FirstOf` is the cut. An event is what it is about, whether it is a warning, and
when it was seen; `series` marks one without a LastTimestamp. `GetPodLogs` is
`TailLines` of the router's limits and the byte limit with its int64 sum; of the
log only its size is modelled. `steady` and `refused` are history variables.

### KubeService

The three modules above as the service the router calls. Calls share nothing but
the namespace cache, so a behaviour follows the commands about one kind of
object; the module extends the three, and its run checks what each of them states.

## 3. The checks

| Run | Shows |
|---|---|
| `gateway_safety` | `TypeOK`, `SessionIsolated`, `OneWriter`, `AtMostOnce`, `LostLoopIsReported`; `TeardownNeverStuck` and `TeardownAdvances`: a closing session winds down; `ImplementsContract`: the client implements its contract |
| `gateway_liveness` | `ShutdownCompletes`, `BrokenSessionEnds`, `HandlersFinish`, `StuckOnlyBehindAWrite` |
| `gateway_duplicate` | violated: `DuplicateMeansStarted` (finding 1) |
| `gateway_revocation` | violated: `RevocationNotLost` (finding 2) |
| `session_clock` | `TypeOK`, `NoOverlap`, `StartsSpaced`, `ReaderStallBounded`, `DroppedForStalls`, `SilentGatewayLeft`, `DelayFollowsFailures`; `KeepsCommandLife`: the client implements `CommandLife` |
| `session_deadline` | violated: `PromptGatewayKept` (finding 5) |
| `router` | `TypeOK`, `ReadsWithinBoundary`, `SuccessIsComplete`, `ErrorIsCause`, and `CommandAnswered` under fairness |
| `router_system` | violated: `SystemNamespacesBlocked` (finding 3) |
| `lifecycle` | `TypeOK`, `UsesStoredIdentity`, `KeepsEarlierIdentity`, `TokenNotWasted`, `ReadyMeansConnected`; `ClientsKeepContract`: each client of a process begins and goes on as the contract says; `RotationTakesEffect` under fairness |
| `lifecycle_exchange` | violated: `ExchangedIsStored` (finding 4) |
| `kube_service` | `TypeOK`; of the cache `KeepsListPromise`: it implements `NamespaceLists`; of a rollout `CompleteWithoutSurplus`, `SettledIsComplete`; of a pod `EventsOfThePod`, `TellingEventsKept`, `NoEventsMeansNone`, `LogsWithinLimits` |
| `rollout_complete` | violated: `CompleteMeansRolledOut` (finding 6) |

The contracts say more than they name. That readiness is raised only in a session
and that `Run` returns for the reason it gives (`ReadyMeansSession`,
`OutcomeIsReal`) are guards of `ClientContract`; that a command never gets an older
list than the one before, none that is too old, and its answer by its deadline
(`NeverOlder`, `BoundedAge`, `NobodyOverstays`) are guards of `NamespaceLists`. Runs
check these through the refinement; section 4 proves them one by one as well.

**Bounds.**

* `gateway_safety`: three ids, two slots, a memory for two. Two slots let
  handlers compete for the mutex with the heartbeat and the reader; three ids
  against a memory of two and two slots make both fill up while another command
  arrives. `MaxUnread = 2`: one frame to start or refuse after the close and one
  behind it. Ids and slots are symmetric.
* `gateway_liveness` and the violation runs of that module: one id, one slot, a
  memory for one, and one or two unread frames. One command already fills semaphore
  and memory, so the reader waits for the slot and refuses; no symmetry is used.
* `session_clock`: three ids, two slots, a memory for three. A replay TTL of twice
  the command timeout is the tightest the assumptions allow; a heartbeat shorter
  than the timeout lets one command hold the reader over several pings;
  `MaxInFlight` (commands the gateway leaves unanswered) of three fills both slots
  and the reader's hands. The delays 2, 4, 5 show the doubling, the cap and the
  jitter. `MaxFailures` caps the count where the delay no longer grows.
  `session_deadline` has one slot and a read deadline of four ticks, which two
  commands in a row use up.
* `router`: three namespaces, two ordinary ones and a system one (two of them
  for the violation): a fan-out has a first failure and siblings. One
  list action and one named action besides logs, because the others differ only
  in the call they make; one unsupported action. `CHECK_DEADLOCK FALSE` is right
  because an answered command does nothing more.
* `lifecycle`: three identities (one stored, one rotated to, one new from
  registration), two registration tokens, with `CredentialsWriteEnabled` and
  without. `MaxCrashes = 1` bounds `Crash`; exits of the code's own error
  paths are not bounded, and neither are restarts. The violation takes one token.
* `kube_service`: three callers (a leader, a follower, one that answers from
  the cache), a lifetime and a timeout of two ticks, and a clock of six: time for
  two lifetimes with the fetches between them (`MaxTime` bounds `Tick`). One or
  two replicas, a surge of one, one pod that may be missing, three generations
  (`MaxGeneration`): a template change, a scale and a second change. Three events for a
  list of one, seen at two times (`MaxClock`), so that what is cut may be a
  warning, newer or of a series. Two log lines of two bytes against a limit of
  three, requests below, at and above the limits, and the largest integer 7.

**Fairness.**

* Gateway: weak fairness of each goroutine's next step (the Go scheduler);
  strong fairness of lock acquisition (`sync.Mutex` hands over to a waiter that
  starved for 1 ms) and of the read deadline against a peer that stays silent
  (the deadline is absolute, only pongs move it). None for the network, the
  gateway or a dial: the dialer has no handshake timeout (`client.go:93`), so
  `ShutdownCompletes` says nothing while `Run` is dialing.
* Router: a call returns once its context has ended (client-go), the deadline
  timer fires, and the goroutine in `g.Wait` runs. A call may otherwise never return.
* Lifecycle: `App.Run` takes its next step, the kubelet restarts the container,
  and a client whose token the gateway does not grant returns (the handshake is
  answered 401 or 403, a session is closed with 1008; finding 2 is the case
  where this takes another dial). No fairness for the controller, the operator
  or the gateway's decisions.

`RotationTakesEffect` needs more than it seems to: the gateway must have accepted
the final token whenever the agent held it. The agent waits for a token that
*differs* from the one it was refused with (`app.go:141`), so a token that is
written to the Secret before the gateway accepts it, or that is refused for a
moment, is not tried again until the Secret changes or the pod restarts. TLC
shows this when the condition is dropped.

**Mutants.** Each property of a run is paired in PROJECT.json with a slip, a variant of one
operator as a plausible bug would leave it (named `Operator_slip`, just before
the operator): an unlock skipped on an error path, a join left out, a replay
memory that starts empty after a reconnect, a fan-out that reports the last
error. With the slip in place TLC finds the property violated.

### What the runs found

1. **A command may be refused as "already processed" that never ran**
   (`client.go:234-246`). The id is remembered before the reader waits for a
   semaphore slot. If the connection closes while it waits, the command is
   dropped, and its redelivery after the reconnect is refused for ten minutes.
2. **A revocation can be lost** (`client.go:133-144`). When a heartbeat write
   fails before the reader has reported close frame 1008, `serveConnection`
   returns the write error and `Run` redials with the revoked token, against the
   comments at lines 31 and 327. The next handshake is refused if the gateway
   answers 401 or 403.
3. **System namespaces are blocked by default only** (`config/config.go:57`).
   README.md:101 says "always"; a custom denylist replaces the default whole.
4. **The exchange of the registration token is not safe against one failed
   write** (`auth/bootstrap.go:32`). The token is used up, the Secret is empty,
   and every later start fails. `waitForNewRegistration` retries the write
   (`app.go:178`) but nothing calls it.
5. **A healthy gateway can lose its session to the agent's read deadline**
   (`client.go:243`). Only the reader takes pongs, and it waits for a slot with
   commands and pongs queued behind it. Commands that come faster than eight slots
   take them hold it for up to a timeout each; when that adds up to the deadline
   (two minutes at least), the session ends although every ping was answered,
   against the comment at `websocket.go:50`. `DroppedForStalls` shows that
   nothing but such stalls can do this, `ReaderStallBounded` that each is short.
   `INCIDENTFLOW_COMMAND_TIMEOUT` has no upper bound.
6. **A rollout can be reported complete before it is** (`kube/deployments.go:31`).
   `readyReplicas` and `availableReplicas` count old pods too, and
   `status.replicas` is not compared. At the last step of a rolling update with
   surge the counts agree while the last new pod is not ready.
   `CompleteWithoutSurplus` shows that the missing comparison is all that is wrong.

Divergences met on the way that need no run: README.md:64 says an empty
allowlist means all non-system namespaces, `config.go:88` rejects it;
README.md:68 describes registration on first start, while the chart disables
writing credentials and grants only `get` on the Secret.

Observations that contradict no doc: events are matched by the name of the pod and
not by its UID, so a description shows those of a former pod of that name
(`kube/describe.go:134`). A description without an events field may mean that the
calls failed or that the fallback found none (`describe.go:147-156`). An event of a
series is as old as its first occurrence (`describe.go:160`), with a count of zero.
Times of events are compared as text with the local offset (`describe.go:171, 183`):
where daylight saving time ends, an older event may sort before a newer one.
Truncated logs keep the oldest bytes of the tail (`logs.go:30-32`). With a byte
limit of the largest int64 the answer is empty and not marked as truncated
(`logs.go:25`). A list of namespaces that comes back empty is not cached.

## 4. The proofs

Proved for every value of the constants that satisfies the assumptions (`NoId` is no
id, there are finitely many slots and at least one, the memory holds something, the
receive buffers are finite; `Cluster` and `NoNamespace` are no namespaces; empty and
partial Secrets are no tokens; the cache's lifetime and the command timeout are
positive; durations are positive, half the smallest delay is positive, and twice the
command timeout fits into the replay TTL, which is what an operator has to see to;
failures are counted up to where the delay no longer grows (`CountAssumption`);
there are finitely many events, a nil slice is no list, and the byte limit is below
the largest integer):

* **GatewayClientProofs.** `TypeInv` is `TypeOK` with the error a reporting reader
  holds. On top of it, in this order: `LockInv` (the owner in `writeMu` is the
  goroutine in its critical section) and `JoinInv` (the two waits leave nobody
  behind) give `WritesExclusive`, `SessionsIsolated` and `ReadinessHonest`.
  `OneWriter` alone is not inductive, because it does not say that a free mutex
  means nobody writes. `ClaimInv` (an id not remembered has no start, a claim in the
  reader's hands has none yet) gives `CommandsAtMostOnce`; `ReasonInv` (each place a
  revocation passes through, from the close frame to the result, holds only real
  ones) gives `OutcomesReal`; `ServingInv` (a loop that ended left its error or
  shutdown) gives `LostLoopsReported`. `ContractKept`: under these invariants every
  step of the client is a step of the contract or a stutter. The readiness invariant
  is what makes a heartbeat callback a `Beat`. The last part is about the two `Wait`
  calls (`client.go:185`). `MovesLeft` adds up how many steps each goroutine still
  takes at most. With `SocketInv` (the socket is closed and the context done while
  the goroutines are waited for), `TeardownEnds` shows that it falls with each of
  their steps, for any number of slots and of frames left to read, by counting the
  handlers in each phase (`HandlersAdvance`) and five steps for each frame
  (`ReaderAdvances`): a command the reader still takes from its buffer is refused or
  started, and starting it costs more than the handler adds. `TeardownGoesOn` shows
  with `LockInv` that someone can always move, because whoever has the mutex writes
  to a closed socket. The two are what the liveness of shutdown and reconnect rests
  on; fairness does the rest.
* **CommandRouterProofs.** Lemmas about the operators first: `OneBoundary` (what
  a list covers, what `list_namespaces` shows and what a command may name are
  one set), `FanOutNeedsAll` (no namespace means mode "all"), `TargetsAllowed`.
  `CallInv` says that the calls in flight are the targets of a command that passed every
  check, and the configuration does not change, which gives `ReadsBounded`.
  `FailureInv` (a failed call leaves its error) gives `SuccessesComplete`;
  `CancelInv` (while nothing failed only the connection cancels) gives
  `ErrorsAreCauses`. `RouterTyped` is the type invariant.
* **AgentLifecycleProofs.** `LifecycleTyped`; `IdentityStored` from `StoredInv`
  (what is in the Secret has been stored, and so has what the client uses);
  `ReadinessConnected` from `ReadyInv`, across `Exit`, `NewClient` and the steps
  of the contract; `EarlierIdentityKept` and `TokensNotWasted` from `LateInv` (what the
  Secret holds during a registration was put there since it began).
  `ClientsAreContracts` closes the composition: `ContractKept` is about a client that
  starts with the flag down, and `ReadyInv` says that every client of the
  process does, although they share the health state.
* **SessionClockProofs.** The arguments add up times. `HandlerInv`: a command is
  at most one timeout old when it gets its slot, since the slots that are busy all free
  up within one, and at most two when its handler ends; so its entry is still
  live while it works, which gives `HandlersNeverOverlap` and `StallsBounded`.
  `NoOverlap` alone says nothing of ages and is not inductive. `SpacingInv` (a
  claim is older than its start by a timeout at most) gives `StartsFarApart`;
  `StallInv` (the time since the last pong exceeds the time the reader stood
  still by at most a heartbeat) gives `DropsExplained`.
  `SilenceEnds` needs two more. `LoadInv` counts the commands in the stream, in the slots
  and in the reader's hands (`CommandsCounted` and the lemmas before it say how taking,
  starting and sending change the count). `SilenceInv` charges the time since the
  last pong to the read deadline and then to commands: what is past the deadline
  is at most one timeout for each command that is no longer ahead of the reader.
  `DelaysFollow` needs the recursion of `Pow2`, which the library's induction
  cannot give: `Pow2Recursion` is proved with a least counterexample
  (`LeastMember`, from the well-foundedness of the naturals).
  `CommandLifeKept`: by `MemoryInv` (what is held or worked on is remembered, from
  `HandlerInv`) each step is one of `CommandLife`; time takes away what is done only,
  and an idle slot means that fewer commands are worked on than there are slots
  (`SlotsBoundWork`).
* **RolloutProofs.** `StatusInv`: counts of the present generation are counts of
  the present template, and what is available is old or done.
  `CompleteIsTrue` and `SettledReported` are arithmetic from there.
* **PodReadsProofs.** `SortedKeepsAll` and `CutIsLeastTelling` are the lemmas
  about sort and cut, `EventsInv` keeps what is steady in place and times in
  order; together they give `EventsBelong`, `NoneIsTold` and `TellingKept`.
  `LogsBounded` is `LogsStep` and nothing else.
* **NamespaceCacheProofs.** `FlightInv` (the leader of a call waits for it and
  has waited the longest) with the types is `CacheTyped`. `OrderInv` orders the
  lists: shown, cached, on the way to the cache; it gives `ListsNeverOlder`, and
  is needed because the check of the cache and the fetch are separate
  critical sections. `AgeInv` (a fetch ends within a timeout) gives `ListsYoung`
  and `WaitsBounded`. `PromiseKept` puts the three together: each step of the cache is
  a step of `NamespaceLists` or unseen (`PromiseStep`). The end of a shared fetch answers
  all who wait with one list that is good for each (`CachedIsGood`), and the clock
  passes no deadline because the leader's is the first.
* **KubeServiceProofs.** Seen from one of its parts, a behaviour of the service is a
  behaviour of that part (`ServiceCaches`, `ServiceWatchesRollouts`, `ServiceReadsPods`), so
  what is proved of the parts holds of the service: `ServiceTyped`,
  `ServiceKeepsListPromise`, `ServiceListsTrue`, `ServiceRolloutsTrue`, `ServicePodsTrue`.

Only model-checked: what holds under fairness (`ShutdownCompletes`,
`BrokenSessionEnds`, `HandlersFinish`, `StuckOnlyBehindAWrite`, `CommandAnswered`,
`RotationTakesEffect`), which is out of the prover's reach, and the six violations,
which are counterexamples. Every other property of a run is a theorem.

## 5. Not modelled

* JSON encoding (`protocol.go`, `response.go`), configuration parsing, tracing,
  logging, metrics, the chart and the scripts: output or data, without a step of
  their own.
* `ListPods`, `ListDeployments`, `ListServices`, `ListEvents`, `GetPod` and the fields
  of a description: one API call and a projection of its result. As calls they
  are in `CommandRouter`.
* `waitForNewRegistration`, `Filter`, `Redact` and `TruncateLog`, which only
  tests call, and `Health` of the kube service, which nothing calls. (It would
  not be bound by the command timeout: the discovery client takes no context.)
* A rollback to an earlier template in `Rollout`, which makes the pods of that template
  updated ones again: every template change makes all pods old.
* Validation of durations: zero or negative heartbeat periods panic in
  `NewTicker` (`client.go:191`); `PeriodsAssumption` says what is assumed instead.

What could be added: the clock of `SessionClock` under `GatewayClient`'s goroutines,
so that a stalled write counts against the read deadline; UIDs of pods, to
state how far a description's events may belong to a former pod.
