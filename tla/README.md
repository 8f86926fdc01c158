# TLA+ verification of openclaw-rust-node

OpenClaw's Rust node connects to a Gateway over a WebSocket, receives command
invocations on that session, runs registered handlers under strict bounds and
returns their results; it reconnects by policy and shuts down in order. This
directory models the two crates under `crates/`: `openclaw-gateway-client`
(the session) and `openclaw-node-host` (runtime, lifecycle, host, sidecar); and,
beside them, the root crate `openclaw-node` under `src/`, whose session, runtime
and host differ from the crates' in their details.

`PROJECT.json` holds the line-by-line map from definitions to source, the runs,
the mutants that show each property can fail, the hazards and the findings.

## Inventory

| Component | State | Operations | Interacts with |
|---|---|---|---|
| Event hub (`session.rs`) | retained frames, next index, byte count, closed flag; a cursor per subscription | `publish`, `close`, `subscribe`, `recv` | written by the session task, read by `NodeSession::next_node_event` on other tasks through a mutex and a `Notify` |
| Gateway session (`session.rs`) | command channel, in-flight permits, pending requests with deadlines, close flag and cause | `request`, cancellation on drop, `close`, `wait_closed`; the loop `run_session` | callers send commands and wait on oneshots; socket frames become replies or hub events |
| Command runtime (`runtime.rs`) | concurrency permits, table of active invocations, handler tasks, overload queue and its worker | `run`, `dispatch`, cancel / input routing, stop | takes events from the session, sends `node.invoke.result` requests through it |
| Duplex input (`duplex.rs`) | queue, next sequence number, bytes, closed flag, overflow and cancel tokens | `push`, `close`, `recv` | the run loop pushes, handler tasks receive |
| Duplex progress (`duplex.rs`) | sequence under an async mutex, active flag | `write`, `heartbeat`, `stop` | handler, heartbeat task and whoever holds a clone of `InvocationIo`, through the session |
| Node lifecycle (`lifecycle.rs`) | attempt, policy, the session and the run in progress | `run` | calls connect factory, runtime, policy; emits events |
| Reconnect policy (`reconnect.rs`) | next delay, token-retry flag | `after_failure…`, `connected` | lifecycle, embeddings |
| Node host (`host.rs`, `main.rs`) | ready flag, issued device token, health server | `run_host` | lifecycle events and factories; HTTP |
| Node client / session (`node.rs`) | activation, negotiated protocol | `connect` (V4, then one V3 fallback), `next_node_event`, `complete_invocation` | gateway session |
| Sidecar (`sidecar_*.rs`) | authenticated channel with sequence numbers, handshake and configuration state machines, liveness, lifecycle bridge | seal/open/retire, start/receive/complete, activate | a supervising process over pipes |
| Connect handshake (`session.rs`, `node.rs`) | attempt, nonce, the declared surface, the signed envelope | dial, challenge, connect, fallback | Gateway; identity |
| Identity, TLS pinning | keys, fingerprints | sign, verify | network and files |
| Health server (`host.rs`) | permits, tasks, consecutive accept errors | accept, answer, join | local probes; ends the host when it fails |
| Root crate: session (`client.rs`) | command and cancel channels, permits, pending requests, event and invocation streams, cause | `request`, `close`, `next_event`, `next_invocation`; `run_session` | callers, socket |
| Root crate: runtime (`runtime.rs`) | permits, table of ids, handler tasks, overload queue | `run`, `dispatch` | the session |
| Root crate: host (`host.rs`, `reconnect.rs`) | credentials, policy, readiness | `run_connections` | connect, runtime, signals |

What is hard here: everything runs on a multi-threaded tokio runtime, futures
are dropped at any await point (so cleanup lives in `Drop`), wake-ups go through
`Notify`, permits travel inside task results, and closing races every operation.
`PROJECT.json` lists each of these hazards at its line.

What makes each part correct:
- hub: bounded memory, no event lost without a count, order, a complete ending;
- session: every request gets exactly one answer, the in-flight bound holds for
  the Gateway and not only for the callers, close terminates and its cause is known;
- runtime: permits are conserved, live handlers stay reachable, an invocation that
  races a stop is refused or finds its token cancelled, results are not lost while
  the session is served, `run` returns only when its tasks are gone;
- duplex: bounded, ordered, wakes its receiver; progress numbered without gaps,
  and after the result nothing but a frame that was already on its way in a task
  nobody joins;
- sidecar: whatever the transport does, frames are opened in order and once, the
  two state machines agree, and a budget checked once stays true;
- lifecycle: sessions do not overlap, shutdown ends, a refused credential is
  forgotten, backoff is exponential and resets;
- connect: what is signed is what is sent, the session is the one that was asked
  for, a downgrade happens once and only on request, and every wait ends;
- deadlines: the handler ends early enough for its result, a fresh invocation has
  time to run, a deadline ends the invocation wherever it is;
- configuration: what host or sidecar accept can be built, and the declared
  surface is exactly the one that resolves;
- sidecar bridge: retirement of the channel ends every wait, no answer counts
  after it, and abandoned work is cancelled.

## Modules

| Module | Models | Remarks |
|---|---|---|
| `EventLog` | what a subscription promises | abstract specification |
| `EventHub` | `EventHub`, `EventSubscription` | `publish` is cut at each turn of its eviction loop (the lock is a guard on the readers); `recv` at each await and lock. Refines `EventLog` (`ImplementsLog`) |
| `EventHubProofs` | | theorems |
| `GatewaySession` | `request_inner`, `RequestCancellation`, `run_session` | one action per arm of the select; the write in progress is a state of its own because deadlines and close race it |
| `CommandRuntime` | `run`, `dispatch`, `evaluate_tracked`, `ActiveInvocations`, overload delivery | one action per stretch between await points, cut further where another thread can get in: between the checks at handler entry and the call of the handler, and in `cancel_all`, which takes the table under the lock and cancels one token after the other without it (`taken`); which failure code is sent is not told apart |
| `DuplexInput` | `InputBuffer`, `recv`, routing, the overflow arm of `execute_handler` | `Notify` with its stored permit is external, modelled from its use |
| `InvocationProgress` | `InvocationProgress::send`, the heartbeat task, the result | three senders: the handler, the heartbeat, and a clone of `InvocationIo` in a task of its own, which nobody joins and which stands for any number of them (the mutex lets one at a time past the second check, and the others find the invocation over). The heartbeat runs while the handler is still being called |
| `ReconnectPolicy` | the whole policy | errors abstracted to the fields the classification reads |
| `NodeLifecycle` | `NodeLifecycle::run` as `host.rs` drives it | extends `ReconnectPolicy`; `CommandRuntime::run` appears by its contract (`ReturnsQuiet`) |
| `NodeLifecycleProofs` | | theorems |
| `SidecarNegotiation` | the pure checks: offers, limits, configuration, manifest | no state |
| `SidecarSession` | channel, handshake, configuration exchange and activation of both peers | extends `SidecarNegotiation`. The transport may deliver any sealed frame at any time, repeatedly or never. All refusals of a state machine have one effect (retire and fail), so they are one action per machine, possible in every state because unauthenticated bytes may arrive in every state; what is accepted has its full guard. A replacement channel is retired without effect on the machine and so is a stutter here |
| `SidecarBridge` | `evaluate_sidecar_admission`, `evaluate_sidecar_invocation`, `SidecarChannelLiveness::retired` | the watch channel is a value and a version; load, subscribe, borrow and wait are separate steps |
| `NodeConnect` | `connect_with_protocol_fallback`, `connect_once`, `NodeClient::connect`, `finalize_identity`, `DeviceSigningRequest` | a signature is the tuple it covers, made by the library from the fitted options, by the embedding from `external_signing_request`, or elsewhere (`device()` takes any proof); the Gateway may send or withhold anything. Device and bootstrap tokens are signed as a token is and are not told apart from it |
| `InvocationDeadline` | `resolve_timeout`, admission's deduction, both timers, and the limits that host and sidecar configurations may build | time is counted in ticks |
| `NodeEvents` | the parsers of `next_node_event`, activation, `complete_invocation`, `handler_failure`, `adapter_failure` | payloads by their shape; texts are empty, blank or filled in |
| `HealthServer` | `serve_health` and its requests | reading, with its two seconds, and writing, with no deadline, are two stages; the listener's backlog is external |
| `RuntimeRegistration` | `validate`, `validate_names`, `CommandRuntimeBuilder::build`, `activate`, handler lookup | a few names that the checks tell apart, with `trim` tabulated on them |
| `PrototypeSession` | root crate: `request`, `close`, `run_session`, `next_event`, `next_invocation` | the write in progress is a state; nothing bounds it. A request may be dropped at every await, its command left behind |
| `PrototypeRuntime` | root crate: `run`, `dispatch`, `evaluate_with_scope`, `ActiveInvocations` | tasks track when first polled; `cancel_all` (one step, under its lock) and `abort_all` are two steps; a dispatch that sees the close untracks its id before it calls `cancel_all`; either future may be dropped, which leaves the delivery worker detached |
| `PrototypeHost` | root crate: `run_connections` and its policy | of the session only the command queue, of the runtime only that it closes the session before it returns, and moves only where the host polls it |
| `Node` | the parts of the node that share no state, side by side: `SidecarBridge`, `NodeConnect`, `InvocationDeadline`, `NodeEvents`, `HealthServer`, `RuntimeRegistration`, `InvocationProgress`, and `CommandRuntime` once more for liveness | a behaviour picks one part and is a behaviour of its `Spec`; the part's variables are `x1`, `x2`, … in the order of its declarations |
| `Prototype` | the same for the root crate: `PrototypeSession`, `PrototypeRuntime` in any number of sizes, `PrototypeHost` | |
| `GatewaySessionProofs`, `CommandRuntimeProofs`, `DuplexInputProofs`, `SidecarSessionProofs`, `NodeProofs`, `PrototypeProofs` | | theorems about the module named, in the last two about each part |
| `MCNode`, `MCPrototype` | | constants, fairness and the liveness property of `Node` and `Prototype`, under the guard that the part is the one running |
| other `MC…` | constants for TLC | |

Variables keep the names of the fields they model. History variables (marked in
the declarations) record what was delivered, refused or counted; no action reads
them. Definitions introduced by a comment `Mutant:` are plausible wrong
versions of the definition that follows; no specification uses them.

## Runs

| Run | Checks | Bounds and why they suffice |
|---|---|---|
| `eventhub` | bounds, exact lag counts, order, complete ending, refinement, no lost wake-up | 3 events of sizes 1, 2 and 4 against 2 frames and 3 bytes: eviction by count, by bytes, of several frames for one, and an event too large to retain; two subscribers, one of them late |
| `gateway` | in-flight bound, one answer per request, cause known to everyone told of a close, close terminates | 2 requests for 1 slot: the second waits for the permit the first one carries, through a cancel, a timeout, a failed write and a close |
| `runtime` | the table, the stop and the results | 2 invocations of `run` and 1 dispatch, 2 ids that any of them may share, 2 permits, with a policy: overload, duplicates, failures, aborts, two `cancel_all` at a time, and a guard that finds the entry of another invocation under its id |
| `dispatch` | permits shared by `run` and `dispatch` | 4 invocations, 1 id, 1 permit: the delivery queue and the delivery permits both fill |
| `duplicate_ids` | **violated**: see findings | |
| `duplex_input` | byte limit, order, wake-up | numbers up to the largest, where `next_seq` saturates; sizes 1 and 2 against 3 bytes |
| `input_overflow` | **violated**: see findings | |
| `lifecycle` | sessions, drain report, tokens, backoff, shutdown | delays 1, 2, 4, 6 with an overflow at 7; one error of each class; two tokens, so that a refused one may be issued again |
| `readiness` | **violated**: see findings | |
| `sidecar` | frames in order, both peers agree, the payload budget stays true | 2 generations (a restart of one side or both), 2 offers per side that differ in minor version and limits, 3 configurations (two with one manifest, one invalid), sequence numbers up to 4: two messages after the exchange, then exhaustion. The source implements minor 0 only; the run uses 1 as the newest so that the switch after the bootstrap is visible |
| `node` | one property per part, a conjunction of the named properties of its module, and `NodeWaitsEnd` | see below |
| `prototype` | one property per part of the root crate, and `PrototypeWaitsEnd` | see below |

The parts of `node`:

| Part | Properties of its module | Bounds and why they suffice |
|---|---|---|
| `SidecarBridge` | `BridgeIsSound`: `NoLateAnswer`, `AbandonedWorkIsCancelled`, `TypeOK`; ends: retirement ends every evaluation | 1 invocation of every shape in both stages (invocations share nothing but the channel), retired or dropped at every step |
| `NodeConnect` | `ConnectIsSound`: `ProofMatchesRequest`, `SessionMatchesRequest`, `NoUnaskedDowngrade`, `AtMostTwoConnections`; ends: connect returns | both protocols, every kind of signer, platforms that normalise differently; one connect, whose two attempts are all there are |
| `InvocationDeadline` | `DeadlineIsFair`: `ResultGraceKept`, `FreshInvocationRuns`; ends: an invocation with a deadline is answered | times of 0, 1, 2 and 4 ticks around graces of 0 to 2, so that limits fall below, at and above them |
| `NodeEvents` | `HandlersCannotEndRun` | 2 invocations, every combination of fields a parser tells apart |
| `InvocationProgress` | `ProgressIsSound`: `ProgressOrdered`, `ResultEndsOutput`, `TypeOK` | a handler, a heartbeat and a clone with failing sends, cancel, panic, abort; 4 frames, one more than there are senders |
| `HealthServer` | `HealthIsBounded`: `HealthTasksBounded`, `GivesUpOnlyAfterRow`; ends: a probe is dropped, given up or gets to its answer, and a finished one gives its permit back | 3 probes for 2 permits, rows of errors up to the limit of 3 |
| `RuntimeRegistration` | `RegistrationIsExact`: `AcceptedConfigurationBuilds`, `SurfaceIsExact` | sequences of up to three names over blank, padded, reserved and ordinary ones |
| `CommandRuntime` | ends: every invocation of `run` and `dispatch`, and a stopping `run` | one invocation of `run` and two dispatches for 1 permit and 1 id, without symmetry |

The parts of `prototype`:

| Part | Properties of its module | Bounds and why they suffice |
|---|---|---|
| `PrototypeSession` | `SessionIsSound`: `TypeOK` (which conserves the permits), `ClosedMeansCauseKnown`; ends: a queued request, a reader of invocations | 2 callers with 2 requests together for 1 permit and 1 queue slot, answered, failed, timed out or dropped |
| `PrototypeRuntime` | `RuntimeIsSound`: `PermitsConserved`, `ReturnsQuiet`, `AbandonedIsCancelled`, `OneHandlerPerId`, `TableIsTight`, `TypeOK`; ends: `run` and every `dispatch` once the session is closed, the tasks of a dropped `run` | 3 invocations of 1 id with 1 permit and a queue of 1, which fills and saturates; 2 invocations of 2 ids with 2 permits, two handlers at work |
| `PrototypeHost` | `HostIsSound`: `LatestTokenOffered`, `BackoffIsExponential`, `DrainedMeansReturned`; ends: a shutdown leaves the loop | delays 1, 2, 4, 6; hints below and above the cap; queue of 2 |

Each conjunct has a mutant of its own. The type invariants of the other modules
and the sections "The inductive invariant" at the end of a module are definitions
for the proofs and are not checked by a run of their own; TLC was used to refute
early versions of them on the constants of the run.

Deadlock checking is off where the system may stop for good: a closed session,
a finished runtime, a stopped host.

### Fairness

Tokio polls every task whose waker has fired, so steps that need nothing but a
poll are weakly fair. Timers fire. The arms of `select!` are polled in random
order, so an arm that is ready again and again is taken: strong fairness for the
session's commands and close flag, and for the lifecycle's shutdown arms.
Nothing is assumed of the Gateway: it may never answer, and requests end by
their deadline. The end of the runtime's invocations (in `NodeWaitsEnd`) assumes
that a handler without a deadline (`timeoutMs: 0`) returns; `ShutdownCompletes`
assumes nothing of handlers. For the health server only the probe the property
is about is given fairness, and its answer none: `write_all` and `shutdown` have
no deadline (`host.rs:651`), so that a probe which is being answered counts as
ended, although it keeps its permit until the write does.
In the root crate no fairness is assumed of a socket write, of a connect or of a
close handshake: none of them has a deadline in the code. Its aborted tasks are
dropped at their next await, which a handler that never yields would not reach.

### Findings

1. `input_overflow`: a push that overflows closes the buffer under its lock
   before the overflow token is set. A handler polled in between reads the end
   of its input and its own result is reported instead of
   `INPUT_BUFFER_OVERFLOW`. The existing test uses a handler that never reads.
2. `duplicate_ids`: `cancel_all` empties the table while handlers still run;
   a `dispatch` with the same id then executes beside the first, which may not
   even have been cancelled yet.
3. `readiness`: `/readyz` answers 200 while a failed `run` is still stopping its
   tasks, although the README promises 200 only while the session is served.

### Observations

What the models showed besides, without a run of its own. Each is a short
behaviour of the module named, and a formula that TLC refutes when it is added
to the run's configuration (with the guard of its part):

- `CommandRuntime`: the checks at handler entry and the call of the handler are
  two steps of one task (`runtime.rs:705`, `:716`), so on a multi-threaded runtime
  a stop may fall between them and the handler is called after it:
  `[][\A d \in Slots : run = "joining" => ~ (stage[d] = "entering" /\ stage'[d] =
  "handler")]_vars` fails. `NoStartAfterStop` says what is left: its token is
  cancelled, or `cancel_all` has it in hand, or its session has ended.
- `InvocationProgress`: a clone of `InvocationIo` that the handler gave to a task
  of its own is neither dropped nor joined by `stop` (`runtime.rs:1080`), and if it
  is past the check under the mutex (`duplex.rs:112`) its frame follows the result;
  so may the heartbeat's if the call of the handler panics. `ResultEndsOutput`
  says that it is one frame at most; that the result is last fails.
- `HealthServer`: a client that does not read its answer is bounded by nothing
  (`host.rs:651`).
- `InvocationDeadline`: `timeoutMs: 0` removes the deadline (`runtime.rs:900`),
  although `max_timeout` is documented as an "upper bound applied to both
  caller-provided and default deadlines" (`runtime.rs:268`):
  `stage = "handler" => elapsed <= limits.max` fails.
- `InvocationDeadline`: a sidecar compares `max_timeout` with the result grace,
  `HostConfig::validate` does not (`host.rs:145`), so a host may be configured to
  refuse every invocation that carries a deadline. `FreshInvocationRuns` is
  therefore stated of sidecars.
- `NodeEvents`: V3 is documented as the envelope with direct `params`
  (`node.rs:31`); the decoder takes `paramsJSON` only and does not look at the
  protocol (`node.rs:1021`), so such a request ends the run.
- `PrototypeSession`: the session keeps a sender of its own event stream
  (`client.rs:568`), so `next_event` never reports the end, contrary to its
  comment, and the README's loop over it does not end:
  `ChannelsDropped /\ event = "waiting" ~> event = "idle"` fails.
- `PrototypeSession`: a cancellation travels on its own channel and may overtake
  its request (`client.rs:929`), whose entry then stays until the Gateway answers:
  `Cardinality(pending) <= MaxInFlight` fails.
- `PrototypeSession`: the request timeout begins after the waits for a permit and
  for the queue (`client.rs:694`), and a write has no deadline:
  `caller[c] = "acquiring" ~> caller[c] = "idle"` fails.
- `PrototypeHost`: the host closes a failed session outside the shutdown select
  (`src/src/host.rs:376`); with a full command queue and a stalled write it hangs.
  The liveness property excepts that place: `shutdown ~> pc \in Over` fails.

## Proofs

TLAPS proves the following for every value of the constants (sets of readers,
requests, invocations, errors, tokens; limits, capacities and delays), under the
named `ASSUME`s of the modules, which TLC evaluates in the runs. They say that
bounds and durations are naturals, that sets whose members are counted are
finite, that `None` is not one of the values it is told apart from, and little
else; the ones that say more are named below.

Every invariant that a run checks is proved, and so are the action properties
`NoStartAfterStop` and `BridgeIsSound`.

`EventHubProofs`. The inductive invariant is `TypeOK /\ HubInv`. Frames are not
only ordered: each carries the history field `at`, the number of bytes accepted
before it, and consecutive frames touch (`FramesLinked`). This makes
`retained_bytes + frames[1].at = accepted` inductive (`BytesCounted`), a byte
account without a recursive sum, which eviction at the front and insertion at
the back both preserve. `EndOrdered` orders publish, cause and close;
`ReaderPlaced` puts each reader at or before the end, exactly there once it was
told of it. From these follow `BufferIsBounded`, `EndingIsAlwaysComplete`,
`NothingIsLostSilently`, `DeliveryIsOrdered`, `LagIsJustified` and the refinement
`HubImplementsLog`. `TypeCorrect` is the type invariant.

`GatewaySessionProofs`. A request is in one place only: queue, write or pending
table (`OnePlace`, `QueuedOnce`, `OneWrite`), and whoever holds it holds its
permit; so permits plus the requests that carry one is a constant, through
cancellation on drop, timeouts, failed writes and the drain at the end
(`InFlightIsBounded`). `CancelsFlagged` and `LossExplained` say why a caller may
find its request gone: it cancelled, or the cause has been published. From them
`CauseIsAlwaysKnown` and `NoCallerIsForgotten`.

`CommandRuntimeProofs`. `RuntimeInv` relates who carries an invocation to the
stages it can be in (`Placed`), the table to the guards (`TableSound`,
`GuardsTracked`), what has been taken from it to the caller that is in the middle
of `cancel_all` (`TakenSound`), a stop to the tokens it has set or still has in
hand (`StopReached`), the overload queue to its worker (`QueueSound`, `WorkerSound`),
and what is joined or acknowledged to what is gone (`JoinSound`, `AckSound`).
`PermitsAreConserved` counts the owners of permits over all ways a task can end.
`TableStaysExact` is about `run` and `dispatch` together: nothing is in the table
but the live invocation of that id, an invocation that has ended has its input
closed or about to be, and a handler nobody has cancelled is in the table, or was
taken from it by a `cancel_all` that has yet to reach it - while nothing has
emptied the table under it (`Undisturbed`: `run` has not begun to stop, and no
dispatch has seen the end of the session), and to the very end if `dispatch` is
not used (`OnlyRun`). A handler of `dispatch` is not covered after that: a guard
removes by id, so the entry that goes may be its own, which is the finding
`duplicate_ids` seen from the table. `ExecutionIsUniqueForRun` says that the
finding needs a dispatch. `NothingStartsAfterStop` rests on `StopReached`: a stop
reaches every invocation under way through the table, in one step or token by
token, and `abort_all` comes after the last of them. `RunReturnsQuiet` and
`NoResultIsLost` need no hypothesis either.

`DuplexInputProofs`. `buffered_bytes` is the sum of the queued lengths. A sum is
recursive; the invariant says instead that some table of running totals begins
at 0 and ends at the counter (`Ledger`), and `push` and `recv` each make the next
table from the last. With it `InputIsBounded`, and from `InSequence`
`InputIsInOrder`. `ParkedReceiverHasNothing` is the safety core of the wake-up
that the run checks as liveness: a parked receiver whose future has not fired has
nothing to receive (with one receiver; with several it holds of a close only).

`SidecarSessionProofs`. The channel's counters count two histories, what a
generation sealed and what it opened (`Counted`); what is on the wire was sealed
under its number (`Authentic`); what was opened is a prefix of what the peer of
that generation sealed (`Matching`). The states of supervisor and runtime are
functions of those histories (`SupervisorSound`, `RuntimeSound`), so that
agreement of the peers follows from agreement of prefixes, with no case split on
pairs of states. `BudgetLocked` keeps the frame ceiling from which a budget was
computed. Proved: `FramesAreInOrder`, `PeersAlwaysAgree`, `StatusFitsForLife`.
`SidecarAssumption` says that every ceiling has room for the bootstrap
(`MinSession`), `OffersAssumption` that offers are well formed: both are checked
by the constructors in the code.

`NodeLifecycleProofs`. The invariant `LifeInv` says who may own live handler
tasks (`TasksOwned`: a run that returned or does not exist has none, and only
such a run precedes a wait or a connect), that an adopted token has not been
refused (`TokensFresh`), that the delay is between its limits (`DelayBounded`)
and that a stopping run has an error to return (`FailureKnown`). The properties
`SessionsDoNotOverlap`, `DrainedMeansQuiet` and `RejectedTokenIsForgotten` are
not inductive alone: each speaks of one place of the control and needs the
others' view of `run`, `issued` and `busy`. `BackoffStaysExponential` compares
the policy with a recursive function. That the function satisfies its equation is
proved with a least counterexample (`WFMin` on the naturals), which is
first-order, unlike the library's induction theorems. `StreakAssumption` says that
the bound of the history variable `streak` lies where the curve has become flat.

`NodeProofs`. One inductive invariant per part, at the end of its module:
`ConnectInv` (what is signed, sent and kept was made together, for one nonce),
`DeadlineInv` (the timer lies inside the Gateway's deadline less the grace),
`HealthInv` (permits are counted, the error count is the length of the last row),
`RegistrationInv`, `ProgressInv` (the lock is exclusive, the number on the wire is
the sender's, and after the result only its holder can still send), `BridgeInv` (versions of the watch channel, what a poll has seen);
`HandlersCannotEndRun` is inductive itself. `NodeInvariant` composes them: no step
of one part touches another.

`PrototypeProofs`. `SessionInv`: ids are counted against the requests that were
begun (`IdsCounted`; a request dropped before it had a permit never gets one), and
an id is at one place on its way from its sender to its
reply (`OnePlace`), without which "no reply is both sent and pending" is not
inductive. `RuntimeInv`: a handler that was called has a guard until its
completion or its drop (`Guarded`), an id in the table is that of its guard, and
while `run` is at work and the session open every guard has its id (`Tabled`);
permits move one at a time, except when `run` returns, or is dropped, with results
it has joined or not. `HostInv`: the credential is the latest token, and the backoff as above. The
runtime is proved in any number of sizes at once.

Only model-checked, because liveness under fairness is out of the prover's reach:
`ReadersCatchUp`, `RequestsResolve`, `CloseCompletes`, `ReceiverIsWoken`,
`ShutdownCompletes`, `NodeWaitsEnd` and `PrototypeWaitsEnd`.

## Plan

Done, in this order: event hub and its abstraction; gateway session; command
runtime; duplex input and progress; lifecycle with policy and host; sidecar
session; sidecar bridge; connect with fallback; deadlines; events and results;
health server; registration; the root crate's session, runtime and host; then the
proofs of the invariants of all of them.

Next:
1. The abstract specification of a request (one answer) for `GatewaySession`, and
   a proof that the session implements it.
2. `SidecarBridge` composed with `SidecarSession`, and the status that
   `observe_lifecycle` projects.
3. Action properties with proofs: what a step of the session may do to a request
   that was answered, and of the runtime to a delivered result.

## Not modelled

Cryptography, TLS and the WebSocket upgrade, certificate pinning and key files;
the size computation of JSON values (a value fits or does not); reading the
configuration file and its secrets; the bytes of the health server's HTTP
exchange; pairing diagnostics, status texts and log records (text); the attempt
counter of lifecycle events; of the root crate its connect, identity, manifest,
wire types and health server, which the crates repeat; fixtures, pins and
workflows (data).
