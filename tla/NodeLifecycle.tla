---------------------------- MODULE NodeLifecycle ---------------------------
(***************************************************************************)
(* NodeLifecycle::run (crates/openclaw-node-host/src/lifecycle.rs) as the   *)
(* headless host drives it (host.rs): connect with the adopted or the       *)
(* configured credential, serve the session, back off, pause, shut down.    *)
(*                                                                          *)
(* The session and CommandRuntime::run appear as what the lifecycle sees of *)
(* them: run ends only after its handler tasks are gone (ReturnsQuiet of    *)
(* CommandRuntime), dropping it aborts them at their next await point.      *)
(***************************************************************************)
EXTENDS ReconnectPolicy, FiniteSets

CONSTANTS
    Errors,               \* the client errors that may occur
    Tokens,               \* device tokens the Gateway may issue
    Configured,           \* the configured credential
    RestartDelay,         \* runtime_restart_delay
    RetiredSessionDelay,  \* RETIRED_SESSION_RETRY_DELAY
    DeliverySaturated,    \* what run returns beside a client error:
    ResultTask,           \*   RuntimeError::DeliverySaturated and ::ResultTask
    None,                 \* no token, no error
    MaxStreak             \* bound of the history variable streak

ASSUME ErrorsAssumption == Errors \subseteq ClientError
ASSUME TokensAssumption == Configured \notin Tokens /\ None \notin Tokens /\ None # Configured
ASSUME LifecycleDelaysAssumption == RestartDelay \in Nat /\ RetiredSessionDelay \in Nat
ASSUME FailuresAssumption == {DeliverySaturated, ResultTask, None} \cap Errors = {}
ASSUME MaxStreakAssumption == MaxStreak \in Nat

VARIABLES
    pc,        \* where run is: connecting, serving, draining, backing off or over
    shutdown,  \* the shutdown future is ready
    session,   \* the Gateway session of this attempt
    run,       \* CommandRuntime::run of this attempt
    failure,   \* the error run returns
    busy,      \* handler tasks of this attempt are alive
    auth,      \* the credential of the connect in progress
    issued,    \* issued_device_token, kept in memory by the host
    ready,     \* HostState.ready
    delay,     \* the delay being waited for
    drained,   \* what Stopped reported
    rejected,  \* history: tokens the Gateway refused since it issued them
    streak     \* history: exponential retries since the last connection

sessionVars == <<session, run, failure, busy>>
tokenVars == <<auth, issued, rejected>>
vars == <<policyVars, pc, shutdown, sessionVars, tokenVars, ready, delay, drained, streak>>

RuntimeFailures == {DeliverySaturated, ResultTask}

Over == {"stopped", "paused", "failed"}

-----------------------------------------------------------------------------
\* The credential of an attempt: an adopted token comes before the configured one.
Credential == IF issued # None THEN issued ELSE Configured

Init ==
    /\ PolicyInit
    /\ pc = "connecting"
    /\ shutdown = FALSE
    /\ session = "none"
    /\ run = "none"
    /\ failure = None
    /\ busy = FALSE
    /\ issued = None
    /\ auth = Configured
    /\ ready = FALSE
    /\ delay = 0
    /\ drained = FALSE
    /\ rejected = {}
    /\ streak = 0

\* SIGINT or SIGTERM
Signal ==
    /\ ~shutdown
    /\ shutdown' = TRUE
    /\ UNCHANGED <<policyVars, pc, sessionVars, tokenVars, ready, delay, drained, streak>>

-----------------------------------------------------------------------------
(* The end of an attempt.                                                  *)

\* The host's handler of Disconnected, Connecting, Paused and Stopped.
Unready == ready' = FALSE

\* BackingOff: wait for d, or for the shutdown.
BackOff(d) ==
    /\ pc' = "backoff"
    /\ delay' = d

\* handle_client_failure.  The lifecycle never offers a stored token.
HandleClientFailure(e) ==
    /\ Unready
    /\ AfterFailure(e, FALSE)
    /\ streak' = IF Action(e, FALSE) = "RetryAfter" THEN Smaller(streak + 1, MaxStreak) ELSE streak
    /\ \/ Action(e, FALSE) = "Pause" /\ pc' = "paused" /\ UNCHANGED delay
       \/ Action(e, FALSE) = "KeepSession" /\ BackOff(RetiredSessionDelay)
       \/ Action(e, FALSE) \notin {"Pause", "KeepSession"} /\ BackOff(Delay(e, FALSE))

\* handle_runtime_failure
HandleRuntimeFailure ==
    /\ Unready
    /\ BackOff(RestartDelay)
    /\ UNCHANGED <<policyVars, streak>>

\* Stopped: run returns.
Stop(quiet) ==
    /\ pc' = "stopped"
    /\ drained' = quiet
    /\ Unready

-----------------------------------------------------------------------------
(* Connecting.                                                             *)

StopConnecting ==
    /\ pc = "connecting"
    /\ shutdown
    /\ Stop(TRUE)
    /\ UNCHANGED <<policyVars, shutdown, sessionVars, tokenVars, delay, streak>>

invalidates_adopted_device_token(e) ==
    /\ e.kind = "gateway"
    /\ e.method = "connect"
    /\ e.code = "AUTH_DEVICE_TOKEN_MISMATCH"

\* Mutant: a rejected token stays adopted.
StillIssued == issued

\* What is left of the adopted token once the Gateway has rejected it.
Dropped == None

\* The adopted token is rejected: forget it and connect again at once with the
\* configured credential, within the same attempt.
TokenRejected(e) ==
    /\ pc = "connecting"
    /\ e.method = "connect"
    /\ auth # Configured
    /\ invalidates_adopted_device_token(e)
    /\ issued' = Dropped
    /\ rejected' = rejected \cup {auth}
    /\ auth' = Configured
    /\ UNCHANGED <<policyVars, pc, shutdown, sessionVars, ready, delay, drained, streak>>

ConnectFails(e) ==
    /\ pc = "connecting"
    /\ e.method = "connect"
    /\ e.kind \notin {"lagged", "not_activated"}
    /\ ~ (auth # Configured /\ invalidates_adopted_device_token(e))
    /\ HandleClientFailure(e)
    /\ UNCHANGED <<shutdown, sessionVars, tokenVars, drained>>

\* Connected, a device token if the Gateway issued one, Ready, and run starts.
ConnectSucceeds(token) ==
    /\ pc = "connecting"
    /\ pc' = "serving"
    /\ Connected
    /\ streak' = 0
    /\ issued' = IF token # None THEN token ELSE issued
    /\ rejected' = rejected \ {token}
    /\ ready' = TRUE
    /\ session' = "live"
    /\ run' = "loop"
    /\ UNCHANGED <<shutdown, failure, busy, auth, delay, drained>>

-----------------------------------------------------------------------------
(* The session and the runtime, as the lifecycle sees them.                *)

HandlerStarts ==
    /\ run = "loop"
    /\ ~busy
    /\ busy' = TRUE
    /\ UNCHANGED <<policyVars, pc, shutdown, session, run, failure, tokenVars, ready,
                   delay, drained, streak>>

\* A handler returns, or the abort of a stopped or dropped run takes effect.
HandlerEnds ==
    /\ busy
    /\ busy' = FALSE
    /\ UNCHANGED <<policyVars, pc, shutdown, session, run, failure, tokenVars, ready,
                   delay, drained, streak>>

\* The transport fails, or the session was asked to close.
SessionEnds ==
    /\ session \in {"live", "closing"}
    /\ session' = "ended"
    /\ UNCHANGED <<policyVars, pc, shutdown, run, failure, busy, tokenVars, ready, delay,
                   drained, streak>>

\* An arm of run fails: cancel and abort the handler tasks, wait for them.
RunStops(f) ==
    /\ run = "loop"
    /\ run' = "stopping"
    /\ failure' = f
    /\ UNCHANGED <<policyVars, pc, shutdown, session, busy, tokenVars, ready, delay, drained,
                   streak>>

\* Mutant: run returns while its tasks are still being aborted.
ReturnsAtOnce == run = "stopping"

\* run closes the session and returns once its tasks are joined.
RunCanReturn == run = "stopping" /\ ~busy

RunReturns ==
    /\ RunCanReturn
    /\ run' = "returned"
    /\ session' = IF session = "live" THEN "closing" ELSE session
    /\ UNCHANGED <<policyVars, pc, shutdown, failure, busy, tokenVars, ready, delay, drained,
                   streak>>

\* The select sees run's result; session.close() is repeated, then the failure
\* is classified.  (run never returns Ok.)
ServeEnds ==
    /\ pc = "serving"
    /\ run = "returned"
    /\ run' = "none"
    /\ session' = "none"
    /\ failure' = None
    /\ IF failure \in RuntimeFailures
       THEN HandleRuntimeFailure
       ELSE HandleClientFailure(failure)
    /\ UNCHANGED <<shutdown, busy, tokenVars, drained>>

-----------------------------------------------------------------------------
(* Shutdown while serving.                                                 *)

\* Disconnected(Shutdown), then close the session and wait for run.
StopServing ==
    /\ pc = "serving"
    /\ shutdown
    /\ pc' = "draining"
    /\ Unready
    /\ session' = IF session = "live" THEN "closing" ELSE session
    /\ UNCHANGED <<policyVars, shutdown, run, failure, busy, tokenVars, delay, drained, streak>>

Drained ==
    /\ pc = "draining"
    /\ run = "returned"
    /\ Stop(TRUE)
    /\ UNCHANGED <<policyVars, shutdown, sessionVars, tokenVars, delay, streak>>

\* Mutant: the timeout's verdict is not looked at.
AlwaysDrained == TRUE

\* timeout(...).is_ok() when the grace period is over.
DrainedInTime == FALSE

\* Mutant: the drain has no timeout.
WaitsForRun == FALSE

\* tokio::time::timeout(self.shutdown_grace, ...) gives up on the drain.
GivesUp == pc = "draining" /\ run # "returned"

\* shutdown_grace is over: run is dropped with whatever it was waiting for.
GraceExpires ==
    /\ GivesUp
    /\ Stop(DrainedInTime)
    /\ run' = "dropped"
    /\ UNCHANGED <<policyVars, shutdown, session, failure, busy, tokenVars, delay, streak>>

-----------------------------------------------------------------------------
(* Backing off.                                                            *)

StopWaiting ==
    /\ pc = "backoff"
    /\ shutdown
    /\ Stop(TRUE)
    /\ UNCHANGED <<policyVars, shutdown, sessionVars, tokenVars, delay, streak>>

\* The delay is over; Connecting, and the factory picks the credential.
DelayElapses ==
    /\ pc = "backoff"
    /\ pc' = "connecting"
    /\ auth' = Credential
    /\ Unready
    /\ delay' = 0
    /\ UNCHANGED <<policyVars, shutdown, sessionVars, issued, rejected, drained, streak>>

\* run_host: the health listener failed; the lifecycle future is dropped.
HealthFails ==
    /\ pc \notin Over
    /\ pc' = "failed"
    /\ run' = IF run \in {"none", "returned"} THEN run ELSE "dropped"
    /\ UNCHANGED <<policyVars, shutdown, session, failure, busy, tokenVars, ready, delay,
                   drained, streak>>

-----------------------------------------------------------------------------
StopArm == StopConnecting \/ StopServing \/ StopWaiting

SessionErrors == {e \in Errors : e.method = "session"}

Next ==
    \/ Signal \/ StopArm
    \/ \E e \in Errors : TokenRejected(e) \/ ConnectFails(e)
    \/ \E token \in Tokens \cup {None} : ConnectSucceeds(token)
    \/ HandlerStarts \/ HandlerEnds \/ SessionEnds
    \/ \E f \in SessionErrors \cup RuntimeFailures : RunStops(f)
    \/ RunReturns \/ ServeEnds
    \/ Drained \/ GraceExpires
    \/ DelayElapses \/ HealthFails

Spec == Init /\ [][Next]_vars

(* tokio's select! polls its arms in random order, so a shutdown that is    *)
(* ready is not passed over for ever; the grace period is a timer.          *)
Fairness ==
    /\ SF_vars(StopArm)
    /\ WF_vars(Drained \/ GraceExpires)

FairSpec == Spec /\ Fairness

-----------------------------------------------------------------------------
(* Properties.                                                             *)

\* Type invariant.
TypeOK ==
    /\ next_delay \in 0 .. DurationMax
    /\ device_token_retry_used \in BOOLEAN
    /\ pc \in {"connecting", "serving", "draining", "backoff"} \cup Over
    /\ shutdown \in BOOLEAN
    /\ session \in {"none", "live", "closing", "ended"}
    /\ run \in {"none", "loop", "stopping", "returned", "dropped"}
    /\ failure \in Errors \cup RuntimeFailures \cup {None}
    /\ busy \in BOOLEAN
    /\ auth \in Tokens \cup {Configured}
    /\ issued \in Tokens \cup {None}
    /\ ready \in BOOLEAN
    /\ delay \in Nat
    /\ drained \in BOOLEAN
    /\ rejected \subseteq Tokens
    /\ streak \in 0 .. MaxStreak

\* "Retiring the current session cancels its active handlers before a later
\* attempt receives work": while the lifecycle waits or connects, no handler task
\* of the last session is alive.
SessionsDoNotOverlap ==
    pc \in {"connecting", "backoff", "paused"} => ~busy

\* Stopped { drained: true } is reported only when no handler task is alive.
DrainedMeansQuiet == pc = "stopped" /\ drained => ~busy

\* A token the Gateway has refused is not presented again, in this or any later
\* attempt, unless the Gateway issues it anew.
RejectedTokenIsForgotten == pc = "connecting" => auth \notin rejected

\* 2^n times the initial delay, up to the maximum.
Exponential[n \in 0 .. MaxStreak] ==
    IF n = 0 THEN InitialDelay ELSE Smaller(2 * Exponential[n - 1], maximum_delay)

\* The bound of streak is large enough: the delay does not grow beyond it.
ASSUME StreakAssumption ==
    Smaller(2 * Exponential[MaxStreak], maximum_delay) = Exponential[MaxStreak]

\* "Deterministic exponential backoff": whatever failures of other kinds come in
\* between, the delay is that of the number of transient failures since the last
\* successful connection.
BackoffIsExponential == next_delay = Exponential[streak]

\* A requested shutdown ends the host, even if connects, sessions and handlers
\* hang for ever.
ShutdownCompletes == shutdown ~> pc \in Over

\* GET /readyz: 200 only while an activated Gateway session is serving the
\* bounded command runtime.  Whatever the transport does unnoticed, a runtime
\* that has begun to stop takes no more work.
ReadyWhileServing == ready /\ pc \notin Over => run = "loop"
=============================================================================
