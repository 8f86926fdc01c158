--------------------------- MODULE PrototypeHost ----------------------------
(***************************************************************************)
(* run_connections of the root openclaw-node crate (src/host.rs) with its   *)
(* reconnect policy (src/reconnect.rs): connect, adopt a device token,      *)
(* serve, close, wait, start over; or drain and stop.                       *)
(*                                                                          *)
(* Of the session the host sees its command queue (PrototypeSession): a     *)
(* close waits for room in it, and the session task makes room only when    *)
(* the write it is at ends, which nothing bounds.  Of the runtime it sees   *)
(* that run closes the session before it returns (PrototypeRuntime).        *)
(***************************************************************************)
EXTENDS Naturals, Sequences

CONSTANTS
    Errors,         \* the client errors that may occur, a subset of ClientError
    Hints,          \* retryAfterMs values a Gateway may send
    NoHint,
    Tokens,         \* device tokens a hello may carry
    Configured,     \* the configured credential
    None,           \* no token, no result
    RuntimeFailure, \* RuntimeError::DeliverySaturated or ::ResultTask
    InitialDelay, MaximumDelay,  \* of the reconnect policy
    FixedDelay,     \* the host's own delay of one second
    Capacity,       \* of the command queue: max_in_flight
    MaxStreak       \* bound of the history variable streak

VARIABLES
    pc,         \* where run_connections is
    shutdown,   \* the shutdown future is ready
    auth,       \* credentials.auth
    offered,    \* the credential of the attempt in progress
    latest,     \* history: the last token a hello carried
    run,        \* CommandRuntime::run of this session
    result,     \* what it returns
    queue,      \* the session's command queue
    writer,     \* run_session: loop, writing, closing or ended
    next_delay, \* ReconnectPolicy.next_delay
    delay,      \* the delay being waited for
    drained,    \* what host.stopped reported
    streak      \* history: exponential retries since the last connection

sessionVars == <<queue, writer>>
tokenVars == <<auth, offered, latest>>
vars == <<pc, shutdown, tokenVars, run, result, sessionVars, next_delay, delay, drained, streak>>

Over == {"stopped", "paused"}

-----------------------------------------------------------------------------
(* The reconnect policy.                                                   *)

AuthPauseCodes == {"AUTH_RATE_LIMITED", "AUTH_OTHER"}
ProtocolCodes == {"PROTOCOL_MISMATCH"}

ClientError ==
    [kind : {"configuration", "identity", "protocol", "transport", "timeout", "lagged", "gateway"},
     method : {"connect", "session"},
     code : AuthPauseCodes \cup ProtocolCodes \cup {"PAIRING_REQUIRED", "OTHER"},
     step : {"update_auth", "wait_then_retry", "unset"}, pause_reconnect : {"no", "unset"},
     retry_after : Hints \cup {NoHint}]

is_session_request_error(e) ==
    \/ e.kind \in {"gateway", "timeout"} /\ e.method = "session"
    \/ e.kind = "lagged"

\* Recovery hints come before the code, except for pairing and rate limits.
GatewayPauses(e) ==
    IF e.code = "PAIRING_REQUIRED"
    THEN e.pause_reconnect # "no" /\ e.step # "wait_then_retry"
    ELSE \/ e.code = "AUTH_RATE_LIMITED"
         \/ e.step = "update_auth"
         \/ e.step = "unset" /\ e.code \in AuthPauseCodes \cup ProtocolCodes

classify_pause(e) ==
    \/ e.kind \in {"configuration", "identity", "protocol"}
    \/ e.kind = "gateway" /\ GatewayPauses(e)

\* after_failure: the host offers no stored token.
Action(e) ==
    IF is_session_request_error(e) THEN "KeepSession"
    ELSE IF classify_pause(e) THEN "Pause"
    ELSE IF e.kind = "gateway" /\ e.retry_after # NoHint THEN "RetryHinted" ELSE "RetryAfter"

Smaller(a, b) == IF a <= b THEN a ELSE b

Doubled(d) == Smaller(2 * d, MaximumDelay)

\* Mutant: every retry doubles the delay, a hinted one too.
DelayAfterAny(e) == IF Action(e) \in {"RetryAfter", "RetryHinted"} THEN Doubled(next_delay) ELSE next_delay

\* next_delay after a failure
DelayAfter(e) == IF Action(e) = "RetryAfter" THEN Doubled(next_delay) ELSE next_delay

-----------------------------------------------------------------------------
Init ==
    /\ pc = "connecting"
    /\ shutdown = FALSE
    /\ auth = Configured
    /\ offered = Configured
    /\ latest = Configured
    /\ run = "none"
    /\ result = None
    /\ queue = <<>>
    /\ writer = "ended"
    /\ next_delay = InitialDelay
    /\ delay = 0
    /\ drained = FALSE
    /\ streak = 0

Signal ==
    /\ ~shutdown
    /\ shutdown' = TRUE
    /\ UNCHANGED <<pc, tokenVars, run, result, sessionVars, next_delay, delay, drained, streak>>

WaitFor(d) == pc' = "waiting" /\ delay' = d

\* reconnect_delay, then wait_or_shutdown or the end of the host.
AfterFailure(e) ==
    /\ next_delay' = DelayAfter(e)
    /\ streak' = IF Action(e) = "RetryAfter" THEN Smaller(streak + 1, MaxStreak) ELSE streak
    /\ \/ Action(e) = "Pause" /\ pc' = "paused" /\ UNCHANGED delay
       \/ Action(e) = "KeepSession" /\ WaitFor(FixedDelay)
       \/ Action(e) = "RetryHinted" /\ WaitFor(Smaller(e.retry_after, MaximumDelay))
       \/ Action(e) = "RetryAfter" /\ WaitFor(next_delay)

-----------------------------------------------------------------------------
(* Connecting.                                                             *)

ConnectFails(e) ==
    /\ pc = "connecting"
    /\ e.method = "connect"
    /\ e.kind # "lagged"
    /\ AfterFailure(e)
    /\ UNCHANGED <<shutdown, tokenVars, run, result, sessionVars, drained>>

\* Mutant: only the first token is adopted.
AdoptFirst(token) == IF token = None \/ auth # Configured THEN auth ELSE token

\* adopt_device_token replaces the credential, the configured one included.
adopt_device_token(token) == IF token = None THEN auth ELSE token

\* The policy is reset, a token adopted, readiness set and run started.
ConnectSucceeds(token) ==
    /\ pc = "connecting"
    /\ pc' = "serving"
    /\ auth' = adopt_device_token(token)
    /\ latest' = IF token = None THEN latest ELSE token
    /\ run' = "running"
    /\ queue' = <<>>
    /\ writer' = "loop"
    /\ next_delay' = InitialDelay
    /\ streak' = 0
    /\ UNCHANGED <<shutdown, offered, result, delay, drained>>

-----------------------------------------------------------------------------
(* The session and the runtime, as the host sees them.                     *)

HasRoom == Len(queue) < Capacity

\* A handler's result is queued.  Its permit is no bound: a request that timed out
\* has given its own back and is still in the queue.
QueueResult ==
    /\ run = "running"
    /\ writer # "ended"
    /\ HasRoom
    /\ queue' = Append(queue, "request")
    /\ UNCHANGED <<pc, shutdown, tokenVars, run, result, writer, next_delay, delay, drained, streak>>

Take ==
    /\ writer = "loop"
    /\ queue # <<>>
    /\ queue' = Tail(queue)
    /\ writer' = IF Head(queue) = "close" THEN "closing" ELSE "writing"
    /\ UNCHANGED <<pc, shutdown, tokenVars, run, result, next_delay, delay, drained, streak>>

\* A write ends; or it never does.
WriteEnds ==
    /\ writer = "writing"
    /\ writer' = "loop"
    /\ UNCHANGED <<pc, shutdown, tokenVars, run, result, queue, next_delay, delay, drained, streak>>

\* The transport fails, or the close handshake ends.
SessionEnds ==
    /\ writer \in {"loop", "closing"}
    /\ writer' = "ended"
    /\ queue' = <<>>
    /\ UNCHANGED <<pc, shutdown, tokenVars, run, result, next_delay, delay, drained, streak>>

\* Where the host polls run: in the select, and in graceful once it has closed the
\* session.
Polled == pc \in {"serving", "awaiting"}

\* run fails, and has cancelled, aborted and joined its tasks.
RunFails(r) ==
    /\ run = "running"
    /\ Polled
    /\ run' = "closing"
    /\ result' = r
    /\ UNCHANGED <<pc, shutdown, tokenVars, sessionVars, next_delay, delay, drained, streak>>

\* session.close(): enqueue the command, or find the channel closed.
CanClose == HasRoom \/ writer = "ended"
CloseSession == queue' = IF writer = "ended" THEN queue ELSE Append(queue, "close")

RunReturns ==
    /\ run = "closing"
    /\ Polled
    /\ CanClose
    /\ CloseSession
    /\ run' = "returned"
    /\ UNCHANGED <<pc, shutdown, tokenVars, result, writer, next_delay, delay, drained, streak>>

-----------------------------------------------------------------------------
(* The end of a session.                                                   *)

\* The select sees run's result; readiness is withdrawn.
ServeEnds ==
    /\ pc = "serving"
    /\ run = "returned"
    /\ pc' = "closing"
    /\ UNCHANGED <<shutdown, tokenVars, run, result, sessionVars, next_delay, delay, drained, streak>>

\* session.close().await once more, outside every select; then the failure decides.
HostCloses ==
    /\ pc = "closing"
    /\ CanClose
    /\ CloseSession
    /\ run' = "none"
    /\ result' = None
    /\ IF result = RuntimeFailure
       THEN WaitFor(FixedDelay) /\ UNCHANGED <<next_delay, streak>>
       ELSE AfterFailure(result)
    /\ UNCHANGED <<shutdown, tokenVars, writer, drained>>

-----------------------------------------------------------------------------
(* Shutdown.                                                               *)

Stop(quiet) == pc' = "stopped" /\ drained' = quiet

StopConnecting ==
    /\ pc = "connecting"
    /\ shutdown
    /\ Stop(FALSE)
    /\ UNCHANGED <<shutdown, tokenVars, run, result, sessionVars, next_delay, delay, streak>>

StopWaiting ==
    /\ pc = "waiting"
    /\ shutdown
    /\ Stop(FALSE)
    /\ UNCHANGED <<shutdown, tokenVars, run, result, sessionVars, next_delay, delay, streak>>

\* Withdraw readiness; then graceful: close the session and wait for run.
StopServing ==
    /\ pc = "serving"
    /\ shutdown
    /\ pc' = "draining"
    /\ UNCHANGED <<shutdown, tokenVars, run, result, sessionVars, next_delay, delay, drained, streak>>

DrainCloses ==
    /\ pc = "draining"
    /\ CanClose
    /\ CloseSession
    /\ pc' = "awaiting"
    /\ UNCHANGED <<shutdown, tokenVars, run, result, writer, next_delay, delay, drained, streak>>

\* Mutant: only the session's close is waited for.
DoneOnceClosed == pc = "awaiting"

\* running has completed within the five seconds.
GracefulDone == pc = "awaiting" /\ run = "returned"

Drained ==
    /\ GracefulDone
    /\ Stop(TRUE)
    /\ UNCHANGED <<shutdown, tokenVars, run, result, sessionVars, next_delay, delay, streak>>

\* Mutant: the drain is not bounded.
NeverGivesUp == FALSE

\* tokio::time::timeout(Duration::from_secs(5), graceful)
GivesUp == pc \in {"draining", "awaiting"}

DrainTimesOut ==
    /\ GivesUp
    /\ Stop(FALSE)
    /\ run' = "dropped"
    /\ UNCHANGED <<shutdown, tokenVars, result, sessionVars, next_delay, delay, streak>>

\* The delay is over: the next attempt clones the credentials of this moment.
DelayElapses ==
    /\ pc = "waiting"
    /\ pc' = "connecting"
    /\ offered' = auth
    /\ delay' = 0
    /\ UNCHANGED <<shutdown, auth, latest, run, result, sessionVars, next_delay, drained, streak>>

-----------------------------------------------------------------------------
StopArm == StopConnecting \/ StopWaiting \/ StopServing

SessionErrors == {e \in Errors : e.method = "session"}

Next ==
    \/ Signal \/ StopArm
    \/ \E e \in Errors : ConnectFails(e)
    \/ \E token \in Tokens \cup {None} : ConnectSucceeds(token)
    \/ QueueResult \/ Take \/ WriteEnds \/ SessionEnds
    \/ \E r \in SessionErrors \cup {RuntimeFailure} : RunFails(r)
    \/ RunReturns \/ ServeEnds \/ HostCloses
    \/ DrainCloses \/ Drained \/ DrainTimesOut
    \/ DelayElapses

Spec == Init /\ [][Next]_vars

-----------------------------------------------------------------------------
(* Properties.                                                             *)

\* An attempt offers the credential of the latest hello, whatever failures and
\* sessions without a token came in between.
LatestTokenOffered == pc = "connecting" => offered = latest

\* 2^n times the initial delay, up to the maximum.
Exponential[n \in 0 .. MaxStreak] == IF n = 0 THEN InitialDelay ELSE Doubled(Exponential[n - 1])

\* "retries transient transport failures with bounded backoff": the delay is that
\* of the number of unhinted transient failures since the last connection.
BackoffIsExponential == next_delay = Exponential[streak]

\* drained: true is reported only when run has returned, its handlers gone.
DrainedMeansReturned == pc = "stopped" /\ drained => run = "returned"

\* What the end of the host is about.
ShuttingDown == shutdown
LeftLoop == pc \in Over \cup {"closing"}

-----------------------------------------------------------------------------
(* The inductive invariant.                                                *)

HostInv ==
    /\ auth = latest
    /\ LatestTokenOffered
    /\ drained => pc = "stopped" /\ run = "returned"
    /\ next_delay \in Nat /\ streak \in 0 .. MaxStreak
    /\ BackoffIsExponential
=============================================================================
