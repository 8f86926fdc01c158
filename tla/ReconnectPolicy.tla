--------------------------- MODULE ReconnectPolicy --------------------------
(***************************************************************************)
(* ReconnectPolicy (crates/openclaw-node-host/src/reconnect.rs): what to do *)
(* after a failed connection or a failed session, and the exponential       *)
(* backoff between attempts.                                                *)
(*                                                                          *)
(* A ClientError is abstracted to what the classification looks at: its     *)
(* kind, whether it belongs to the connect request or to a request of an    *)
(* established session, and, for an error the Gateway sent, its detail code  *)
(* and recovery hints.  A duration is a number of time units.               *)
(***************************************************************************)
EXTENDS Naturals

CONSTANTS
    InitialDelay,    \* ReconnectPolicy::new, initial_delay
    MaximumDelay,    \* ReconnectPolicy::new, maximum_delay
    TokenRetryDelay, \* DEVICE_TOKEN_RETRY_DELAY
    DurationMax,     \* Duration::MAX, where checked_mul gives up
    Hints,           \* the retryAfterMs values a Gateway may send
    NoHint

ASSUME DelaysAssumption ==
    /\ InitialDelay \in Nat /\ MaximumDelay \in Nat
    /\ DurationMax \in Nat
    /\ InitialDelay <= DurationMax /\ MaximumDelay <= DurationMax
ASSUME TokenRetryAssumption == TokenRetryDelay \in Nat
ASSUME HintsAssumption == Hints \subseteq Nat /\ NoHint \notin Hints

VARIABLES
    next_delay,              \* the delay of the next exponential retry
    device_token_retry_used  \* the stored-token fallback has been taken

policyVars == <<next_delay, device_token_retry_used>>

-----------------------------------------------------------------------------
(* Errors.                                                                 *)

\* The pausing local kinds, the transient ones and the errors of a request.
Kinds == {"configuration", "identity", "protocol", "transport",
          "lagged", "not_activated", "timeout", "gateway"}

\* AUTH_OTHER stands for the remaining codes of is_auth_pause_code.
AuthPauseCodes == {"AUTH_RATE_LIMITED", "AUTH_TOKEN_MISMATCH",
                   "AUTH_DEVICE_TOKEN_MISMATCH", "AUTH_OTHER"}
ProtocolCodes == {"PROTOCOL_MISMATCH"}
Codes == AuthPauseCodes \cup ProtocolCodes \cup {"PAIRING_REQUIRED", "OTHER"}

RecoverySteps == {"retry_with_device_token", "update_auth", "wait_then_retry"}

ClientError ==
    [kind : Kinds, method : {"connect", "session"}, code : Codes,
     retryable : {"yes", "no", "unset"}, pause_reconnect : {"yes", "no", "unset"},
     step : RecoverySteps \cup {"unset"}, retry_after : Hints \cup {NoHint}]

is_session_request_error(e) ==
    \/ e.kind \in {"gateway", "timeout"} /\ e.method = "session"
    \/ e.kind \in {"lagged", "not_activated"}

gateway_requests_device_token_retry(e) ==
    /\ e.kind = "gateway"
    /\ e.method = "connect"
    /\ e.code = "AUTH_TOKEN_MISMATCH" \/ e.step = "retry_with_device_token"

\* The Gateway's refusals that only an operator can resolve.  Pairing has hints
\* of its own; for the rest an explicit hint comes before the code.
GatewayPauses(e) ==
    IF e.code = "PAIRING_REQUIRED"
    THEN e.pause_reconnect # "no" /\ e.step # "wait_then_retry"
    ELSE \/ e.code \in ProtocolCodes
         \/ e.retryable = "no" \/ e.pause_reconnect = "yes"
         \/ e.code = "AUTH_RATE_LIMITED"
         \/ e.step \notin {"wait_then_retry", "unset"}
         \/ e.step = "unset" /\ e.code \in AuthPauseCodes

classify_pause(e) ==
    \/ e.kind \in {"configuration", "identity", "protocol"}
    \/ e.kind = "gateway" /\ GatewayPauses(e)

-----------------------------------------------------------------------------
(* The policy.                                                             *)

Smaller(a, b) == IF a <= b THEN a ELSE b

\* new: a maximum below the initial delay is raised to it.
maximum_delay == IF MaximumDelay < InitialDelay THEN InitialDelay ELSE MaximumDelay

PolicyInit ==
    /\ next_delay = InitialDelay
    /\ device_token_retry_used = FALSE

\* checked_mul(2), the maximum on overflow, and never above the maximum.
Doubled(d) == IF 2 * d > DurationMax THEN maximum_delay ELSE Smaller(2 * d, maximum_delay)

\* after_failure_with_device_token: which ReconnectAction, in order of precedence.
Action(e, stored) ==
    IF is_session_request_error(e) THEN "KeepSession"
    ELSE IF ~device_token_retry_used /\ stored /\ gateway_requests_device_token_retry(e)
         THEN "RetryWithStoredDeviceToken"
    ELSE IF classify_pause(e) THEN "Pause"
    ELSE IF e.retry_after # NoHint THEN "RetryHinted" ELSE "RetryAfter"

\* ... and its delay.
Delay(e, stored) ==
    IF Action(e, stored) = "RetryWithStoredDeviceToken" THEN TokenRetryDelay
    ELSE IF Action(e, stored) = "RetryHinted" THEN Smaller(e.retry_after, maximum_delay)
    ELSE next_delay

\* ... and what it changes.
AfterFailure(e, stored) ==
    /\ next_delay' = IF Action(e, stored) = "RetryAfter" THEN Doubled(next_delay) ELSE next_delay
    /\ device_token_retry_used' =
          (device_token_retry_used \/ Action(e, stored) = "RetryWithStoredDeviceToken")

\* Mutant: a connection clears the token retry and not the backoff.
ConnectedKeepsDelay ==
    /\ device_token_retry_used' = FALSE
    /\ UNCHANGED next_delay

\* connected
Connected ==
    /\ next_delay' = InitialDelay
    /\ device_token_retry_used' = FALSE
=============================================================================
