------------------------- MODULE InvocationDeadline -------------------------
(***************************************************************************)
(* The deadline of one invocation (crates/openclaw-node-host/src/           *)
(* runtime.rs): the timeouts a runtime is built with, by an embedding, the  *)
(* headless host or a sidecar; resolve_timeout; the admission policy and    *)
(* the handler, each under a timer armed with what is left.                 *)
(*                                                                          *)
(* Time is discrete and a timer fires on time; the scheduling delay before  *)
(* the evaluation starts is any number of ticks.                            *)
(***************************************************************************)
EXTENDS Integers, FiniteSetsExt

CONSTANTS
    Millis,     \* timeouts a configuration or an invocation may name, 0 among them
    Graces,     \* values of result_grace
    HostGrace,  \* DEFAULT_RESULT_GRACE, which the host keeps
    MaxTime,    \* bound of the clock
    NoTimeout   \* timeoutMs omitted; no timer

VARIABLES
    built,      \* the runtime's timeouts
    timeout,    \* NodeInvocation.timeout_ms
    stage,      \* where the evaluation is
    remaining,  \* the timeout the current stage was given
    elapsed,    \* time since received_at
    started     \* elapsed when the current stage began

vars == <<built, timeout, stage, remaining, elapsed, started>>

-----------------------------------------------------------------------------
(* The timeouts of a runtime.                                              *)

nonzero_duration(d) == Max({d, 1})

\* CommandRuntimeBuilder::build
Build(default, max, grace) ==
    [default |-> Min({nonzero_duration(default), nonzero_duration(max)}),
     max |-> nonzero_duration(max), grace |-> grace]

\* HostConfig::validate
HostAccepts(default, max) == default > 0 /\ max > 0 /\ default <= max

\* Mutant: the sidecar checks its timeouts as the host does.
AnyGrace(default, max, grace) == HostAccepts(default, max)

\* validate_configuration
SidecarAccepts(default, max, grace) == HostAccepts(default, max) /\ grace < default

\* The runtimes that an embedding, the host and a sidecar can build.
Runtimes(source) ==
    CASE source = "embedding" ->
            {Build(t[1], t[2], t[3]) : t \in Millis \X Millis \X Graces}
      [] source = "host" ->
            {Build(t[1], t[2], HostGrace) : t \in {t \in Millis \X Millis : HostAccepts(t[1], t[2])}}
      [] source = "sidecar" ->
            {Build(t[1], t[2], t[3]) :
                t \in {t \in Millis \X Millis \X Graces : SidecarAccepts(t[1], t[2], t[3])}}

Sources == {"embedding", "host", "sidecar"}

Init ==
    /\ built \in UNION {{[source |-> s, limits |-> r] : r \in Runtimes(s)} : s \in Sources}
    /\ timeout \in Millis \cup {NoTimeout}
    /\ stage = "waiting"
    /\ remaining = NoTimeout
    /\ elapsed = 0
    /\ started = 0

limits == built.limits

-----------------------------------------------------------------------------
\* saturating_sub
Minus(a, b) == IF a > b THEN a - b ELSE 0

\* Mutant: the handler gets the whole Gateway deadline.
WholeDeadline == IF timeout = NoTimeout THEN limits.default ELSE Min({timeout, limits.max})

\* resolve_timeout's total: the Gateway's deadline less the grace, or the default.
Total ==
    IF timeout = NoTimeout THEN limits.default
    ELSE Minus(Min({timeout, limits.max}), limits.grace)

Enter(where, time) ==
    /\ stage' = where
    /\ remaining' = time
    /\ started' = elapsed
    /\ UNCHANGED <<built, timeout, elapsed>>

Finish(how) ==
    /\ stage' = how
    /\ UNCHANGED <<built, timeout, remaining, elapsed, started>>

\* resolve_timeout: zero asks for no deadline; a deadline that is over is an error.
ResolveTimeout ==
    /\ stage = "waiting"
    /\ \/ timeout = 0 /\ Enter("admission", NoTimeout)
       \/ timeout # 0 /\ Total > elapsed /\ Enter("admission", Total - elapsed)
       \/ timeout # 0 /\ Total <= elapsed /\ Finish("HANDLER_TIMEOUT")

\* What the admission leaves of its timeout.
Deducted == IF remaining = NoTimeout THEN NoTimeout ELSE Minus(remaining, elapsed - started)

\* evaluate_admission is granted.
Admitted ==
    /\ stage = "admission"
    /\ \/ Deducted = 0 /\ Finish("HANDLER_TIMEOUT")
       \/ Deducted # 0 /\ Enter("handler", Deducted)

AdmissionDenied == stage = "admission" /\ Finish("denied")

HandlerReturns == stage = "handler" /\ Finish("returned")

\* Mutant: only the handler runs under a timer.
HandlerTimerOnly == stage = "handler" /\ remaining # NoTimeout /\ elapsed - started >= remaining

\* tokio::time::timeout around the admission and around the handler
TimerFires ==
    /\ stage \in {"admission", "handler"}
    /\ remaining # NoTimeout
    /\ elapsed - started >= remaining

TimesOut == TimerFires /\ Finish("HANDLER_TIMEOUT")

Tick ==
    /\ stage \in {"waiting", "admission", "handler"}
    /\ ~TimerFires
    /\ elapsed < MaxTime
    /\ elapsed' = elapsed + 1
    /\ UNCHANGED <<built, timeout, stage, remaining, started>>

Next ==
    \/ ResolveTimeout \/ Admitted \/ AdmissionDenied \/ HandlerReturns \/ TimesOut \/ Tick

Spec == Init /\ [][Next]_vars

-----------------------------------------------------------------------------
(* Properties.                                                             *)

\* "Time reserved inside a Gateway-provided deadline to deliver the result": as
\* long as the policy or the handler runs, the grace is left of the Gateway's
\* deadline, counted from receipt, however long the evaluation waited and the
\* admission took.
ResultGraceKept ==
    stage \in {"admission", "handler"} /\ timeout \notin {0, NoTimeout} => elapsed + limits.grace <= timeout

\* A sidecar's configuration never makes it refuse an invocation that came with
\* more time than the grace and was evaluated at once.
FreshInvocationRuns ==
    /\ built.source = "sidecar"
    /\ stage = "HANDLER_TIMEOUT"
    /\ elapsed = 0
    => timeout \notin {0, NoTimeout} /\ timeout <= limits.grace

\* What the end of an evaluation is about.
HasDeadline == timeout # 0
Answered == stage \notin {"waiting", "admission", "handler"}

-----------------------------------------------------------------------------
(* The inductive invariant.                                                *)

DeadlineTyped ==
    /\ limits.default \in Nat \ {0} /\ limits.max \in Nat \ {0} /\ limits.grace \in Nat
    /\ timeout \in Nat \cup {NoTimeout}
    /\ elapsed \in Nat /\ started \in Nat /\ started <= elapsed
    /\ remaining \in Nat \cup {NoTimeout}

\* The grace of a sidecar is below its longest timeout.
GraceBelowMax == built.source = "sidecar" => limits.grace < limits.max

\* A timer is armed with time that lies inside the deadline, and fires in time.
TimerInside ==
    stage \in {"admission", "handler"} =>
        /\ timeout = 0 => remaining = NoTimeout
        /\ timeout # 0 => remaining \in Nat \ {0} /\ elapsed <= started + remaining
        /\ timeout \notin {0, NoTimeout} => started + remaining + limits.grace <= timeout

DeadlineInv ==
    DeadlineTyped /\ GraceBelowMax /\ TimerInside /\ FreshInvocationRuns
=============================================================================
