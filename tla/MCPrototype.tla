---------------------------- MODULE MCPrototype -----------------------------
(***************************************************************************)
(* Prototype for TLC, with its fairness and its liveness.  The runtime     *)
(* comes twice: with one permit and three invocations of one id, and with  *)
(* two permits and two ids.                                                *)
(***************************************************************************)
EXTENDS Prototype

MCMaxInvocations == [z \in Sizes |-> IF z = "narrow" THEN 3 ELSE 2]
MCRuntimeIds == [z \in Sizes |-> IF z = "narrow" THEN {"a"} ELSE {"a", "b"}]
MCMaxConcurrency == [z \in Sizes |-> IF z = "narrow" THEN 1 ELSE 2]

Plain(kind, method) ==
    [kind |-> kind, method |-> method, code |-> "OTHER", step |-> "unset",
     pause_reconnect |-> "unset", retry_after |-> None]

\* An error of each verdict, at connect and in a session.
MCErrors ==
    {Plain(k, "connect") : k \in {"configuration", "transport", "gateway"}}
    \cup {Plain(k, "session") : k \in {"protocol", "transport", "lagged", "timeout"}}
    \cup {[Plain("gateway", "connect") EXCEPT !.code = "AUTH_OTHER"],
          [Plain("gateway", "connect") EXCEPT !.code = "PAIRING_REQUIRED", !.pause_reconnect = "no"]}
    \cup {[Plain("gateway", "connect") EXCEPT !.retry_after = h] : h \in Hints}

\* The runtime that the fairness and the liveness are about.
Narrow == INSTANCE PrototypeRuntime WITH
    MaxInvocations <- 3, Ids <- {"a"}, MaxConcurrency <- 1, Owners <- {"run", "dispatch"},
    run <- x1, session <- x2, stage <- x3, owner <- x4, id <- x5, table <- x6, tracking <- x7,
    cancelled <- x8, permits <- x9, queue <- x10, worker <- x11, began <- x12, delivered <- x13

-----------------------------------------------------------------------------
(* Fairness.                                                               *)

sessionVars == Session!vars
runtimeVars == Narrow!vars
hostVars == Host!vars

\* Tasks are polled, timers fire and a semaphore is first come, first served; a
\* write may stall for ever and the Gateway may say nothing.
SessionFairness ==
    /\ \A c \in Callers : SF_sessionVars(part = "session" /\ Session!CallerStep(c))
    /\ WF_sessionVars(part = "session" /\ Session!TakeFromCallers)
    /\ WF_sessionVars(part = "session" /\ Session!FailPending)
    /\ WF_sessionVars(part = "session" /\ Session!DropChannels)
    /\ WF_sessionVars(part = "session" /\ Session!NextEventReturns)
    /\ WF_sessionVars(part = "session" /\ Session!NextInvocationReturns)

\* Tasks are scheduled, an aborted task is dropped at its next await, a completion
\* fails once the session is closed.  Handlers need not end.
RuntimeFairness ==
    /\ SF_runtimeVars(part = "narrow" /\ Narrow!RunSees)
    /\ WF_runtimeVars(part = "narrow" /\ Narrow!Stops)
    /\ \A i \in 1 .. 3 :
        /\ WF_runtimeVars(part = "narrow" /\ (Narrow!DispatchClosed(i) \/ Narrow!DispatchLeaves(i)))
        /\ WF_runtimeVars(part = "narrow" /\ Narrow!OverloadEnds(i))
        /\ WF_runtimeVars(part = "narrow" /\ Narrow!CompletionFails(i))

\* select! polls its arms in random order and timers fire; connects, writes and
\* close handshakes may take for ever.
HostFairness ==
    /\ SF_hostVars(part = "host" /\ Host!StopArm)
    /\ WF_hostVars(part = "host" /\ (Host!Drained \/ Host!DrainTimesOut))
    /\ WF_hostVars(part = "host" /\ Host!Take)
    /\ WF_hostVars(part = "host" /\ Host!RunReturns)
    /\ WF_hostVars(part = "host" /\ Host!ServeEnds)
    /\ WF_hostVars(part = "host" /\ Host!HostCloses)

FairSpec == Spec /\ SessionFairness /\ RuntimeFairness /\ HostFairness

-----------------------------------------------------------------------------
(* Liveness.                                                               *)

\* "bounds request timeouts": a request that was queued ends, although the write
\* before it stalls or the Gateway never answers.  (The callers are alike.)
QueuedRequestEnds ==
    (part = "session" /\ Session!Waits("c1")) ~> (part = "session" /\ ~Session!Waits("c1"))

\* A reader of invocations learns that the session is over.  Once the session has
\* closed, run returns and so does every dispatch, though handlers hang; and when
\* run is dropped its handler tasks end.  A
\* shutdown ends the host however connects, handlers and writes hang, unless it is
\* at the close between a failed session and the next attempt.
MustEnd ==
    \/ part = "session" /\ Session!ReaderLeft
    \/ part = "narrow" /\ (Narrow!Closed \/ Narrow!Dropped)
    \/ part = "host" /\ Host!ShuttingDown

HasEnded ==
    \/ part = "session" /\ ~Session!ReaderLeft
    \/ part = "narrow" /\ Narrow!RunOver /\ \A i \in 1 .. 3 : ~Narrow!DispatchLeft(i)
    \/ part = "host" /\ Host!LeftLoop

\* Nothing in the prototype waits for ever once it may no longer go on.
PrototypeWaitsEnd == QueuedRequestEnds /\ (MustEnd ~> HasEnded)
=============================================================================
