------------------------------- MODULE MCNode -------------------------------
(***************************************************************************)
(* Node for TLC, with the fairness of its parts and what must end in them. *)
(***************************************************************************)
EXTENDS Node

-----------------------------------------------------------------------------
(* Fairness.                                                               *)

bridgeVars == Bridge!vars
connectVars == Connect!vars
deadlineVars == Deadline!vars
healthVars == Health!vars
runtimeVars == Runtime!vars

\* A woken task is polled; the adapter may take for ever.
BridgeFairness == WF_bridgeVars(part = "bridge" /\ Bridge!BridgeStep("i1"))

\* The deadlines of the dial, the two waits and the write; the Gateway need not
\* answer and the embedding's callback need not return.
ConnectFairness ==
    /\ WF_connectVars(part = "connect" /\ Connect!Dial)
    /\ WF_connectVars(part = "connect" /\ Connect!SendConnect)
    /\ WF_connectVars(part = "connect" /\ Connect!ChallengeTimesOut)
    /\ WF_connectVars(part = "connect" /\ Connect!ResponseTimesOut)

\* Time passes, timers fire and the task is polled; the policy and the handler
\* need not return.
DeadlineFairness ==
    /\ WF_deadlineVars(part = "deadline" /\ Deadline!ResolveTimeout)
    /\ WF_deadlineVars(part = "deadline" /\ Deadline!TimesOut)
    /\ WF_deadlineVars(part = "deadline" /\ Deadline!Tick)

\* tokio's select! picks among its ready arms at random, so that neither accept
\* nor join_next is passed over for ever; the sleep and the read have timers.  A
\* client need not send anything, and the answer need not get through: nothing
\* bounds its write.  (Of the probe that the property is about.)
HealthFairness ==
    /\ WF_healthVars(part = "health" /\ Health!Resume)
    /\ SF_healthVars(part = "health" /\ Health!Accept("c1"))
    /\ SF_healthVars(part = "health" /\ Health!Join("c1"))
    /\ WF_healthVars(part = "health" /\ Health!RequestFails("c1"))

\* Handlers return or run into their deadline, every request ends in a reply, a
\* timeout or a close, and tokio polls every task that can move.
RuntimeFairness ==
    /\ \A d \in Slots :
        /\ WF_runtimeVars(part = "runtime" /\ Runtime!Evaluate(d))
        /\ WF_runtimeVars(part = "runtime" /\ Runtime!Deliver(d))
        /\ WF_runtimeVars(part = "runtime" /\ (Runtime!JoinNext(d) \/ Runtime!JoinFailed(d)))
        /\ WF_runtimeVars(part = "runtime" /\ Runtime!TaskEnds(d))
    /\ WF_runtimeVars(part = "runtime" /\ Runtime!WorkerTakes)
    /\ WF_runtimeVars(part = "runtime" /\ Runtime!Sweep)
    /\ WF_runtimeVars(part = "runtime" /\ Runtime!Stop)

FairSpec ==
    /\ Spec
    /\ BridgeFairness /\ ConnectFairness /\ DeadlineFairness /\ HealthFairness
    /\ RuntimeFairness

-----------------------------------------------------------------------------
(* What must end.                                                          *)

\* Retiring or dropping the channel ends an evaluation, at whatever point of its
\* wait the retirement falls, although the adapter never answers.  connect
\* returns, whatever the Gateway does, unless it waits for the embedding.
\* Whatever policy and handler do, an invocation with a deadline is answered.  A
\* probe that was connected is dropped, given up or answered as far as its write
\* gets, and when it is finished its permit comes back, while other clients keep
\* connecting, stall for ever or flood the listener with errors - unless the
\* listener itself is over (the probes are alike).  Every
\* invocation of the runtime comes to an end, and a run that begins to stop returns:
\* since there are finitely many, the runtime is quiet again and again.
MustEnd ==
    \/ part = "bridge" /\ Bridge!ChannelGone
    \/ part = "connect"
    \/ part = "deadline" /\ Deadline!HasDeadline
    \/ part = "health" /\ (Health!Queued("c1") \/ Health!Finished("c1"))
    \/ part = "runtime"

HasEnded ==
    \/ part = "bridge" /\ Bridge!Over("i1")
    \/ part = "connect" /\ (Connect!Returned \/ Connect!InCallback)
    \/ part = "deadline" /\ Deadline!Answered
    \/ part = "health" /\ (Health!Served("c1") \/ Health!Writing("c1") \/ ~Health!Running)
    \/ part = "runtime" /\ Runtime!Quiet

\* Nothing in these parts waits for ever.
NodeWaitsEnd == MustEnd ~> HasEnded
=============================================================================
