---------------------------- MODULE SidecarBridge ---------------------------
(***************************************************************************)
(* The sidecar runtime bridge at work (sidecar_runtime.rs):                 *)
(* evaluate_sidecar_admission and evaluate_sidecar_invocation, which hand   *)
(* each invocation to the product adapter twice, to admit it and to execute *)
(* it, while the authenticated channel may be retired or dropped.           *)
(*                                                                          *)
(* Retirement is a tokio watch channel: a value and a version.  A waiter    *)
(* loads the value, subscribes (it has seen the current version), borrows   *)
(* the value again and then waits for a version it has not seen.  Each of   *)
(* these is a step, so that a retirement may fall between any two.  What a  *)
(* message says is abstracted to whether it is portable and fits.           *)
(***************************************************************************)
EXTENDS Naturals

CONSTANT Invocations

VARIABLES
    channel,   \* the AuthenticatedSidecarChannel: live, retired or dropped
    retired,   \* the value of its watch channel
    version,   \* the version of its watch channel
    shape,     \* shape[i]: what the bridge's preflight finds in i
    stage,     \* stage[i]: which of the two evaluations i is in
    pc,        \* pc[i]: where that evaluation is
    seen,      \* seen[i]: the version its receiver has seen
    adapter,   \* adapter[i]: the adapter's future
    token,     \* token[i]: i's CancellationToken is cancelled
    elapsed,   \* elapsed[i]: i's deadline has passed
    outcome,   \* outcome[i]: how the evaluation of i ended
    begun      \* history: the channel had not been retired when i's poll began

channelVars == <<channel, retired, version>>
vars == <<channelVars, shape, stage, pc, seen, adapter, token, elapsed, outcome, begun>>

Shapes == {"fits", "nonportable", "large request", "large invoke"}
Stages == {"admit", "invoke"}

\* What the adapter's future may resolve to.
Answers(s) ==
    {"error", "panic", "large"}
        \cup IF s = "admit" THEN {"allow", "deny"} ELSE {"success", "failure", "nonportable"}

AdapterStates == {"none", "working"} \cup UNION {Answers(s) : s \in Stages}

Init ==
    /\ channel = "live"
    /\ retired = FALSE
    /\ version = 0
    /\ shape \in [Invocations -> Shapes]
    /\ stage = [i \in Invocations |-> "admit"]
    /\ pc = [i \in Invocations |-> "start"]
    /\ seen = [i \in Invocations |-> 0]
    /\ adapter = [i \in Invocations |-> "none"]
    /\ token = [i \in Invocations |-> FALSE]
    /\ elapsed = [i \in Invocations |-> FALSE]
    /\ outcome = [i \in Invocations |-> "none"]
    /\ begun = [i \in Invocations |-> TRUE]

-----------------------------------------------------------------------------
(* The channel.                                                            *)

\* Mutant: watch::Sender::send, which does nothing while nobody has subscribed.
Send ==
    LET heard == \E i \in Invocations : pc[i] \in {"subscribed", "waiting", "adapter", "parked"}
    IN  /\ retired' = (heard \/ retired)
        /\ version' = IF heard THEN version + 1 ELSE version

\* send_replace(true) sets the value and the version whoever listens.
SendReplace ==
    /\ retired' = TRUE
    /\ version' = version + 1

Retire ==
    /\ channel = "live"
    /\ channel' = "retired"
    /\ SendReplace
    /\ UNCHANGED <<shape, stage, pc, seen, adapter, token, elapsed, outcome, begun>>

DropChannel ==
    /\ channel # "dropped"
    /\ channel' = "dropped"
    /\ SendReplace
    /\ UNCHANGED <<shape, stage, pc, seen, adapter, token, elapsed, outcome, begun>>

-----------------------------------------------------------------------------
(* The end of an evaluation.                                               *)

\* The future of i is over, with the adapter's future inside it.
Finish(i, how) ==
    /\ pc' = [pc EXCEPT ![i] = "done"]
    /\ outcome' = [outcome EXCEPT ![i] = how]
    /\ UNCHANGED <<channelVars, shape, stage, seen, adapter, elapsed, begun>>

Cancel(i) == token' = [token EXCEPT ![i] = TRUE]

\* Mutant: the retired arm returns its error and no more.
RetiredSilently(i) == Finish(i, "SIDECAR_CHANNEL_RETIRED") /\ UNCHANGED token

\* The channel is retired: cancel the token, return channel_retired().
ChannelRetired(i) == Finish(i, "SIDECAR_CHANNEL_RETIRED") /\ Cancel(i)

\* A refusal of the bridge during admission makes the runtime cancel the token.
Refuse(i, how) ==
    /\ Finish(i, how)
    /\ IF stage[i] = "admit" THEN Cancel(i) ELSE UNCHANGED token

Goto(i, where) ==
    /\ pc' = [pc EXCEPT ![i] = where]
    /\ UNCHANGED <<channelVars, shape, stage, adapter, token, elapsed, outcome>>

-----------------------------------------------------------------------------
(* One evaluation, up to the adapter.                                      *)

Portable(i) == shape[i] # "nonportable"

\* The complete request message, in its own envelope, within max_payload_bytes.
RequestFits(i) ==
    shape[i] \notin {"large request"} \cup IF stage[i] = "invoke" THEN {"large invoke"} ELSE {}

\* The first check of the channel.
Start(i) ==
    /\ pc[i] = "start"
    /\ \/ retired /\ ChannelRetired(i)
       \/ /\ ~retired
          /\ Goto(i, "preflight")
          /\ begun' = [begun EXCEPT ![i] = TRUE]
          /\ UNCHANGED seen

\* The request is checked and the adapter is called; its future is not polled yet.
Preflight(i) ==
    /\ pc[i] = "preflight"
    /\ \/ ~Portable(i) /\ Refuse(i, "SIDECAR_NON_PORTABLE_JSON")
       \/ Portable(i) /\ ~RequestFits(i) /\ Refuse(i, "SIDECAR_MESSAGE_TOO_LARGE")
       \/ /\ Portable(i)
          /\ RequestFits(i)
          /\ adapter' = [adapter EXCEPT ![i] = "working"]
          /\ pc' = [pc EXCEPT ![i] = "select"]
          /\ UNCHANGED <<channelVars, shape, stage, seen, token, elapsed, outcome, begun>>

-----------------------------------------------------------------------------
(* The biased select: retired() is polled before the adapter's future.     *)

\* retired() loads the value.
LoadRetired(i) ==
    /\ pc[i] = "select"
    /\ \/ retired /\ ChannelRetired(i)
       \/ ~retired /\ Goto(i, "subscribe") /\ UNCHANGED <<seen, begun>>

\* Mutant: a new receiver goes straight to changed().
SubscribeOnly(i) ==
    /\ seen' = [seen EXCEPT ![i] = version]
    /\ Goto(i, "waiting")

\* subscribe(): the new receiver has seen the version of this moment.
SubscribeNow(i) ==
    /\ seen' = [seen EXCEPT ![i] = version]
    /\ Goto(i, "subscribed")

Subscribe(i) ==
    /\ pc[i] = "subscribe"
    /\ SubscribeNow(i)
    /\ UNCHANGED begun

\* borrow_and_update()
Borrow(i) ==
    /\ pc[i] = "subscribed"
    /\ \/ retired /\ ChannelRetired(i)
       \/ /\ ~retired
          /\ seen' = [seen EXCEPT ![i] = version]
          /\ Goto(i, "waiting")
          /\ UNCHANGED begun

\* Mutant: the adapter's future is polled first when the task is woken.
AdapterFirst(i) == Goto(i, "adapter")

\* changed() is polled: with a new version borrow again, else poll the adapter.
PollChanged(i) == Goto(i, IF version # seen[i] THEN "subscribed" ELSE "adapter")

Changed(i) ==
    /\ pc[i] = "waiting"
    /\ PollChanged(i)
    /\ UNCHANGED <<seen, begun>>

\* The admission is granted: the deadline and the token are checked once more,
\* then the registered handler is called, which is the second evaluation.
Admitted(i) ==
    \/ elapsed[i] /\ Finish(i, "HANDLER_TIMEOUT") /\ Cancel(i)
    \/ ~elapsed[i] /\ token[i] /\ Finish(i, "INVOCATION_CANCELLED") /\ UNCHANGED token
    \/ /\ ~elapsed[i]
       /\ ~token[i]
       /\ stage' = [stage EXCEPT ![i] = "invoke"]
       /\ pc' = [pc EXCEPT ![i] = "start"]
       /\ adapter' = [adapter EXCEPT ![i] = "none"]
       /\ UNCHANGED <<channelVars, shape, seen, token, elapsed, outcome, begun>>

\* The adapter's future is ready: errors become denials or failures, the answer
\* must be portable and fit.  A denial cancels the token (evaluate_tracked), and
\* so does a panic.
UseAnswer(i) ==
    /\ pc[i] = "adapter"
    /\ \/ adapter[i] \in {"success", "failure"} /\ Finish(i, adapter[i]) /\ UNCHANGED token
       \/ adapter[i] = "deny" /\ Refuse(i, "deny")
       \/ adapter[i] = "error" /\ Refuse(i, "SIDECAR_ADAPTER")
       \/ adapter[i] = "large" /\ Refuse(i, "SIDECAR_MESSAGE_TOO_LARGE")
       \/ adapter[i] = "nonportable" /\ Refuse(i, "SIDECAR_NON_PORTABLE_JSON")
       \/ adapter[i] = "panic" /\ Finish(i, "panic") /\ Cancel(i)
       \/ adapter[i] = "allow" /\ Admitted(i)

\* Everything is pending: the deadline is looked at last, then the task is parked.
Park(i) ==
    /\ pc[i] = "adapter"
    /\ adapter[i] = "working"
    /\ \/ elapsed[i] /\ Finish(i, "HANDLER_TIMEOUT") /\ Cancel(i)
       \/ ~elapsed[i] /\ Goto(i, "parked") /\ UNCHANGED <<seen, begun>>

\* A waker fires and the select is polled again, retired() first.
Wake(i) ==
    /\ pc[i] = "parked"
    /\ version # seen[i] \/ adapter[i] # "working" \/ elapsed[i]
    /\ ~ (stage[i] = "admit" /\ token[i])
    /\ PollChanged(i)
    /\ begun' = [begun EXCEPT ![i] = (channel = "live")]
    /\ UNCHANGED seen

\* evaluate_admission waits for the token as well, and before the policy: the
\* admission is dropped.  (The handler is not dropped: it observes the token.)
CancelledDuringAdmission(i) ==
    /\ stage[i] = "admit"
    /\ pc[i] \in {"start", "parked"}
    /\ token[i]
    /\ Finish(i, "INVOCATION_CANCELLED")
    /\ UNCHANGED token

-----------------------------------------------------------------------------
(* The adapter, the Gateway and time.                                      *)

AdapterAnswers(i) ==
    /\ pc[i] # "done"
    /\ adapter[i] = "working"
    /\ \E a \in Answers(stage[i]) : adapter' = [adapter EXCEPT ![i] = a]
    /\ UNCHANGED <<channelVars, shape, stage, pc, seen, token, elapsed, outcome, begun>>

\* node.invoke.cancel
GatewayCancels(i) ==
    /\ pc[i] # "done"
    /\ ~token[i]
    /\ Cancel(i)
    /\ UNCHANGED <<channelVars, shape, stage, pc, seen, adapter, elapsed, outcome, begun>>

DeadlinePasses(i) ==
    /\ pc[i] # "done"
    /\ ~elapsed[i]
    /\ elapsed' = [elapsed EXCEPT ![i] = TRUE]
    /\ UNCHANGED <<channelVars, shape, stage, pc, seen, adapter, token, outcome, begun>>

\* The node session ended: tokens are cancelled, then the tasks are aborted.
Abort(i) ==
    /\ pc[i] \in {"start", "parked"}
    /\ Finish(i, "aborted")
    /\ Cancel(i)

BridgeStep(i) ==
    \/ Start(i) \/ Preflight(i) \/ LoadRetired(i) \/ Subscribe(i) \/ Borrow(i)
    \/ Changed(i) \/ UseAnswer(i) \/ Park(i) \/ Wake(i) \/ CancelledDuringAdmission(i)

Next ==
    \/ Retire \/ DropChannel
    \/ \E i \in Invocations : BridgeStep(i)
    \/ \E i \in Invocations : AdapterAnswers(i)
    \/ \E i \in Invocations : GatewayCancels(i)
    \/ \E i \in Invocations : DeadlinePasses(i)
    \/ \E i \in Invocations : Abort(i)

Spec == Init /\ [][Next]_vars

-----------------------------------------------------------------------------
(* Properties.                                                             *)

\* Type invariant; the watch value is never behind the channel.
TypeOK ==
    /\ channel \in {"live", "retired", "dropped"}
    /\ version \in 0 .. 2
    /\ retired \in BOOLEAN
    /\ retired <=> channel # "live"
    /\ retired <=> version > 0
    /\ shape \in [Invocations -> Shapes]
    /\ stage \in [Invocations -> Stages]
    /\ pc \in [Invocations -> {"start", "preflight", "select", "subscribe", "subscribed",
                               "waiting", "adapter", "parked", "done"}]
    /\ seen \in [Invocations -> 0 .. version]
    /\ adapter \in [Invocations -> AdapterStates]
    /\ token \in [Invocations -> BOOLEAN]
    /\ elapsed \in [Invocations -> BOOLEAN]
    /\ begun \in [Invocations -> BOOLEAN]

\* No native result or grant passes a dead channel: the adapter's answer is used
\* only in a poll that began while the channel was live, however long the answer
\* had been ready.
NoLateAnswer ==
    \A i \in Invocations :
        (pc[i] = "adapter" /\ adapter[i] # "working" /\ pc'[i] # "adapter") => begun[i]

\* Native work is never orphaned: when the bridge gives up on an adapter that is
\* still working - retirement, timeout, cancellation or disconnect - the adapter's
\* token is cancelled, so that it can stop.
AbandonedWorkIsCancelled ==
    \A i \in Invocations : pc[i] = "done" /\ adapter[i] = "working" => token[i]

\* What the end of an evaluation is about.
ChannelGone == channel # "live"
Over(i) == pc[i] = "done"

-----------------------------------------------------------------------------
(* The inductive invariant.                                                *)

\* The channel is retired once and dropped once.
VersionsCounted == channel = "retired" => version = 1

\* A poll goes past the check of the channel only while it is live, and a parked
\* receiver has seen no retirement.
PollsLive ==
    \A i \in Invocations :
        /\ pc[i] \in {"waiting", "adapter", "parked"} => seen[i] = 0
        /\ pc[i] \in {"preflight", "select", "subscribe", "waiting", "adapter", "parked"} =>
              begun[i]
        /\ pc[i] = "subscribed" /\ ~begun[i] => retired

\* The adapter is called once the request was checked.
CalledAfterCheck == \A i \in Invocations : pc[i] \in {"start", "preflight"} => adapter[i] = "none"

BridgeInv ==
    TypeOK /\ VersionsCounted /\ PollsLive /\ CalledAfterCheck /\ AbandonedWorkIsCancelled
=============================================================================
