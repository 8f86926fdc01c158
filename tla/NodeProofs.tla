----------------------------- MODULE NodeProofs -----------------------------
(***************************************************************************)
(* Proofs about the parts of Node: for any number of invocations, clients, *)
(* commands, nonces and permits, any timeouts and any bounds.  The         *)
(* inductive invariant of a part stands at the end of its module.          *)
(***************************************************************************)
EXTENDS Node, Sequences, FiniteSetTheorems, TLAPS

-----------------------------------------------------------------------------
(* The sidecar bridge.                                                     *)

\* What the adapter's future may be.
LEMMA BridgeAdapterStates ==
    /\ "none" \in Bridge!AdapterStates /\ "working" \in Bridge!AdapterStates
    /\ \A s \in Bridge!Stages : Bridge!Answers(s) \subseteq Bridge!AdapterStates
    BY DEF Bridge!AdapterStates

\* The bridge starts in its invariant.
LEMMA BridgeInit ==
    ASSUME Bridge!Init
    PROVE  Bridge!BridgeInv
<1> USE DEF Bridge!Init
<1>1. Bridge!TypeOK
  <2>1. x1 \in {"live", "retired", "dropped"} /\ x3 \in 0 .. 2
    OBVIOUS
  <2>2. x2 \in BOOLEAN
    BY Zenon
  <2>3. (x2 <=> x1 # "live") /\ (x2 <=> x3 > 0)
    OBVIOUS
  <2>4. x4 \in [Invocations -> Bridge!Shapes] /\ x5 \in [Invocations -> Bridge!Stages]
    BY DEF Bridge!Stages
  <2>5. x6 \in [Invocations -> {"start", "preflight", "select", "subscribe", "subscribed",
                                "waiting", "adapter", "parked", "done"}]
    OBVIOUS
  <2>6. x7 \in [Invocations -> 0 .. x3] /\ x8 \in [Invocations -> Bridge!AdapterStates]
    BY BridgeAdapterStates
  <2>7. /\ x9 \in [Invocations -> BOOLEAN] /\ x10 \in [Invocations -> BOOLEAN]
        /\ x12 \in [Invocations -> BOOLEAN]
    OBVIOUS
  <2> QED
    BY <2>1, <2>2, <2>3, <2>4, <2>5, <2>6, <2>7, Zenon DEF Bridge!TypeOK
<1>2. /\ Bridge!VersionsCounted /\ Bridge!PollsLive /\ Bridge!CalledAfterCheck
      /\ Bridge!AbandonedWorkIsCancelled
    BY DEF Bridge!VersionsCounted, Bridge!PollsLive, Bridge!CalledAfterCheck,
           Bridge!AbandonedWorkIsCancelled
<1> QED
    BY <1>1, <1>2 DEF Bridge!BridgeInv

\* What a step of the bridge has to keep.
BridgeKept == Bridge!BridgeInv' /\ Bridge!NoLateAnswer

\* An evaluation may end at any point if its token is cancelled.
LEMMA BridgeCancels ==
    ASSUME Bridge!BridgeInv, NEW i \in Invocations, NEW how,
           Bridge!Finish(i, how), Bridge!Cancel(i)
    PROVE  BridgeKept
<1> USE DEF Bridge!BridgeInv, Bridge!channelVars, Bridge!Finish, Bridge!Cancel, Bridge!TypeOK
<1>1. Bridge!TypeOK'
    OBVIOUS
<1>2. Bridge!VersionsCounted'
    BY DEF Bridge!VersionsCounted
<1>3. Bridge!PollsLive'
    BY DEF Bridge!PollsLive
<1>4. Bridge!CalledAfterCheck'
    BY DEF Bridge!CalledAfterCheck
<1>5. Bridge!AbandonedWorkIsCancelled'
    BY DEF Bridge!AbandonedWorkIsCancelled
<1>6. Bridge!NoLateAnswer
    BY DEF Bridge!NoLateAnswer, Bridge!PollsLive
<1> QED
    BY <1>1, <1>2, <1>3, <1>4, <1>5, <1>6 DEF BridgeKept

\* It may end without that if the adapter is not at work.
LEMMA BridgeEnds ==
    ASSUME Bridge!BridgeInv, NEW i \in Invocations, NEW how,
           Bridge!Finish(i, how), UNCHANGED x9, x8[i] # "working" \/ x9[i]
    PROVE  BridgeKept
<1> USE DEF Bridge!BridgeInv, Bridge!channelVars, Bridge!Finish, Bridge!TypeOK
<1>1. Bridge!TypeOK'
    OBVIOUS
<1>2. Bridge!VersionsCounted'
    BY DEF Bridge!VersionsCounted
<1>3. Bridge!PollsLive'
    BY DEF Bridge!PollsLive
<1>4. Bridge!CalledAfterCheck'
    BY DEF Bridge!CalledAfterCheck
<1>5. Bridge!AbandonedWorkIsCancelled'
    BY DEF Bridge!AbandonedWorkIsCancelled
<1>6. Bridge!NoLateAnswer
    BY DEF Bridge!NoLateAnswer, Bridge!PollsLive
<1> QED
    BY <1>1, <1>2, <1>3, <1>4, <1>5, <1>6 DEF BridgeKept

\* Every step of the bridge keeps its invariant, and uses an answer of the adapter
\* only in a poll that began on a live channel.
LEMMA BridgeNext ==
    ASSUME Bridge!BridgeInv, Bridge!Next
    PROVE  BridgeKept
<1> USE DEF Bridge!BridgeInv, Bridge!TypeOK, Bridge!VersionsCounted, Bridge!PollsLive,
            Bridge!CalledAfterCheck, Bridge!AbandonedWorkIsCancelled, Bridge!NoLateAnswer,
            Bridge!channelVars, BridgeKept
<1>1. ASSUME Bridge!Retire PROVE BridgeKept
    BY <1>1 DEF Bridge!Retire, Bridge!SendReplace
<1>2. ASSUME Bridge!DropChannel PROVE BridgeKept
    BY <1>2 DEF Bridge!DropChannel, Bridge!SendReplace
<1>3. ASSUME NEW i \in Invocations, Bridge!Start(i) PROVE BridgeKept
  <2>1. ASSUME Bridge!ChannelRetired(i) PROVE BridgeKept
    BY <2>1, BridgeCancels DEF Bridge!ChannelRetired
  <2>2. ASSUME ~Bridge!ChannelRetired(i) PROVE BridgeKept
    <3>1. x12' = [x12 EXCEPT ![i] = TRUE] /\ x12 \in [Invocations -> BOOLEAN]
      BY <1>3, <2>2, Zenon DEF Bridge!Start
    <3>2. x12' \in [Invocations -> BOOLEAN]
      BY <3>1
    <3>3. Bridge!TypeOK'
      BY <1>3, <2>2, <3>2 DEF Bridge!Start, Bridge!Goto
    <3>4. BridgeKept
      <4> HIDE DEF Bridge!TypeOK
      <4> QED
        BY <1>3, <2>2, <3>1, <3>3 DEF Bridge!Start, Bridge!Goto, Bridge!TypeOK
    <3> QED
      BY <3>4
  <2> QED
    BY <2>1, <2>2
<1>4. ASSUME NEW i \in Invocations, Bridge!Preflight(i) PROVE BridgeKept
  <2>1. ASSUME NEW how, Bridge!Refuse(i, how) PROVE BridgeKept
    BY <1>4, <2>1, BridgeCancels, BridgeEnds DEF Bridge!Preflight, Bridge!Refuse
  <2>2. ASSUME \A how : ~Bridge!Refuse(i, how) PROVE BridgeKept
    BY <1>4, <2>2, BridgeAdapterStates DEF Bridge!Preflight
  <2> QED
    BY <2>1, <2>2
<1>5. ASSUME NEW i \in Invocations, Bridge!LoadRetired(i) PROVE BridgeKept
  <2>1. ASSUME Bridge!ChannelRetired(i) PROVE BridgeKept
    BY <2>1, BridgeCancels DEF Bridge!ChannelRetired
  <2>2. ASSUME ~Bridge!ChannelRetired(i) PROVE BridgeKept
    BY <1>5, <2>2 DEF Bridge!LoadRetired, Bridge!Goto
  <2> QED
    BY <2>1, <2>2
<1>6. ASSUME NEW i \in Invocations, Bridge!Subscribe(i) PROVE BridgeKept
    BY <1>6 DEF Bridge!Subscribe, Bridge!SubscribeNow, Bridge!Goto
<1>7. ASSUME NEW i \in Invocations, Bridge!Borrow(i) PROVE BridgeKept
  <2>1. ASSUME Bridge!ChannelRetired(i) PROVE BridgeKept
    BY <2>1, BridgeCancels DEF Bridge!ChannelRetired
  <2>2. ASSUME ~Bridge!ChannelRetired(i) PROVE BridgeKept
    BY <1>7, <2>2 DEF Bridge!Borrow, Bridge!Goto
  <2> QED
    BY <2>1, <2>2
<1>8. ASSUME NEW i \in Invocations, Bridge!Changed(i) PROVE BridgeKept
    BY <1>8 DEF Bridge!Changed, Bridge!PollChanged, Bridge!Goto
<1>9. ASSUME NEW i \in Invocations, Bridge!UseAnswer(i) PROVE BridgeKept
  <2>1. ASSUME NEW how, Bridge!Finish(i, how), Bridge!Cancel(i) PROVE BridgeKept
    BY <2>1, BridgeCancels
  <2>2. ASSUME NEW how, Bridge!Finish(i, how), UNCHANGED x9, x8[i] # "working"
        PROVE  BridgeKept
    BY <2>2, BridgeEnds
  <2>3. ASSUME \A how : ~Bridge!Finish(i, how) PROVE BridgeKept
    BY <1>9, <2>3, BridgeAdapterStates
       DEF Bridge!UseAnswer, Bridge!Refuse, Bridge!Admitted, Bridge!Stages
  <2> HIDE DEF Bridge!BridgeInv, Bridge!TypeOK, Bridge!VersionsCounted, Bridge!PollsLive,
            Bridge!CalledAfterCheck, Bridge!AbandonedWorkIsCancelled, Bridge!NoLateAnswer,
            Bridge!channelVars, BridgeKept
  <2> QED
    BY <1>9, <2>1, <2>2, <2>3 DEF Bridge!UseAnswer, Bridge!Refuse, Bridge!Admitted
<1>10. ASSUME NEW i \in Invocations, Bridge!Park(i) PROVE BridgeKept
  <2>1. ASSUME NEW how, Bridge!Finish(i, how), Bridge!Cancel(i) PROVE BridgeKept
    BY <2>1, BridgeCancels
  <2>2. ASSUME Bridge!Goto(i, "parked") PROVE BridgeKept
    BY <1>10, <2>2 DEF Bridge!Park, Bridge!Goto, Bridge!Finish
  <2> QED
    BY <1>10, <2>1, <2>2 DEF Bridge!Park
<1>11. ASSUME NEW i \in Invocations, Bridge!Wake(i) PROVE BridgeKept
    BY <1>11 DEF Bridge!Wake, Bridge!PollChanged, Bridge!Goto
<1>12. ASSUME NEW i \in Invocations, Bridge!CancelledDuringAdmission(i) PROVE BridgeKept
    BY <1>12 DEF Bridge!CancelledDuringAdmission, Bridge!Finish
<1>13. ASSUME NEW i \in Invocations, Bridge!AdapterAnswers(i) PROVE BridgeKept
    BY <1>13, BridgeAdapterStates DEF Bridge!AdapterAnswers
<1>14. ASSUME NEW i \in Invocations, Bridge!GatewayCancels(i) PROVE BridgeKept
    BY <1>14 DEF Bridge!GatewayCancels, Bridge!Cancel
<1>15. ASSUME NEW i \in Invocations, Bridge!DeadlinePasses(i) PROVE BridgeKept
    BY <1>15 DEF Bridge!DeadlinePasses
<1>16. ASSUME NEW i \in Invocations, Bridge!Abort(i) PROVE BridgeKept
    BY <1>16, BridgeCancels DEF Bridge!Abort
<1> HIDE DEF Bridge!BridgeInv, Bridge!TypeOK, Bridge!VersionsCounted, Bridge!PollsLive,
            Bridge!CalledAfterCheck, Bridge!AbandonedWorkIsCancelled, Bridge!NoLateAnswer,
            Bridge!channelVars, BridgeKept
<1> QED
    BY <1>1, <1>2, <1>3, <1>4, <1>5, <1>6, <1>7, <1>8, <1>9, <1>10, <1>11, <1>12, <1>13, <1>14,
       <1>15, <1>16 DEF Bridge!Next, Bridge!BridgeStep

-----------------------------------------------------------------------------
(* connect.                                                                *)

\* connect starts with no connection, no request and no session.
LEMMA ConnectInit ==
    ASSUME Connect!Init
    PROVE  Connect!ConnectInv
    BY DEF Connect!Init, Connect!ConnectInv, Connect!OneEach, Connect!Places,
           Connect!MadeTogether, Connect!Downgraded

\* Every step of connect keeps its places in order and its request whole.
LEMMA ConnectStep ==
    ASSUME Connect!ConnectInv, Connect!Next
    PROVE  Connect!ConnectInv'
<1> USE DEF Connect!ConnectInv, Connect!OneEach, Connect!Places, Connect!MadeTogether,
            Connect!Downgraded, Connect!connectionVars, Connect!protocol
<1>1. CASE Connect!Dial
    BY <1>1 DEF Connect!Dial, Connect!Goto, Connect!Fail
<1>2. CASE Connect!GatewayChallenges
    BY <1>2 DEF Connect!GatewayChallenges
<1>3. CASE Connect!TakeChallenge
    BY <1>3 DEF Connect!TakeChallenge, Connect!Goto
<1>4. CASE Connect!WaitFails("challenge")
    BY <1>4 DEF Connect!WaitFails, Connect!Fail
<1>5. CASE Connect!WaitFails("response")
    BY <1>5 DEF Connect!WaitFails, Connect!Fail
<1>6. CASE Connect!MakeParams
  <2>1. PICK o \in Connect!Options :
           /\ x7' = Connect!Envelope(o, x5, Connect!protocol)
           /\ x6' = Connect!Surface(o, Connect!protocol)
    BY <1>6 DEF Connect!MakeParams, Connect!StoredSurface
  <2>2. x7'.protocol = Connect!protocol
    BY <2>1 DEF Connect!Envelope
  <2> QED
    BY <1>6, <2>1, <2>2 DEF Connect!MakeParams, Connect!Goto, Connect!V3, Connect!V4
<1>7. CASE Connect!MakeParamsFails
    BY <1>7 DEF Connect!MakeParamsFails, Connect!Fail
<1>8. CASE Connect!SendConnect
    BY <1>8 DEF Connect!SendConnect, Connect!Goto, Connect!Fail
<1>9. CASE Connect!Accepted
    BY <1>9 DEF Connect!Accepted, Connect!Goto, Connect!Fail
<1>10. CASE Connect!Refused
    BY <1>10 DEF Connect!Refused, Connect!MayFallBack, Connect!is_expected_protocol_mismatch,
                 Connect!Goto, Connect!Fail
<1> HIDE DEF Connect!ConnectInv, Connect!OneEach, Connect!Places, Connect!MadeTogether,
            Connect!Downgraded, Connect!connectionVars, Connect!protocol
<1> QED
    BY <1>1, <1>2, <1>3, <1>4, <1>5, <1>6, <1>7, <1>8, <1>9, <1>10 DEF Connect!Next

\* The invariant of connect says what its properties say.
LEMMA ConnectSound ==
    ASSUME Connect!ConnectInv
    PROVE  /\ Connect!ProofMatchesRequest /\ Connect!SessionMatchesRequest
           /\ Connect!NoUnaskedDowngrade /\ Connect!AtMostTwoConnections
<1> USE DEF Connect!ConnectInv, Connect!MadeTogether
<1>1. Connect!ProofMatchesRequest
  <2> SUFFICES ASSUME x1 \in {"send", "response", "connected"},
                      x7.proof \notin {None, Connect!ForeignProof}
               PROVE  x7.proof = [nonce |-> x4,
                                  platform |-> Connect!normalize_metadata(x7.platform),
                                  device_family |-> Connect!normalize_metadata(x7.device_family),
                                  token |-> Connect!signature_token(x7.auth)]
    BY DEF Connect!ProofMatchesRequest
  <2>1. PICK o \in Connect!Options : x7 = Connect!Envelope(o, x4, Connect!protocol)
    OBVIOUS
  <2> DEFINE fitted == Connect!for_protocol(o, Connect!protocol)
  <2>2. /\ x7.platform = fitted.platform /\ x7.device_family = fitted.device_family
        /\ x7.auth = o.auth
        /\ x7.proof = CASE o.signer = "library" -> Connect!SignedByLibrary(x4, fitted)
                        [] o.signer = "external" ->
                               Connect!ExternalProof(x4, o, Connect!protocol)
                        [] o.signer = "foreign" -> Connect!ForeignProof
                        [] OTHER -> None
    BY <2>1 DEF Connect!Envelope
  <2>3. fitted.auth = o.auth
    BY DEF Connect!for_protocol, Connect!Options
  <2>4. Connect!SignedByLibrary(x4, fitted)
          = Connect!Payload(x4, fitted.platform, fitted.device_family, o.auth)
    BY <2>3 DEF Connect!SignedByLibrary
  <2>5. Connect!ExternalProof(x4, o, Connect!protocol)
          = Connect!Payload(x4, fitted.platform, fitted.device_family, o.auth)
    BY DEF Connect!ExternalProof, Connect!identity_metadata, Connect!for_protocol,
           Connect!Options
  <2>6. o.signer \in {"library", "external", "foreign", "nobody"}
    BY DEF Connect!Options
  <2>7. x7.proof = Connect!Payload(x4, fitted.platform, fitted.device_family, o.auth)
    BY <2>2, <2>4, <2>5, <2>6
  <2> HIDE DEF fitted
  <2> QED
    BY <2>2, <2>7 DEF Connect!Payload
<1>2. Connect!SessionMatchesRequest
    BY DEF Connect!SessionMatchesRequest, Connect!Envelope, Connect!Surface, Connect!Advertised
<1>3. Connect!NoUnaskedDowngrade
    BY NoRefusalAssumption DEF Connect!NoUnaskedDowngrade, Connect!Downgraded
<1>4. Connect!AtMostTwoConnections
    BY DEF Connect!AtMostTwoConnections, Connect!OneEach
<1> QED
    BY <1>1, <1>2, <1>3, <1>4

-----------------------------------------------------------------------------
(* Events and results.                                                     *)

\* Whatever error a handler returns becomes a result that is taken.
LEMMA FailureIsValid ==
    /\ \A e \in Events!Errors : Events!ResultValid(Events!handler_failure(e))
    /\ \A e \in Events!Errors : Events!adapter_failure(e) \in Events!Errors
    /\ Events!ResultValid(Events!Success)
<1>1. ASSUME NEW e \in Events!Errors PROVE Events!ResultValid(Events!handler_failure(e))
    BY DEF Events!Errors, Events!Texts, Events!ResultValid, Events!handler_failure
<1>2. ASSUME NEW e \in Events!Errors PROVE Events!adapter_failure(e) \in Events!Errors
    BY DEF Events!Errors, Events!Texts, Events!adapter_failure
<1>3. Events!ResultValid(Events!Success)
    BY DEF Events!ResultValid, Events!Success
<1> QED
    BY <1>1, <1>2, <1>3

\* So no step of the session ends run with an invalid result.
LEMMA EventsNext ==
    ASSUME Events!HandlersCannotEndRun, Events!Next
    PROVE  Events!HandlersCannotEndRun'
<1> USE DEF Events!HandlersCannotEndRun
<1>1. ASSUME NEW i \in EventIds, NEW r, Events!ResultValid(r), Events!Complete(i, r)
      PROVE  Events!HandlersCannotEndRun'
    BY <1>1 DEF Events!Complete
<1>2. ASSUME NEW i \in EventIds,
             \/ Events!HandlerSucceeds(i) \/ Events!HandlerFails(i)
             \/ Events!AdapterFails(i) \/ Events!AdapterRefuses(i)
      PROVE  Events!HandlersCannotEndRun'
    BY <1>1, <1>2, FailureIsValid
       DEF Events!HandlerSucceeds, Events!HandlerFails, Events!AdapterFails,
           Events!AdapterRefuses
<1>3. CASE Events!NotActivated
    BY <1>3 DEF Events!NotActivated, Events!Stop
<1>4. ASSUME NEW e \in Events!Requests, Events!TakeRequest(e)
      PROVE  Events!HandlersCannotEndRun'
    BY <1>4 DEF Events!TakeRequest, Events!Stop
<1>5. ASSUME NEW e \in Events!Inputs, Events!TakeInput(e) PROVE Events!HandlersCannotEndRun'
    BY <1>5 DEF Events!TakeInput, Events!Stop
<1>6. ASSUME NEW e \in Events!Cancels, Events!TakeCancel(e) PROVE Events!HandlersCannotEndRun'
    BY <1>6 DEF Events!TakeCancel, Events!Stop
<1>7. ASSUME NEW e \in Events!Others, Events!SkipOther(e) PROVE Events!HandlersCannotEndRun'
    BY <1>7 DEF Events!SkipOther
<1>8. CASE Events!SessionFails
    BY <1>8 DEF Events!SessionFails, Events!Stop
<1> HIDE DEF Events!HandlersCannotEndRun
<1> QED
    BY <1>2, <1>3, <1>4, <1>5, <1>6, <1>7, <1>8 DEF Events!Next

-----------------------------------------------------------------------------
(* Deadlines.                                                              *)

\* The larger and the smaller of two durations.
LEMMA TwoDurations ==
    ASSUME NEW a \in Nat, NEW b \in Nat
    PROVE  /\ Deadline!Max({a, b}) = IF a >= b THEN a ELSE b
           /\ Deadline!Min({a, b}) = IF a <= b THEN a ELSE b
    BY DEF Deadline!Max, Deadline!Min

\* What a runtime is built with, whoever builds it.
LEMMA BuiltLimits ==
    ASSUME NEW s \in Deadline!Sources, NEW r \in Deadline!Runtimes(s)
    PROVE  /\ r.default \in Nat \ {0} /\ r.max \in Nat \ {0} /\ r.grace \in Nat
           /\ s = "sidecar" => r.grace < r.max
<1> USE MillisAssumption
<1>1. ASSUME NEW d \in Nat, NEW m \in Nat, NEW g \in Nat, NEW b, b = Deadline!Build(d, m, g)
      PROVE  b.default \in Nat \ {0} /\ b.max \in Nat \ {0} /\ b.grace = g /\ b.max >= m
  <2>1. /\ Deadline!nonzero_duration(d) \in Nat \ {0} /\ Deadline!nonzero_duration(m) \in Nat \ {0}
        /\ Deadline!nonzero_duration(m) >= m
    BY TwoDurations DEF Deadline!nonzero_duration
  <2>2. Deadline!Min({Deadline!nonzero_duration(d), Deadline!nonzero_duration(m)}) \in Nat \ {0}
    BY <2>1, TwoDurations
  <2> QED
    BY <1>1, <2>1, <2>2 DEF Deadline!Build
<1>2. CASE s = "embedding"
    BY <1>1, <1>2 DEF Deadline!Runtimes
<1>3. CASE s = "host"
    BY <1>1, <1>3 DEF Deadline!Runtimes
<1>4. CASE s = "sidecar"
  <2>1. PICK t \in Millis \X Millis \X Graces :
           r = Deadline!Build(t[1], t[2], t[3]) /\ Deadline!SidecarAccepts(t[1], t[2], t[3])
    BY <1>4 DEF Deadline!Runtimes
  <2>2. PICK d \in Nat, m \in Nat, g \in Nat :
           r = Deadline!Build(d, m, g) /\ Deadline!SidecarAccepts(d, m, g)
    <3>1. t[1] \in Nat /\ t[2] \in Nat /\ t[3] \in Nat
      BY <2>1
    <3> QED
      BY <2>1, <3>1, Zenon
  <2>3. r.default \in Nat \ {0} /\ r.max \in Nat \ {0} /\ r.grace = g /\ r.max >= m
    <3> DEFINE b == Deadline!Build(d, m, g)
    <3>1. b.default \in Nat \ {0} /\ b.max \in Nat \ {0} /\ b.grace = g /\ b.max >= m
      BY <1>1
    <3> QED
      BY <2>2, <3>1
  <2>4. g < m
    BY <2>2 DEF Deadline!SidecarAccepts, Deadline!HostAccepts
  <2> QED
    BY <2>3, <2>4
<1> QED
    BY <1>2, <1>3, <1>4 DEF Deadline!Sources

\* An invocation arrives with nothing elapsed and no timer armed.
LEMMA DeadlineInit ==
    ASSUME Deadline!Init
    PROVE  Deadline!DeadlineInv
<1>0. PICK s \in Deadline!Sources : x1 \in {[source |-> s, limits |-> r] : r \in Deadline!Runtimes(s)}
    BY DEF Deadline!Init
<1>1. PICK r \in Deadline!Runtimes(s) : x1 = [source |-> s, limits |-> r]
    BY <1>0
<1>2. x1.source = s /\ Deadline!limits = r
    BY <1>1 DEF Deadline!limits
<1> QED
    BY <1>2, BuiltLimits, MillisAssumption
       DEF Deadline!Init, Deadline!DeadlineInv, Deadline!DeadlineTyped, Deadline!GraceBelowMax,
           Deadline!TimerInside, Deadline!FreshInvocationRuns

\* Every step keeps the timer inside the deadline.
LEMMA DeadlineNext ==
    ASSUME Deadline!DeadlineInv, Deadline!Next
    PROVE  Deadline!DeadlineInv'
<1> USE NoTimeoutAssumption
    DEF Deadline!DeadlineInv, Deadline!DeadlineTyped, Deadline!GraceBelowMax,
        Deadline!TimerInside, Deadline!FreshInvocationRuns, Deadline!limits
<1>1. CASE Deadline!ResolveTimeout
  <2> DEFINE max == Deadline!limits.max
             grace == Deadline!limits.grace
  <2>1. x2 = None => Deadline!Total = Deadline!limits.default
    BY DEF Deadline!Total
  <2>2. ASSUME NEW t \in Nat, NEW m \in Nat, NEW g \in Nat,
               NEW d, d = Deadline!Minus(Deadline!Min({t, m}), g)
        PROVE  /\ d \in Nat
               /\ d > 0 => d + g <= t
               /\ d = 0 => t <= g \/ m <= g
    <3>1. Deadline!Min({t, m}) = IF t <= m THEN t ELSE m
      BY TwoDurations
    <3> QED
      BY <2>2, <3>1 DEF Deadline!Minus
  <2>3. ASSUME x2 # None
        PROVE  /\ Deadline!Total \in Nat
               /\ Deadline!Total > 0 => Deadline!Total + grace <= x2
               /\ Deadline!Total = 0 => x2 <= grace \/ max <= grace
    <3>1. Deadline!Total = Deadline!Minus(Deadline!Min({x2, max}), grace)
      BY <2>3 DEF Deadline!Total
    <3>2. x2 \in Nat /\ max \in Nat /\ grace \in Nat
      BY <2>3
    <3> HIDE DEF max, grace
    <3> QED
      BY <2>2, <3>1, <3>2, Zenon
  <2> QED
    BY <1>1, <2>1, <2>3 DEF Deadline!ResolveTimeout, Deadline!Enter, Deadline!Finish
<1>2. CASE Deadline!Admitted
    BY <1>2 DEF Deadline!Admitted, Deadline!Deducted, Deadline!Minus, Deadline!Enter,
                Deadline!Finish
<1>3. CASE Deadline!AdmissionDenied \/ Deadline!HandlerReturns
    BY <1>3 DEF Deadline!AdmissionDenied, Deadline!HandlerReturns, Deadline!Finish
<1>4. CASE Deadline!TimesOut
    BY <1>4 DEF Deadline!TimesOut, Deadline!TimerFires, Deadline!Finish
<1>5. CASE Deadline!Tick
    BY <1>5 DEF Deadline!Tick, Deadline!TimerFires
<1> HIDE DEF Deadline!DeadlineInv
<1> QED
    BY <1>1, <1>2, <1>3, <1>4, <1>5 DEF Deadline!Next

\* The timer inside the deadline keeps the grace.
LEMMA DeadlineSound ==
    ASSUME Deadline!DeadlineInv
    PROVE  Deadline!ResultGraceKept /\ Deadline!FreshInvocationRuns
    BY NoTimeoutAssumption
       DEF Deadline!DeadlineInv, Deadline!DeadlineTyped, Deadline!TimerInside,
           Deadline!ResultGraceKept

-----------------------------------------------------------------------------
(* The health listener.                                                    *)

\* HealthServer counts as everybody does.
LEMMA HealthCounts == \A S : Health!Cardinality(S) = Cardinality(S)
    BY DEF Health!Cardinality, Cardinality

\* The permits: one task more or less is one permit less or more.
LEMMA HealthTasks ==
    ASSUME NEW S \in SUBSET Clients, NEW c \in Clients
    PROVE  /\ Health!Cardinality(S) \in Nat
           /\ c \notin S => Health!Cardinality(S \cup {c}) = Health!Cardinality(S) + 1
           /\ c \in S => Health!Cardinality(S) = Health!Cardinality(S \ {c}) + 1
<1>1. IsFiniteSet(S) /\ IsFiniteSet(S \ {c})
    BY HealthAssumption, FS_Subset
<1>2. Cardinality(S) \in Nat
    BY <1>1, FS_CardinalityType
<1>3. c \notin S => Cardinality(S \cup {c}) = Cardinality(S) + 1
    BY <1>1, FS_AddElement
<1>4. c \in S => Cardinality(S) = Cardinality(S \ {c}) + 1
  <2>1. ASSUME c \in S PROVE (S \ {c}) \cup {c} = S
    BY <2>1
  <2> QED
    BY <1>1, <2>1, FS_AddElement
<1> QED
    BY <1>2, <1>3, <1>4, HealthCounts

\* The listener starts with all its permits and no errors.
LEMMA HealthInit ==
    ASSUME Health!Init
    PROVE  Health!HealthInv
<1> USE HealthAssumption DEF Health!Init
<1>1. Health!HealthTyped
    BY DEF Health!HealthTyped
<1>2. Health!Tasks = {}
    BY DEF Health!Tasks
<1>3. Health!Cardinality({}) = 0
    BY FS_EmptySet, HealthCounts
<1>4. Health!PermitsCounted
    BY <1>2, <1>3 DEF Health!PermitsCounted
<1>5. Health!RowCounted
    BY DEF Health!RowCounted, Health!Running
<1> QED
    BY <1>1, <1>4, <1>5 DEF Health!HealthInv

\* One result of accept more: a row of errors grows by an error, and ends.
LEMMA HealthRow ==
    ASSUME NEW r \in Seq({"ok", "error"}), NEW n \in Nat, n <= Len(r), Len(r) <= MaxErrors,
           \A k \in 1 .. Len(r) : k > Len(r) - n => r[k] = "error",
           NEW w \in {"ok", "error"}, NEW q,
           q = IF Len(r) = MaxErrors THEN Append(Tail(r), w) ELSE Append(r, w)
    PROVE  /\ q \in Seq({"ok", "error"}) /\ Len(q) \in 1 .. MaxErrors
           /\ (w = "error" /\ n < MaxErrors) =>
                 n + 1 <= Len(q) /\ \A k \in 1 .. Len(q) : k > Len(q) - (n + 1) => q[k] = "error"
<1> USE HealthAssumption
<1>1. CASE Len(r) = MaxErrors
  <2>1. Tail(r) \in Seq({"ok", "error"}) /\ Len(Tail(r)) = Len(r) - 1
        /\ \A k \in 1 .. Len(r) - 1 : Tail(r)[k] = r[k + 1]
    BY <1>1
  <2>2. Len(q) = Len(r) /\ q[Len(q)] = w /\ \A k \in 1 .. Len(q) - 1 : q[k] = r[k + 1]
    BY <1>1, <2>1
  <2> QED
    BY <1>1, <2>1, <2>2
<1>2. CASE Len(r) # MaxErrors
  <2>1. Len(q) = Len(r) + 1 /\ q[Len(q)] = w /\ \A k \in 1 .. Len(r) : q[k] = r[k]
    BY <1>2
  <2> QED
    BY <1>2, <2>1
<1> QED
    BY <1>1, <1>2

\* Every step of the listener and its clients keeps the permits and the row.
LEMMA HealthNext ==
    ASSUME Health!HealthInv, Health!Next
    PROVE  Health!HealthInv'
<1>0. Health!HealthTyped /\ Health!PermitsCounted /\ Health!RowCounted
    BY DEF Health!HealthInv
<1>a. Health!Tasks \in SUBSET Clients
    BY DEF Health!Tasks
<1> USE HealthAssumption DEF Health!HealthTyped
<1>1. ASSUME NEW c \in Clients, Health!Accept(c) PROVE Health!HealthInv'
  <2>1. /\ x5' \in Seq({"ok", "error"}) /\ Len(x5') \in 1 .. MaxErrors
        /\ x2' = 0 /\ x1' = x1 /\ x1 = "select"
    BY <1>0, <1>1, HealthRow
       DEF Health!Accept, Health!Remember, Health!ResetErrors, Health!RowCounted
  <2>2. Health!RowCounted'
    BY <2>1 DEF Health!RowCounted, Health!Running
  <2>3. CASE Health!HasPermit
    <3>1. /\ Health!Tasks' = Health!Tasks \cup {c} /\ c \notin Health!Tasks
          /\ x3 \in Nat \ {0} /\ x3' = x3 - 1
      BY <1>0, <1>1, <2>3 DEF Health!Accept, Health!HasPermit, Health!Tasks
    <3>2. Health!Cardinality(Health!Tasks') = Health!Cardinality(Health!Tasks) + 1
      BY <1>a, <3>1, HealthTasks
    <3>3. Health!PermitsCounted'
      BY <1>0, <1>a, <3>1, <3>2, HealthTasks DEF Health!PermitsCounted
    <3> QED
      BY <1>0, <1>1, <2>1, <2>2, <3>1, <3>3 DEF Health!Accept, Health!HealthInv
  <2>4. CASE ~Health!HasPermit
    <3>1. Health!Tasks' = Health!Tasks /\ x3' = x3
      BY <1>0, <1>1, <2>4 DEF Health!Accept, Health!Tasks
    <3> QED
      BY <1>0, <1>1, <2>1, <2>2, <2>4, <3>1
         DEF Health!Accept, Health!HealthInv, Health!PermitsCounted
  <2> QED
    BY <2>3, <2>4
<1>2. CASE Health!AcceptFails
  <2>1. Health!Tasks' = Health!Tasks /\ x3' = x3 /\ x4' = x4 /\ x2' = x2 + 1
    BY <1>2 DEF Health!AcceptFails, Health!Tasks
  <2>2. /\ x5' \in Seq({"ok", "error"}) /\ Len(x5') \in 1 .. MaxErrors
        /\ x2 + 1 <= Len(x5')
        /\ \A k \in 1 .. Len(x5') : k > Len(x5') - (x2 + 1) => x5'[k] = "error"
    BY <1>0, <1>2, HealthRow
       DEF Health!AcceptFails, Health!Remember, Health!RowCounted, Health!Running
  <2>3. Health!RowCounted'
    BY <1>0, <1>2, <2>1, <2>2 DEF Health!AcceptFails, Health!RowCounted, Health!Running
  <2> QED
    BY <1>0, <1>2, <2>1, <2>2, <2>3 DEF Health!AcceptFails, Health!HealthInv, Health!PermitsCounted
<1>3. CASE Health!Resume
    BY <1>0, <1>3
       DEF Health!Resume, Health!HealthInv, Health!PermitsCounted, Health!Tasks,
           Health!RowCounted, Health!Running
<1>4. ASSUME NEW c \in Clients, Health!Join(c) PROVE Health!HealthInv'
  <2>1. Health!Tasks' = Health!Tasks \ {c} /\ c \in Health!Tasks /\ x3' = x3 + 1
    BY <1>0, <1>4 DEF Health!Join, Health!Tasks
  <2>2. Health!Cardinality(Health!Tasks) = Health!Cardinality(Health!Tasks') + 1
    BY <1>a, <2>1, HealthTasks
  <2>3. Health!Cardinality(Health!Tasks') \in Nat
    BY <1>a, <2>1, HealthTasks
  <2>4. Health!PermitsCounted'
    BY <1>0, <2>1, <2>2, <2>3 DEF Health!PermitsCounted
  <2> QED
    BY <1>0, <1>4, <2>1, <2>4 DEF Health!Join, Health!HealthInv, Health!RowCounted, Health!Running
<1>5. ASSUME NEW c \in Clients,
             \/ Health!Respond(c) \/ Health!Written(c)
             \/ Health!RequestFails(c) \/ Health!Connect(c)
      PROVE  Health!HealthInv'
  <2>1. Health!Tasks' = Health!Tasks
    BY <1>0, <1>5
       DEF Health!Respond, Health!Written, Health!RequestFails, Health!GivesUp, Health!Connect,
           Health!Tasks
  <2> QED
    BY <1>0, <1>5, <2>1
       DEF Health!Respond, Health!Written, Health!RequestFails, Health!Connect, Health!HealthInv,
           Health!PermitsCounted, Health!RowCounted, Health!Running
<1>6. CASE Health!HostEnds
  <2>1. Health!Tasks' = {}
    BY <1>0, <1>6 DEF Health!HostEnds, Health!Tasks
  <2>2. Health!Cardinality({}) = 0
    BY FS_EmptySet, HealthCounts
  <2>3. Health!PermitsCounted'
    BY <1>6, <2>1, <2>2 DEF Health!HostEnds, Health!PermitsCounted
  <2> QED
    BY <1>0, <1>6, <2>3 DEF Health!HostEnds, Health!HealthInv, Health!RowCounted, Health!Running
<1> QED
    BY <1>1, <1>2, <1>3, <1>4, <1>5, <1>6 DEF Health!Next

\* The invariant of the listener says what its properties say.
LEMMA HealthSound ==
    ASSUME Health!HealthInv
    PROVE  Health!HealthTasksBounded /\ Health!GivesUpOnlyAfterRow
<1>1. Health!Tasks \in SUBSET Clients
    BY DEF Health!Tasks
<1>2. Health!Cardinality(Health!Tasks) \in Nat
    BY <1>1, HealthTasks
<1>3. Health!HealthTasksBounded
    BY <1>2, HealthAssumption
       DEF Health!HealthInv, Health!HealthTyped, Health!PermitsCounted, Health!HealthTasksBounded
<1>4. Health!GivesUpOnlyAfterRow
    BY HealthAssumption
       DEF Health!HealthInv, Health!HealthTyped, Health!RowCounted, Health!GivesUpOnlyAfterRow
<1> QED
    BY <1>3, <1>4

-----------------------------------------------------------------------------
(* Registrations.                                                          *)

\* Trimming once is enough, and what validate_names lets through is trimmed.
LEMMA TrimmedNames ==
    \A n \in Registration!Names :
        /\ Registration!trim(n) \in Registration!Names
        /\ Registration!trim(Registration!trim(n)) = Registration!trim(n)
    BY DEF Registration!Names, Registration!trim

\* A configuration is a sequence of names, checked by nobody yet.
LEMMA RegistrationInit ==
    ASSUME Registration!Init
    PROVE  Registration!RegistrationInv
<1>1. x2 \in Seq(Registration!Names)
    BY BoundsAssumption DEF Registration!Init, Registration!SeqOf
<1> QED
    BY <1>1
       DEF Registration!Init, Registration!RegistrationInv, Registration!Configured,
           Registration!Checked, Registration!Serves, Registration!AcceptedConfigurationBuilds

\* The check of the host and the check of the sidecar imply the builder's.
LEMMA CheckedBuilds ==
    ASSUME Registration!Configured,
           \/ x1 = "host" /\ Registration!HostAccepts(x2[1])
           \/ x1 = "sidecar" /\ Registration!SidecarAccepts(x2)
    PROVE  Registration!Buildable /\ Registration!Trimmed = x2
<1> USE DEF Registration!Configured, Registration!ToSet, Registration!IsInjective,
            Registration!HasDuplicates
<1>1. ASSUME NEW i \in 1 .. Len(x2)
      PROVE  x2[i] # "" /\ ~Registration!Reserved(x2[i]) /\ Registration!trim(x2[i]) = x2[i]
  <2> DEFINE n == x2[i]
  <2>0. n \in Registration!ToSet(x2)
    OBVIOUS
  <2> HIDE DEF Registration!ToSet
  <2>1. CASE x1 = "host" /\ Registration!HostAccepts(x2[1])
    <3>0. x1 = "host" /\ Len(x2) = 1
      BY <2>1
    <3>1. i = 1
      BY <3>0
    <3>2. Registration!HostAccepts(n)
      BY <2>1, <3>1
    <3> HIDE DEF n
    <3>3. n # "" /\ ~Registration!Reserved(n) /\ Registration!trim(n) = n
      BY <3>2 DEF Registration!HostAccepts, Registration!Reserved
    <3> QED
      BY <3>3 DEF n
  <2>2. CASE x1 = "sidecar" /\ Registration!SidecarAccepts(x2)
    <3> HIDE DEF n
    <3>1. n # "" /\ ~Registration!Reserved(n) /\ Registration!trim(n) = n
      BY <2>0, <2>2 DEF Registration!SidecarAccepts, Registration!Blank, Registration!Reserved
    <3> QED
      BY <3>1 DEF n
  <2> QED
    BY <2>1, <2>2
<1>2. Registration!Trimmed = x2
  <2>1. DOMAIN x2 = 1 .. Len(x2) /\ x2 = [i \in DOMAIN x2 |-> x2[i]]
    OBVIOUS
  <2> QED
    BY <1>1, <2>1 DEF Registration!Trimmed
<1>3. ~Registration!HasDuplicates(x2)
  <2>1. CASE x1 = "host"
    BY <2>1
  <2>2. CASE x1 = "sidecar" /\ Registration!SidecarAccepts(x2)
    BY <2>2 DEF Registration!SidecarAccepts
  <2> QED
    BY <2>1, <2>2
<1>4. \A n \in Registration!ToSet(x2) : n # "" /\ ~Registration!Reserved(n)
  <2>1. ASSUME NEW n \in Registration!ToSet(x2) PROVE n # "" /\ ~Registration!Reserved(n)
    <3>1. PICK i \in 1 .. Len(x2) : n = x2[i]
      OBVIOUS
    <3> QED
      BY <1>1, <3>1 DEF Registration!Reserved
  <2> QED
    BY <2>1
<1> HIDE DEF Registration!HasDuplicates, Registration!ToSet
<1> QED
    BY <1>2, <1>3, <1>4 DEF Registration!Buildable

\* Every step from the configuration to the session keeps what was checked.
LEMMA RegistrationNext ==
    ASSUME Registration!RegistrationInv, Registration!Next
    PROVE  Registration!RegistrationInv'
<1> USE DEF Registration!RegistrationInv, Registration!Configured, Registration!Checked,
            Registration!Serves, Registration!AcceptedConfigurationBuilds
<1>1. CASE Registration!Accept
    BY <1>1 DEF Registration!Accept
<1>2. CASE Registration!Refuse
    BY <1>2 DEF Registration!Refuse
<1>3. CASE Registration!Build
  <2>1. x4 = "accepted" /\ x1' = x1 /\ x2' = x2 /\ x3' = x3 /\ x6' = x6
    BY <1>3 DEF Registration!Build
  <2>2. CASE Registration!Buildable
    <3>1. Registration!Trimmed' = Registration!Trimmed
      BY <2>1 DEF Registration!Trimmed
    <3>2. Registration!Buildable'
      BY <2>2, <3>1 DEF Registration!Buildable
    <3>3. x4' = "built" /\ x5' = Registration!ToSet(Registration!Trimmed)
      BY <1>3, <2>2 DEF Registration!Build
    <3> QED
      BY <2>1, <3>1, <3>2, <3>3
  <2>3. CASE ~Registration!Buildable
    <3>1. x1 = "embedding"
      BY <2>1, <2>3, CheckedBuilds
    <3>2. x4' = "RuntimeBuildError"
      BY <1>3, <2>3 DEF Registration!Build
    <3> QED
      BY <2>1, <3>1, <3>2
  <2> QED
    BY <2>2, <2>3
<1>4. CASE Registration!Activate
    BY <1>4 DEF Registration!Activate, Registration!Buildable, Registration!Trimmed
<1> HIDE DEF Registration!RegistrationInv
<1> QED
    BY <1>1, <1>2, <1>3, <1>4 DEF Registration!Next

\* What was built from trimmed names serves exactly what was configured.
LEMMA RegistrationSound ==
    ASSUME Registration!RegistrationInv
    PROVE  Registration!AcceptedConfigurationBuilds /\ Registration!SurfaceIsExact
<1>1. Registration!AcceptedConfigurationBuilds
    BY DEF Registration!RegistrationInv
<1>2. ASSUME x4 = "activated" PROVE Registration!SurfaceIsExact
  <2>1. /\ Registration!Buildable /\ x5 = Registration!ToSet(Registration!Trimmed)
        /\ x6 = x3 \cup x5 /\ x2 \in Seq(Registration!Names)
    BY <1>2 DEF Registration!RegistrationInv, Registration!Serves, Registration!Configured
  <2>2. \A c : Registration!Resolve(c) = "handler" <=> c \in x5
    BY <2>1 DEF Registration!Resolve
  <2>3. \A c : Registration!Resolve(c) = "COMMAND_NOT_FOUND" => c \in x3
    BY <2>1 DEF Registration!Resolve
  <2>4. \A c \in x5 : ~Registration!Reserved(c) /\ Registration!trim(c) = c
    <3>1. \A c \in x5 : ~Registration!Reserved(c)
      BY <2>1 DEF Registration!Buildable, Registration!Reserved
    <3>2. \A c \in x5 : \E n \in Registration!Names : c = Registration!trim(n)
      BY <2>1 DEF Registration!Trimmed, Registration!ToSet
    <3> QED
      BY <3>1, <3>2, TrimmedNames DEF Registration!Reserved
  <2>5. x1 = "sidecar" =>
           {c \in Registration!Names : Registration!Resolve(c) = "handler"} = Registration!ToSet(x2)
    <3>1. ASSUME x1 = "sidecar" PROVE x5 = Registration!ToSet(x2)
      BY <1>2, <2>1, <3>1, CheckedBuilds
         DEF Registration!RegistrationInv, Registration!Configured, Registration!Checked
    <3>2. Registration!ToSet(x2) \subseteq Registration!Names
      BY <2>1 DEF Registration!ToSet
    <3> QED
      BY <2>2, <3>1, <3>2
  <2> QED
    BY <1>2, <2>2, <2>3, <2>4, <2>5 DEF Registration!SurfaceIsExact
<1>3. ASSUME x4 # "activated" PROVE Registration!SurfaceIsExact
    BY <1>3 DEF Registration!SurfaceIsExact
<1> QED
    BY <1>1, <1>2, <1>3

-----------------------------------------------------------------------------
(* Progress.                                                               *)

\* An invocation starts with nothing sent.
LEMMA ProgressInit ==
    ASSUME Progress!Init
    PROVE  Progress!ProgressInv
<1> USE DEF Progress!Init
<1>1. Progress!TypeOK
  <2>1. x4 \in BOOLEAN /\ x5 \in BOOLEAN
    BY Zenon
  <2>2. /\ x1 \in [Progress!Senders -> {"idle", "waiting", "requesting", "sent", "gone"}]
        /\ x2 \in Progress!Senders \cup {"free"} /\ x2 \notin Progress!Senders
    BY DEF Progress!Senders
  <2>3. /\ x3 \in Nat /\ x6 \in Progress!Phases
        /\ x7 \in Seq([kind : {"progress", "result"}, by : Progress!Senders, seq : Nat])
    BY DEF Progress!Phases
  <2> QED
    BY <2>1, <2>2, <2>3, Zenon DEF Progress!TypeOK
<1>2. Progress!Exclusive /\ Progress!SendersOver
    BY DEF Progress!Exclusive, Progress!SendersOver, Progress!Senders
<1>3. Progress!ResultAtEnd /\ Progress!ResultEndsOutput /\ Progress!Numbered
      /\ Progress!ProgressOrdered
    BY DEF Progress!ResultAtEnd, Progress!ResultEndsOutput, Progress!Numbered,
           Progress!ProgressOrdered, Progress!Senders
<1> QED
    BY <1>1, <1>2, <1>3 DEF Progress!ProgressInv

\* A step that hands nothing over keeps what is said of the frames, if it does not
\* bring anybody into a request after the result.
LEMMA NothingHandedOver ==
    ASSUME Progress!ProgressInv, x7' = x7, x3' = x3,
           \A s \in Progress!Senders :
               /\ x1'[s] = "sent" => x1[s] = "sent"
               /\ x1'[s] = "requesting" =>
                     x1[s] = "requesting" \/ x6 \notin {"done", "over"},
           x6 \in {"done", "over"} => x6' = x6
    PROVE  /\ Progress!ResultAtEnd' /\ Progress!ResultEndsOutput'
           /\ Progress!Numbered' /\ Progress!ProgressOrdered'
<1> USE DEF Progress!ProgressInv, Progress!IsFrame
<1>1. Progress!ResultAtEnd' /\ Progress!ResultEndsOutput'
    BY DEF Progress!ResultAtEnd, Progress!ResultEndsOutput
<1>2. Progress!Numbered' /\ Progress!ProgressOrdered'
    BY DEF Progress!Numbered, Progress!ProgressOrdered
<1> QED
    BY <1>1, <1>2

\* What was handed over is numbered.
LEMMA FramesNumbered ==
    ASSUME NEW S, NEW w \in Seq([kind : {"progress", "result"}, by : S, seq : Nat]),
           NEW i \in 1 .. Len(w)
    PROVE  w[i].seq \in Nat
<1> DEFINE T == [kind : {"progress", "result"}, by : S, seq : Nat]
<1>1. w \in Seq(T)
    OBVIOUS
<1> HIDE DEF T
<1>2. w[i] \in T
    BY <1>1
<1> QED
    BY <1>2 DEF T

\* The session is handed one more frame, with the current number.
LEMMA FrameHandedOver ==
    ASSUME Progress!ProgressInv, NEW s \in Progress!Senders, Progress!HandOver(s)
    PROVE  Progress!ProgressInv'
<1>n. PICK n \in Nat : n = Len(x7)
  <2>1. x7 \in Seq([kind : {"progress", "result"}, by : Progress!Senders, seq : Nat])
    BY DEF Progress!ProgressInv, Progress!TypeOK
  <2>2. Len(x7) \in Nat
    BY <2>1
  <2> QED
    BY <2>2
<1>1. /\ x7' = Append(x7, Progress!Frame(s, x3)) /\ x1' = [x1 EXCEPT ![s] = "sent"]
      /\ x1[s] = "requesting" /\ Progress!Alive(s)
      /\ x2' = x2 /\ x3' = x3 /\ x4' = x4 /\ x5' = x5 /\ x6' = x6
    BY DEF Progress!HandOver
<1>2. /\ Progress!TypeOK /\ Progress!Exclusive /\ Progress!SendersOver /\ Progress!ResultAtEnd
      /\ Progress!ResultEndsOutput /\ Progress!Numbered /\ Progress!ProgressOrdered
    BY DEF Progress!ProgressInv
<1>3. x2 = s
    BY <1>1, <1>2 DEF Progress!Exclusive
<1>4. /\ x7 \in Seq([kind : {"progress", "result"}, by : Progress!Senders, seq : Nat])
      /\ x3 \in Nat /\ n \in Nat
      /\ Progress!Frame(s, x3) \in [kind : {"progress", "result"}, by : Progress!Senders, seq : Nat]
    BY <1>2 DEF Progress!TypeOK, Progress!Frame
<1>5. /\ x7' \in Seq([kind : {"progress", "result"}, by : Progress!Senders, seq : Nat])
      /\ Len(x7') = n + 1
      /\ \A i \in 1 .. n : x7'[i] = x7[i]
      /\ x7'[n + 1].kind = "progress" /\ x7'[n + 1].by = s /\ x7'[n + 1].seq = x3
    BY <1>n, <1>1, <1>4 DEF Progress!Frame
<1>6. Progress!TypeOK'
    BY <1>1, <1>2, <1>3, <1>5 DEF Progress!TypeOK
<1>7. Progress!Exclusive' /\ Progress!SendersOver'
    BY <1>1, <1>2 DEF Progress!Exclusive, Progress!SendersOver, Progress!TypeOK, Progress!Inactive,
       Progress!Alive
<1>8. \A t \in Progress!Senders : x1'[t] # "requesting"
    BY <1>1, <1>2, <1>3 DEF Progress!Exclusive, Progress!TypeOK
<1>9. \A i \in 1 .. n + 1 : x7'[i].kind = "result" => i \in 1 .. n /\ x7[i].kind = "result"
    BY <1>4, <1>5
<1>10. Progress!ResultAtEnd'
    BY <1>1, <1>2, <1>5, <1>8, <1>9 DEF Progress!ResultAtEnd
<1>11. ASSUME NEW i \in 1 .. n, x7[i].kind = "result"
       PROVE  i = n /\ s # "handler" /\ (s = "heartbeat" => x6 = "over")
  <2>1. x6 \in {"done", "over"} /\ ~ (n > i)
      BY <1>n, <1>1, <1>2, <1>11 DEF Progress!ResultAtEnd
  <2> QED
      BY <1>1, <1>2, <1>4, <1>11, <2>1 DEF Progress!SendersOver, Progress!Alive
<1>12. Progress!ResultEndsOutput'
    BY <1>1, <1>4, <1>5, <1>9, <1>11 DEF Progress!ResultEndsOutput
<1>13. Progress!Numbered'
  <2>1. \A i \in 1 .. n : Progress!IsFrame(i)' <=> Progress!IsFrame(i)
      BY <1>4, <1>5 DEF Progress!IsFrame
  <2>2. Progress!IsFrame(n + 1)'
      BY <1>5 DEF Progress!IsFrame
  <2>3. \A i \in 1 .. n + 1 : Progress!IsFrame(i)' => x7'[i].seq <= x3'
      BY <1>n, <1>1, <1>2, <1>4, <1>5, <2>1 DEF Progress!Numbered
  <2>4. x3' > 0 => \E i \in 1 .. n + 1 : Progress!IsFrame(i)' /\ x7'[i].seq + 1 = x3'
      BY <1>n, <1>1, <1>2, <1>4, <1>5, <2>1 DEF Progress!Numbered
  <2> QED
      BY <1>1, <1>4, <1>5, <2>2, <2>3, <2>4 DEF Progress!Numbered
<1>14. Progress!ProgressOrdered'
  <2>1. \A i \in 1 .. n : Progress!IsFrame(i)' <=> Progress!IsFrame(i)
      BY <1>4, <1>5 DEF Progress!IsFrame
  <2>2. ASSUME NEW i \in 1 .. n, Progress!IsFrame(i)'
        PROVE  /\ x7'[i].seq = 0 \/ \E j \in 1 .. i - 1 : Progress!IsFrame(j)' /\ x7'[j].seq + 1 = x7'[i].seq
               /\ \A j \in 1 .. i - 1 : Progress!IsFrame(j)' => x7'[j].seq <= x7'[i].seq
    <3>1. i \in 1 .. Len(x7) /\ Progress!IsFrame(i) /\ x7'[i] = x7[i]
      BY <1>n, <1>5, <2>1, <2>2
    <3>2. /\ x7[i].seq = 0 \/ \E j \in 1 .. i - 1 : Progress!IsFrame(j) /\ x7[j].seq + 1 = x7[i].seq
          /\ \A j \in 1 .. i - 1 : Progress!IsFrame(j) => x7[j].seq <= x7[i].seq
      BY <1>2, <3>1 DEF Progress!ProgressOrdered
    <3>3. \A j \in 1 .. i - 1 : j \in 1 .. n
      BY <1>n, <3>1
    <3> QED
      BY <1>5, <2>1, <3>1, <3>2, <3>3
  <2>3. /\ x7'[n + 1].seq = 0 \/ \E j \in 1 .. n : Progress!IsFrame(j)' /\ x7'[j].seq + 1 = x7'[n + 1].seq
        /\ \A j \in 1 .. n : Progress!IsFrame(j)' => x7'[j].seq <= x7'[n + 1].seq
    <3>1. \A j \in 1 .. n : Progress!IsFrame(j) => x7[j].seq <= x3
      BY <1>n, <1>2 DEF Progress!Numbered
    <3>2. x3 = 0 \/ \E j \in 1 .. n : Progress!IsFrame(j) /\ x7[j].seq + 1 = x3
      BY <1>n, <1>2, <1>4 DEF Progress!Numbered
    <3> QED
      BY <1>5, <2>1, <3>1, <3>2
  <2> QED
      BY <1>4, <1>5, <2>2, <2>3 DEF Progress!ProgressOrdered
<1> QED
    BY <1>6, <1>7, <1>10, <1>12, <1>13, <1>14 DEF Progress!ProgressInv

\* The Gateway accepts the frame: the next number is free.
LEMMA FrameAccepted ==
    ASSUME Progress!ProgressInv, NEW s \in Progress!Senders, Progress!Accepted(s)
    PROVE  Progress!ProgressInv'
<1> USE DEF Progress!ProgressInv, Progress!Accepted, Progress!Released, Progress!IsFrame
<1>1. Progress!TypeOK' /\ Progress!Exclusive' /\ Progress!SendersOver'
    BY DEF Progress!TypeOK, Progress!Exclusive, Progress!SendersOver, Progress!Inactive,
       Progress!Senders
<1>2. Progress!ResultAtEnd' /\ Progress!ResultEndsOutput' /\ Progress!ProgressOrdered'
    BY DEF Progress!ResultAtEnd, Progress!ResultEndsOutput, Progress!ProgressOrdered, Progress!TypeOK
<1>3. Progress!Numbered'
  <2>1. \A t \in Progress!Senders : x1'[t] # "sent"
      BY DEF Progress!Exclusive, Progress!TypeOK
  <2>2. x3 \in Nat /\ \A i \in 1 .. Len(x7) : x7[i].seq \in Nat
    <3>1. /\ x3 \in Nat
          /\ x7 \in Seq([kind : {"progress", "result"}, by : Progress!Senders, seq : Nat])
      BY DEF Progress!TypeOK
    <3> HIDE DEF Progress!ProgressInv, Progress!Accepted
    <3> QED
      BY <3>1, FramesNumbered
  <2> QED
      BY <2>1, <2>2 DEF Progress!Numbered
<1> QED
    BY <1>1, <1>2, <1>3

\* The result is handed over: the first, and all that follows it comes from tasks
\* that nobody joined.
LEMMA ResultHandedOver ==
    ASSUME Progress!ProgressInv, Progress!SendResult
    PROVE  Progress!ProgressInv'
<1>n. PICK n \in Nat : n = Len(x7)
  <2>1. x7 \in Seq([kind : {"progress", "result"}, by : Progress!Senders, seq : Nat])
    BY DEF Progress!ProgressInv, Progress!TypeOK
  <2>2. Len(x7) \in Nat
    BY <2>1
  <2> QED
    BY <2>2
<1>1. /\ x7' = Append(x7, Progress!Result)
      /\ \/ x6 = "stopping" /\ x1["heartbeat"] = "gone" /\ x6' = "done"
         \/ x6 = "panicked" /\ x6' = "over"
      /\ x1' = x1 /\ x2' = x2 /\ x3' = x3 /\ x4' = x4 /\ x5' = x5
    BY DEF Progress!SendResult, Progress!HeartbeatJoined
<1>2. /\ Progress!TypeOK /\ Progress!Exclusive /\ Progress!SendersOver /\ Progress!ResultAtEnd
      /\ Progress!ResultEndsOutput /\ Progress!Numbered /\ Progress!ProgressOrdered
    BY DEF Progress!ProgressInv
<1>3. /\ x7 \in Seq([kind : {"progress", "result"}, by : Progress!Senders, seq : Nat])
      /\ n \in Nat
      /\ Progress!Result \in [kind : {"progress", "result"}, by : Progress!Senders, seq : Nat]
    BY <1>2 DEF Progress!TypeOK, Progress!Result, Progress!Senders
<1>4. /\ x7' \in Seq([kind : {"progress", "result"}, by : Progress!Senders, seq : Nat])
      /\ Len(x7') = n + 1
      /\ \A i \in 1 .. n : x7'[i] = x7[i]
      /\ x7'[n + 1].kind = "result"
    BY <1>n, <1>1, <1>3 DEF Progress!Result
<1>5. \A i \in 1 .. n : x7[i].kind # "result"
    BY <1>n, <1>1, <1>2 DEF Progress!ResultAtEnd
<1>6. Progress!TypeOK' /\ Progress!Exclusive' /\ Progress!SendersOver'
    BY <1>1, <1>2, <1>4 DEF Progress!TypeOK, Progress!Exclusive, Progress!SendersOver,
       Progress!Phases, Progress!Inactive
<1>7. Progress!ResultAtEnd' /\ Progress!ResultEndsOutput'
    BY <1>1, <1>3, <1>4, <1>5 DEF Progress!ResultAtEnd, Progress!ResultEndsOutput
<1>8. \A i \in 1 .. n + 1 : Progress!IsFrame(i)' <=> i \in 1 .. n /\ Progress!IsFrame(i)
    BY <1>3, <1>4 DEF Progress!IsFrame
<1>9. Progress!Numbered'
    BY <1>n, <1>1, <1>2, <1>3, <1>4, <1>8 DEF Progress!Numbered
<1>10. Progress!ProgressOrdered'
  <2>1. ASSUME NEW i \in 1 .. n, Progress!IsFrame(i)'
        PROVE  /\ x7'[i].seq = 0 \/ \E j \in 1 .. i - 1 : Progress!IsFrame(j)' /\ x7'[j].seq + 1 = x7'[i].seq
               /\ \A j \in 1 .. i - 1 : Progress!IsFrame(j)' => x7'[j].seq <= x7'[i].seq
    <3>1. i \in 1 .. Len(x7) /\ Progress!IsFrame(i) /\ x7'[i] = x7[i]
      BY <1>n, <1>4, <1>8, <2>1
    <3>2. /\ x7[i].seq = 0 \/ \E j \in 1 .. i - 1 : Progress!IsFrame(j) /\ x7[j].seq + 1 = x7[i].seq
          /\ \A j \in 1 .. i - 1 : Progress!IsFrame(j) => x7[j].seq <= x7[i].seq
      BY <1>2, <3>1 DEF Progress!ProgressOrdered
    <3>3. \A j \in 1 .. i - 1 : j \in 1 .. n
      BY <1>n, <3>1
    <3> QED
      BY <1>4, <1>8, <3>1, <3>2, <3>3
  <2> QED
    BY <1>4, <1>8, <2>1 DEF Progress!ProgressOrdered
<1> QED
    BY <1>6, <1>7, <1>9, <1>10 DEF Progress!ProgressInv

\* Every step of the senders and of the invocation's task keeps the invariant.
LEMMA ProgressNext ==
    ASSUME Progress!ProgressInv, Progress!Next
    PROVE  Progress!ProgressInv'
<1> USE DEF Progress!TypeOK, Progress!Exclusive, Progress!SendersOver, Progress!Senders,
            Progress!Inactive, Progress!Phases
<1>0. /\ Progress!TypeOK /\ Progress!Exclusive /\ Progress!SendersOver
    BY DEF Progress!ProgressInv
<1>1. ASSUME NEW s \in Progress!Senders, Progress!BeginSend(s)
      PROVE  Progress!ProgressInv'
  <2>1. Progress!TypeOK' /\ Progress!Exclusive' /\ Progress!SendersOver'
      BY <1>0, <1>1 DEF Progress!BeginSend, Progress!Alive
  <2>2. /\ Progress!ResultAtEnd' /\ Progress!ResultEndsOutput'
        /\ Progress!Numbered' /\ Progress!ProgressOrdered'
      BY <1>0, <1>1, NothingHandedOver DEF Progress!BeginSend, Progress!Alive
  <2> QED
      BY <2>1, <2>2 DEF Progress!ProgressInv
<1>2. ASSUME NEW s \in Progress!Senders, Progress!Fail(s), x1[s] # "gone", Progress!Alive(s)
      PROVE  Progress!ProgressInv'
  <2>1. Progress!TypeOK' /\ Progress!Exclusive' /\ Progress!SendersOver'
      BY <1>0, <1>2 DEF Progress!Fail, Progress!After, Progress!Released, Progress!Alive
  <2>2. /\ Progress!ResultAtEnd' /\ Progress!ResultEndsOutput'
        /\ Progress!Numbered' /\ Progress!ProgressOrdered'
      BY <1>0, <1>2, NothingHandedOver DEF Progress!Fail, Progress!After, Progress!Released, Progress!Alive
  <2> QED
      BY <2>1, <2>2 DEF Progress!ProgressInv
<1>3. ASSUME NEW s \in Progress!Senders, Progress!RefuseSend(s) \/ Progress!SendFails(s)
      PROVE  Progress!ProgressInv'
    BY <1>2, <1>3 DEF Progress!RefuseSend, Progress!SendFails
<1>4. ASSUME NEW s \in Progress!Senders, Progress!Acquire(s)
      PROVE  Progress!ProgressInv'
  <2>1. Progress!TypeOK' /\ Progress!Exclusive' /\ Progress!SendersOver'
      BY <1>0, <1>4 DEF Progress!Acquire, Progress!Alive, Progress!MutexFree
  <2>2. /\ Progress!ResultAtEnd' /\ Progress!ResultEndsOutput'
        /\ Progress!Numbered' /\ Progress!ProgressOrdered'
      BY <1>0, <1>4, NothingHandedOver DEF Progress!Acquire, Progress!Alive, Progress!MutexFree
  <2> QED
      BY <2>1, <2>2 DEF Progress!ProgressInv
<1>5. CASE Progress!HeartbeatEnds
  <2>1. Progress!TypeOK' /\ Progress!Exclusive' /\ Progress!SendersOver'
      BY <1>0, <1>5 DEF Progress!HeartbeatEnds
  <2>2. /\ Progress!ResultAtEnd' /\ Progress!ResultEndsOutput'
        /\ Progress!Numbered' /\ Progress!ProgressOrdered'
      BY <1>0, <1>5, NothingHandedOver DEF Progress!HeartbeatEnds
  <2> QED
      BY <2>1, <2>2 DEF Progress!ProgressInv
<1>6. CASE Progress!Cancel
  <2>1. Progress!TypeOK' /\ Progress!Exclusive' /\ Progress!SendersOver'
      BY <1>0, <1>6 DEF Progress!Cancel
  <2>2. /\ Progress!ResultAtEnd' /\ Progress!ResultEndsOutput'
        /\ Progress!Numbered' /\ Progress!ProgressOrdered'
      BY <1>0, <1>6, NothingHandedOver DEF Progress!Cancel
  <2> QED
      BY <2>1, <2>2 DEF Progress!ProgressInv
<1>7. CASE Progress!CallReturns
  <2>1. Progress!TypeOK' /\ Progress!Exclusive' /\ Progress!SendersOver'
      BY <1>0, <1>7 DEF Progress!CallReturns
  <2>2. /\ Progress!ResultAtEnd' /\ Progress!ResultEndsOutput'
        /\ Progress!Numbered' /\ Progress!ProgressOrdered'
      BY <1>0, <1>7, NothingHandedOver DEF Progress!CallReturns
  <2> QED
      BY <2>1, <2>2 DEF Progress!ProgressInv
<1>8. CASE Progress!HandlerOver
  <2>1. Progress!TypeOK' /\ Progress!Exclusive' /\ Progress!SendersOver'
      BY <1>0, <1>8 DEF Progress!HandlerOver, Progress!Released
  <2>2. /\ Progress!ResultAtEnd' /\ Progress!ResultEndsOutput'
        /\ Progress!Numbered' /\ Progress!ProgressOrdered'
      BY <1>0, <1>8, NothingHandedOver DEF Progress!HandlerOver, Progress!Released
  <2> QED
      BY <2>1, <2>2 DEF Progress!ProgressInv
<1>9. CASE Progress!HandlerPanics
  <2>1. Progress!TypeOK' /\ Progress!Exclusive' /\ Progress!SendersOver'
      BY <1>0, <1>9 DEF Progress!HandlerPanics
  <2>2. /\ Progress!ResultAtEnd' /\ Progress!ResultEndsOutput'
        /\ Progress!Numbered' /\ Progress!ProgressOrdered'
      BY <1>0, <1>9, NothingHandedOver DEF Progress!HandlerPanics
  <2> QED
      BY <2>1, <2>2 DEF Progress!ProgressInv
<1>10. CASE Progress!TaskDropped
  <2>1. Progress!TypeOK' /\ Progress!Exclusive' /\ Progress!SendersOver'
      BY <1>0, <1>10 DEF Progress!TaskDropped, Progress!Released
  <2>2. /\ Progress!ResultAtEnd' /\ Progress!ResultEndsOutput'
        /\ Progress!Numbered' /\ Progress!ProgressOrdered'
      BY <1>0, <1>10, NothingHandedOver DEF Progress!TaskDropped, Progress!Released
  <2> QED
      BY <2>1, <2>2 DEF Progress!ProgressInv
<1>11. CASE Progress!AbortHeartbeat
  <2>1. Progress!TypeOK' /\ Progress!Exclusive' /\ Progress!SendersOver'
      BY <1>0, <1>11 DEF Progress!AbortHeartbeat, Progress!Released
  <2>2. /\ Progress!ResultAtEnd' /\ Progress!ResultEndsOutput'
        /\ Progress!Numbered' /\ Progress!ProgressOrdered'
      BY <1>0, <1>11, NothingHandedOver DEF Progress!AbortHeartbeat, Progress!Released
  <2> QED
      BY <2>1, <2>2 DEF Progress!ProgressInv
<1> HIDE DEF Progress!TypeOK, Progress!Exclusive, Progress!SendersOver, Progress!Senders,
             Progress!Inactive, Progress!Phases
<1> QED
    BY <1>1, <1>3, <1>4, <1>5, <1>6, <1>7, <1>8, <1>9, <1>10, <1>11,
       FrameHandedOver, FrameAccepted, ResultHandedOver
       DEF Progress!Next, Progress!Send

\* The invariant of the frames says what their properties say.
LEMMA ProgressSound ==
    ASSUME Progress!ProgressInv
    PROVE  Progress!TypeOK /\ Progress!ProgressOrdered /\ Progress!ResultEndsOutput
    BY DEF Progress!ProgressInv

-----------------------------------------------------------------------------
(* The parts together.                                                     *)

\* The invariant of whichever part the behaviour is of.
NodeInv ==
    /\ part = "bridge" => Bridge!BridgeInv
    /\ part = "connect" => Connect!ConnectInv
    /\ part = "deadline" => Deadline!DeadlineInv
    /\ part = "events" => Events!HandlersCannotEndRun
    /\ part = "health" => Health!HealthInv
    /\ part = "registration" => Registration!RegistrationInv
    /\ part = "progress" => Progress!ProgressInv

\* Every part starts in its invariant.
LEMMA NodeInit ==
    ASSUME Init
    PROVE  NodeInv
<1>1. CASE part = "bridge" /\ Bridge!Init
    BY <1>1, BridgeInit DEF NodeInv
<1>2. CASE part = "connect" /\ Connect!Init
    BY <1>2, ConnectInit DEF NodeInv
<1>3. CASE part = "deadline" /\ Deadline!Init
    BY <1>3, DeadlineInit DEF NodeInv
<1>4. CASE part = "events" /\ Events!Init
    BY <1>4 DEF NodeInv, Events!Init, Events!HandlersCannotEndRun
<1>5. CASE part = "health" /\ Health!Init
    BY <1>5, HealthInit DEF NodeInv
<1>6. CASE part = "registration" /\ Registration!Init
    BY <1>6, RegistrationInit DEF NodeInv
<1>7. CASE part = "progress" /\ Progress!Init
    BY <1>7, ProgressInit DEF NodeInv
<1>8. CASE part = "runtime"
    BY <1>8 DEF NodeInv
<1> QED
    BY <1>1, <1>2, <1>3, <1>4, <1>5, <1>6, <1>7, <1>8 DEF Init

\* Every step is a step of the part, which keeps the part's invariant.
LEMMA NodeStep ==
    ASSUME NodeInv, Next
    PROVE  NodeInv'
<1>1. CASE part = "bridge" /\ Bridge!Next /\ UNCHANGED part
    BY <1>1, BridgeNext DEF NodeInv, BridgeKept
<1>2. CASE part = "connect" /\ Connect!Next /\ UNCHANGED part
    BY <1>2, ConnectStep DEF NodeInv
<1>3. CASE part = "deadline" /\ Deadline!Next /\ UNCHANGED part
    BY <1>3, DeadlineNext DEF NodeInv
<1>4. CASE part = "events" /\ Events!Next /\ UNCHANGED part
    BY <1>4, EventsNext DEF NodeInv
<1>5. CASE part = "health" /\ Health!Next /\ UNCHANGED part
    BY <1>5, HealthNext DEF NodeInv
<1>6. CASE part = "registration" /\ Registration!Next /\ UNCHANGED part
    BY <1>6, RegistrationNext DEF NodeInv
<1>7. CASE part = "progress" /\ Progress!Next /\ UNCHANGED part
    BY <1>7, ProgressNext DEF NodeInv
<1>8. CASE part = "runtime" /\ UNCHANGED part
    BY <1>8 DEF NodeInv
<1> QED
    BY <1>1, <1>2, <1>3, <1>4, <1>5, <1>6, <1>7, <1>8 DEF Next

\* Nothing changes in a stuttering step.
LEMMA NodeStutter ==
    ASSUME NodeInv, UNCHANGED vars
    PROVE  NodeInv'
<1> USE DEF vars, From6, From7, From8, From12, From13
<1>0. part' = part
    OBVIOUS
<1>1. CASE part = "bridge"
    BY <1>1
       DEF NodeInv, Bridge!BridgeInv, Bridge!TypeOK, Bridge!VersionsCounted, Bridge!PollsLive,
           Bridge!CalledAfterCheck, Bridge!AbandonedWorkIsCancelled
<1>2. CASE part = "connect"
    BY <1>2
       DEF NodeInv, Connect!ConnectInv, Connect!OneEach, Connect!MadeTogether,
           Connect!Downgraded, Connect!protocol
<1>3. CASE part = "deadline"
    BY <1>3
       DEF NodeInv, Deadline!DeadlineInv, Deadline!DeadlineTyped, Deadline!GraceBelowMax,
           Deadline!TimerInside, Deadline!FreshInvocationRuns, Deadline!limits
<1>4. CASE part = "events"
    BY <1>4 DEF NodeInv, Events!HandlersCannotEndRun
<1>5. CASE part = "health"
    BY <1>5
       DEF NodeInv, Health!HealthInv, Health!HealthTyped, Health!PermitsCounted, Health!Tasks,
           Health!RowCounted, Health!Running
<1>6. CASE part = "registration"
    BY <1>6
       DEF NodeInv, Registration!RegistrationInv, Registration!Configured,
           Registration!Checked, Registration!Serves, Registration!Buildable,
           Registration!Trimmed, Registration!AcceptedConfigurationBuilds
<1>7. CASE part = "progress"
    BY <1>7
       DEF NodeInv, Progress!ProgressInv, Progress!TypeOK, Progress!Exclusive,
           Progress!SendersOver, Progress!Inactive, Progress!ResultAtEnd,
           Progress!ResultEndsOutput, Progress!IsFrame, Progress!Numbered, Progress!ProgressOrdered
<1> QED
    BY <1>0, <1>1, <1>2, <1>3, <1>4, <1>5, <1>6, <1>7 DEF NodeInv

\* In every reachable state, the invariant of the part holds.
THEOREM NodeInvariant == Spec => []NodeInv
<1>1. NodeInv /\ [Next]_vars => NodeInv'
    BY NodeStep, NodeStutter
<1> QED
    BY <1>1, NodeInit, PTL DEF Spec

\* The device's proof covers the request it is sent in, over the nonce of that
\* connection; the session has the surface that was asked for; the legacy dialect
\* is spoken only when the Gateway asked for it; connect opens at most two
\* connections: for every set of commands and nonces.
THEOREM ConnectStaysSound == Spec => []ConnectIsSound
<1>1. NodeInv => ConnectIsSound
    BY ConnectSound DEF NodeInv, ConnectIsSound
<1> QED
    BY <1>1, NodeInvariant, PTL

\* While a policy or a handler runs, the result grace is left of the Gateway's
\* deadline, and a sidecar's fresh invocation is not refused for its grace: for
\* all timeouts, graces and delays.
THEOREM DeadlineStaysFair == Spec => []DeadlineIsFair
<1>1. NodeInv => DeadlineIsFair
    BY DeadlineSound DEF NodeInv, DeadlineIsFair
<1> QED
    BY <1>1, NodeInvariant, PTL

\* No result that a handler, a policy or an adapter can return ends the session,
\* for any set of invocations.
THEOREM SessionOutlivesHandlers == Spec => []HandlersCannotEndRun
<1>1. NodeInv => HandlersCannotEndRun
    BY DEF NodeInv, HandlersCannotEndRun
<1> QED
    BY <1>1, NodeInvariant, PTL

\* The health listener never has more tasks than permits and gives up only after
\* a whole row of errors, for any number of clients, permits and errors.
THEOREM HealthStaysBounded == Spec => []HealthIsBounded
<1>1. NodeInv => HealthIsBounded
    BY HealthSound DEF NodeInv, HealthIsBounded
<1> QED
    BY <1>1, NodeInvariant, PTL

\* A configuration that the host or the sidecar accepted builds, and its session
\* serves exactly the configured commands, however many there are.
THEOREM RegistrationStaysExact == Spec => []RegistrationIsExact
<1>1. NodeInv => RegistrationIsExact
    BY RegistrationSound DEF NodeInv, RegistrationIsExact
<1> QED
    BY <1>1, NodeInvariant, PTL

\* Progress frames are numbered without a gap, whoever sends them; after the result
\* comes nothing of the handler or of a joined heartbeat, and at most one frame of
\* a task that nobody joins: for any number of frames.
THEOREM ProgressStaysSound == Spec => []ProgressIsSound
<1>1. NodeInv => ProgressIsSound
    BY ProgressSound DEF NodeInv, ProgressIsSound
<1> QED
    BY <1>1, NodeInvariant, PTL

\* The bridge uses an answer of the native adapter only in a poll that began on a
\* live channel, and never leaves the adapter at work uncancelled: for any number
\* of invocations that share a channel.
THEOREM BridgeStaysSound == Spec => BridgeIsSound
<1> DEFINE Step == part = "bridge" =>
          Bridge!NoLateAnswer /\ Bridge!TypeOK' /\ Bridge!AbandonedWorkIsCancelled'
<1>1. ASSUME NodeInv, Next, part = "bridge" PROVE Step
  <2>1. Bridge!Next /\ Bridge!BridgeInv
    BY <1>1 DEF Next, NodeInv
  <2>2. Bridge!BridgeInv' /\ Bridge!NoLateAnswer
    BY <2>1, BridgeNext DEF BridgeKept
  <2> QED
    BY <2>2 DEF Bridge!BridgeInv
<1>2. NodeInv /\ [Next]_vars => [Step]_vars
    BY <1>1
<1> QED
    BY <1>2, NodeInvariant, PTL DEF Spec, BridgeIsSound
=============================================================================
