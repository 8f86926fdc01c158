------------------------ MODULE NodeLifecycleProofs -------------------------
(***************************************************************************)
(* Theorems about NodeLifecycle, for every set of errors and tokens and      *)
(* every choice of delays.                                                   *)
(***************************************************************************)
EXTENDS NodeLifecycle, WellFoundedInduction, TLAPS

-----------------------------------------------------------------------------
(* The inductive invariant.                                                *)

\* The policy's delay stays between its limits.
DelayBounded == InitialDelay <= next_delay /\ next_delay <= maximum_delay

\* No handler task is alive unless run is at work, or was dropped at the end.
TasksOwned ==
    /\ run \in {"none", "returned"} => ~busy
    /\ pc \in {"connecting", "backoff", "paused"} => run = "none"
    /\ pc = "stopped" /\ drained => run \in {"none", "returned"}

\* A token that is adopted, or being presented, has not been refused.
TokensFresh ==
    /\ issued \notin rejected
    /\ pc = "connecting" => auth \notin rejected

\* A run that has begun to stop has an error to return.
FailureKnown == run \in {"stopping", "returned"} => failure \in Errors \cup RuntimeFailures

LifeInv == DelayBounded /\ TasksOwned /\ TokensFresh /\ FailureKnown

-----------------------------------------------------------------------------
\* maximum_delay is a duration no smaller than initial_delay (new).
LEMMA MaximumFacts ==
    /\ maximum_delay \in 0 .. DurationMax
    /\ InitialDelay <= maximum_delay
    /\ InitialDelay \in 0 .. DurationMax
BY DelaysAssumption DEF maximum_delay

\* Doubling the delay keeps it between the limits (checked_mul, min).
LEMMA DoubledFacts ==
    ASSUME NEW d \in Nat, InitialDelay <= d, d <= maximum_delay
    PROVE  /\ Doubled(d) \in 0 .. DurationMax
           /\ InitialDelay <= Doubled(d)
           /\ Doubled(d) <= maximum_delay
BY MaximumFacts, DelaysAssumption DEF Doubled, Smaller

\* after_failure keeps the delay between the limits, whatever the error.
LEMMA AfterFailureKeepsDelay ==
    ASSUME next_delay \in 0 .. DurationMax, DelayBounded, device_token_retry_used \in BOOLEAN,
           NEW e, AfterFailure(e, FALSE)
    PROVE  /\ next_delay' \in 0 .. DurationMax
           /\ DelayBounded'
           /\ device_token_retry_used' \in BOOLEAN
<1>1. next_delay \in Nat /\ InitialDelay <= next_delay /\ next_delay <= maximum_delay
  BY DelaysAssumption DEF DelayBounded
<1>2. next_delay' = Doubled(next_delay) \/ next_delay' = next_delay
  BY DEF AfterFailure
<1>3. next_delay' \in 0 .. DurationMax /\ InitialDelay <= next_delay' /\ next_delay' <= maximum_delay
  BY <1>1, <1>2, DoubledFacts
<1>4. device_token_retry_used' \in BOOLEAN
  BY DEF AfterFailure
<1> QED
  BY <1>3, <1>4 DEF DelayBounded, maximum_delay

\* The delay that after_failure answers with is a duration.
LEMMA DelayTyped ==
    ASSUME next_delay \in 0 .. DurationMax, NEW e \in Errors
    PROVE  Delay(e, FALSE) \in Nat
<1>1. e.retry_after \in Hints \cup {NoHint}
  BY ErrorsAssumption DEF ClientError
<1>2. next_delay \in Nat /\ maximum_delay \in Nat
  BY MaximumFacts, DelaysAssumption
<1>3. CASE Action(e, FALSE) = "RetryHinted"
  <2>1. e.retry_after # NoHint
    BY <1>3 DEF Action
  <2>2. e.retry_after \in Nat
    BY <1>1, <2>1, HintsAssumption
  <2>3. Smaller(e.retry_after, maximum_delay) \in Nat
    BY <1>2, <2>2 DEF Smaller
  <2>4. Delay(e, FALSE) = Smaller(e.retry_after, maximum_delay)
    BY <1>3 DEF Delay
  <2> QED
    BY <2>3, <2>4
<1>4. CASE Action(e, FALSE) = "RetryWithStoredDeviceToken"
  BY <1>4, TokenRetryAssumption DEF Delay
<1>5. CASE Action(e, FALSE) \notin {"RetryHinted", "RetryWithStoredDeviceToken"}
  <2>1. Delay(e, FALSE) = next_delay
    BY <1>5 DEF Delay
  <2> QED
    BY <1>2, <2>1
<1> QED
  BY <1>3, <1>4, <1>5

\* handle_client_failure backs off or pauses, and counts an exponential retry.
LEMMA ClientFailureFacts ==
    ASSUME TypeOK, DelayBounded, NEW e \in Errors, HandleClientFailure(e)
    PROVE  /\ next_delay' \in 0 .. DurationMax
           /\ DelayBounded'
           /\ device_token_retry_used' \in BOOLEAN
           /\ ready' = FALSE
           /\ pc' \in {"backoff", "paused"}
           /\ delay' \in Nat
           /\ streak' \in 0 .. MaxStreak
<1>1. /\ next_delay' \in 0 .. DurationMax
      /\ DelayBounded'
      /\ device_token_retry_used' \in BOOLEAN
  BY AfterFailureKeepsDelay DEF HandleClientFailure, TypeOK
<1>2. Delay(e, FALSE) \in Nat
  BY DelayTyped DEF TypeOK
<1>3. pc' \in {"backoff", "paused"} /\ delay' \in Nat
  BY <1>2, LifecycleDelaysAssumption DEF HandleClientFailure, BackOff, TypeOK
<1>4. streak' \in 0 .. MaxStreak
  <2>1. streak \in Nat /\ streak \in 0 .. MaxStreak
    BY MaxStreakAssumption DEF TypeOK
  <2>2. streak' = streak \/ streak' = Smaller(streak + 1, MaxStreak)
    BY DEF HandleClientFailure
  <2> QED
    BY <2>1, <2>2, MaxStreakAssumption DEF Smaller
<1> QED
  BY <1>1, <1>3, <1>4 DEF HandleClientFailure, Unready

-----------------------------------------------------------------------------
\* The invariant holds when the lifecycle starts.
LEMMA LifeInvInitially == Init => TypeOK /\ LifeInv
<1> SUFFICES ASSUME Init PROVE TypeOK /\ LifeInv
  OBVIOUS
<1>1. next_delay \in 0 .. DurationMax /\ DelayBounded
  BY MaximumFacts DEF Init, PolicyInit, DelayBounded
<1>2. delay \in Nat /\ streak \in 0 .. MaxStreak
  BY MaxStreakAssumption DEF Init
<1>3. TypeOK
  BY <1>1, <1>2, Zenon DEF Init, PolicyInit, TypeOK, Over
<1>4. TasksOwned /\ TokensFresh /\ FailureKnown
  BY DEF Init, TasksOwned, TokensFresh, FailureKnown
<1> QED
  BY <1>1, <1>3, <1>4 DEF LifeInv

\* Every step of the lifecycle keeps it.
LEMMA LifeInvPreserved ==
    ASSUME TypeOK, LifeInv, [Next]_vars
    PROVE  TypeOK' /\ LifeInv'
<1>1. CASE Signal
  <2>1. TypeOK'
    BY <1>1 DEF Signal, TypeOK, Over, policyVars, sessionVars, tokenVars
  <2>2. DelayBounded' /\ TasksOwned' /\ TokensFresh' /\ FailureKnown'
    BY <1>1 DEF Signal, TypeOK, LifeInv, DelayBounded, TasksOwned, TokensFresh, FailureKnown,
       maximum_delay, policyVars, sessionVars, tokenVars
  <2> QED
    BY <2>1, <2>2 DEF LifeInv
<1>2. CASE StopArm
  <2>1. TypeOK'
    BY <1>2
       DEF StopArm, StopConnecting, StopServing, StopWaiting, Stop, Unready, TypeOK, Over,
           policyVars, sessionVars, tokenVars
  <2>2. DelayBounded' /\ TasksOwned' /\ TokensFresh' /\ FailureKnown'
    BY <1>2
       DEF StopArm, StopConnecting, StopServing, StopWaiting, Stop, Unready, TypeOK,
           LifeInv, DelayBounded, TasksOwned, TokensFresh, FailureKnown,
       maximum_delay, policyVars, sessionVars, tokenVars
  <2> QED
    BY <2>1, <2>2 DEF LifeInv
<1>3. ASSUME NEW e \in Errors, TokenRejected(e) PROVE TypeOK' /\ LifeInv'
  <2>1. TypeOK'
    BY <1>3 DEF TokenRejected, Dropped, TypeOK, Over, policyVars, sessionVars, tokenVars
  <2>2. DelayBounded' /\ TasksOwned' /\ TokensFresh' /\ FailureKnown'
    BY <1>3, TokensAssumption
       DEF TokenRejected, Dropped, TypeOK, LifeInv, DelayBounded, TasksOwned, TokensFresh,
           FailureKnown,
       maximum_delay, policyVars, sessionVars, tokenVars
  <2> QED
    BY <2>1, <2>2 DEF LifeInv
<1>4. ASSUME NEW e \in Errors, ConnectFails(e) PROVE TypeOK' /\ LifeInv'
  <2>1. HandleClientFailure(e)
    BY <1>4 DEF ConnectFails
  <2>2. TypeOK'
    BY <1>4, <2>1, ClientFailureFacts, ZenonT(40)
       DEF ConnectFails, TypeOK, LifeInv, Over, sessionVars, tokenVars
  <2>3. DelayBounded' /\ TasksOwned' /\ TokensFresh' /\ FailureKnown'
    BY <1>4, <2>1, ClientFailureFacts DEF ConnectFails, LifeInv, TasksOwned, TokensFresh,
       FailureKnown, sessionVars, tokenVars
  <2> QED
    BY <2>2, <2>3 DEF LifeInv
<1>5. ASSUME NEW token \in Tokens \cup {None}, ConnectSucceeds(token) PROVE TypeOK' /\ LifeInv'
  <2>1. TypeOK'
    <3>1. next_delay' \in 0 .. DurationMax /\ streak' \in 0 .. MaxStreak
      BY <1>5, MaximumFacts, MaxStreakAssumption DEF ConnectSucceeds, Connected
    <3>2. issued' \in Tokens \cup {None} /\ rejected' \subseteq Tokens
      BY <1>5 DEF ConnectSucceeds, TypeOK
    <3> QED
      BY <1>5, <3>1, <3>2, Zenon DEF ConnectSucceeds, Connected, TypeOK, Over
  <2>2. DelayBounded' /\ TasksOwned' /\ TokensFresh' /\ FailureKnown'
    BY <1>5, MaximumFacts, TokensAssumption
       DEF ConnectSucceeds, Connected, TypeOK, LifeInv, DelayBounded, TasksOwned,
           TokensFresh, FailureKnown,
       maximum_delay, policyVars, sessionVars, tokenVars
  <2> QED
    BY <2>1, <2>2 DEF LifeInv
<1>6. CASE HandlerStarts \/ HandlerEnds \/ SessionEnds
  <2>1. TypeOK'
    <3>1. CASE HandlerStarts
      BY <3>1 DEF HandlerStarts, TypeOK, policyVars, tokenVars
    <3>2. CASE HandlerEnds
      <4>1. busy' \in BOOLEAN
        BY <3>2 DEF HandlerEnds
      <4>2. UNCHANGED <<policyVars, pc, shutdown, session, run, failure, tokenVars, ready,
                        delay, drained, streak>>
        BY <3>2 DEF HandlerEnds
      <4> QED
        BY <4>1, <4>2 DEF TypeOK, policyVars, tokenVars
    <3>3. CASE SessionEnds
      BY <3>3 DEF SessionEnds, TypeOK, policyVars, tokenVars
    <3> QED
      BY <1>6, <3>1, <3>2, <3>3
  <2>2. DelayBounded' /\ TasksOwned' /\ TokensFresh' /\ FailureKnown'
    BY <1>6
       DEF HandlerStarts, HandlerEnds, SessionEnds, TypeOK, LifeInv, DelayBounded,
           TasksOwned, TokensFresh, FailureKnown,
       maximum_delay, policyVars, sessionVars, tokenVars
  <2> QED
    BY <2>1, <2>2 DEF LifeInv
<1>7. ASSUME NEW f \in SessionErrors \cup RuntimeFailures, RunStops(f) PROVE TypeOK' /\ LifeInv'
  <2>1. TypeOK'
    BY <1>7 DEF RunStops, SessionErrors, TypeOK, Over, policyVars, sessionVars, tokenVars
  <2>2. DelayBounded' /\ TasksOwned' /\ TokensFresh' /\ FailureKnown'
    BY <1>7
       DEF RunStops, SessionErrors, TypeOK, LifeInv, DelayBounded, TasksOwned, TokensFresh,
           FailureKnown,
       maximum_delay, policyVars, sessionVars, tokenVars
  <2> QED
    BY <2>1, <2>2 DEF LifeInv
<1>8. CASE RunReturns
  <2>1. TypeOK'
    BY <1>8 DEF RunReturns, RunCanReturn, TypeOK, Over, policyVars, sessionVars, tokenVars
  <2>2. DelayBounded' /\ TasksOwned' /\ TokensFresh' /\ FailureKnown'
    BY <1>8
       DEF RunReturns, RunCanReturn, TypeOK, LifeInv, DelayBounded, TasksOwned,
           TokensFresh, FailureKnown,
       maximum_delay, policyVars, sessionVars, tokenVars
  <2> QED
    BY <2>1, <2>2 DEF LifeInv
<1>9. CASE ServeEnds
  <2>1. /\ next_delay' \in 0 .. DurationMax /\ DelayBounded'
        /\ device_token_retry_used' \in BOOLEAN
        /\ ready' = FALSE
        /\ pc' \in {"backoff", "paused"}
        /\ delay' \in Nat
        /\ streak' \in 0 .. MaxStreak
    <3>1. CASE failure \in RuntimeFailures
      BY <1>9, <3>1, LifecycleDelaysAssumption
         DEF ServeEnds, HandleRuntimeFailure, BackOff, Unready,
         TypeOK, LifeInv, DelayBounded, maximum_delay, policyVars
    <3>2. CASE failure \notin RuntimeFailures
      <4>1. failure \in Errors /\ HandleClientFailure(failure)
        BY <1>9, <3>2 DEF ServeEnds, LifeInv, FailureKnown
      <4> QED
        BY <4>1, ClientFailureFacts DEF LifeInv
    <3> QED
      BY <3>1, <3>2
  <2>2. TypeOK'
    BY <1>9, <2>1 DEF ServeEnds, TypeOK, Over, tokenVars
  <2>3. TasksOwned' /\ TokensFresh' /\ FailureKnown'
    BY <1>9, <2>1 DEF ServeEnds, LifeInv, TasksOwned, TokensFresh, FailureKnown, tokenVars
  <2> QED
    BY <2>1, <2>2, <2>3 DEF LifeInv
<1>10. CASE Drained \/ GraceExpires
  <2>1. TypeOK'
    BY <1>10
       DEF Drained, GraceExpires, GivesUp, Stop, Unready, DrainedInTime, TypeOK, Over,
           policyVars, sessionVars, tokenVars
  <2>2. DelayBounded' /\ TasksOwned' /\ TokensFresh' /\ FailureKnown'
    BY <1>10
       DEF Drained, GraceExpires, GivesUp, Stop, Unready, DrainedInTime, TypeOK, LifeInv,
           DelayBounded, TasksOwned, TokensFresh, FailureKnown,
       maximum_delay, policyVars, sessionVars, tokenVars
  <2> QED
    BY <2>1, <2>2 DEF LifeInv
<1>11. CASE DelayElapses
  <2>1. TypeOK'
    BY <1>11, ZenonT(40)
       DEF DelayElapses, Credential, Unready, TypeOK, Over, policyVars, sessionVars,
           tokenVars
  <2>2. DelayBounded' /\ TasksOwned' /\ TokensFresh' /\ FailureKnown'
    BY <1>11, TokensAssumption
       DEF DelayElapses, Credential, Unready, TypeOK, LifeInv, DelayBounded, TasksOwned,
           TokensFresh, FailureKnown,
       maximum_delay, policyVars, sessionVars, tokenVars
  <2> QED
    BY <2>1, <2>2 DEF LifeInv
<1>12. CASE HealthFails
  <2>1. TypeOK'
    BY <1>12 DEF HealthFails, TypeOK, Over, policyVars, sessionVars, tokenVars
  <2>2. DelayBounded' /\ TasksOwned' /\ TokensFresh' /\ FailureKnown'
    BY <1>12
       DEF HealthFails, TypeOK, LifeInv, DelayBounded, TasksOwned, TokensFresh,
           FailureKnown,
       maximum_delay, policyVars, sessionVars, tokenVars
  <2> QED
    BY <2>1, <2>2 DEF LifeInv
<1>13. CASE UNCHANGED vars
  <2>1. TypeOK'
    BY <1>13 DEF vars, TypeOK, Over, policyVars, sessionVars, tokenVars
  <2>2. DelayBounded' /\ TasksOwned' /\ TokensFresh' /\ FailureKnown'
    BY <1>13 DEF vars, TypeOK, LifeInv, DelayBounded, TasksOwned, TokensFresh, FailureKnown,
       maximum_delay, policyVars, sessionVars, tokenVars
  <2> QED
    BY <2>1, <2>2 DEF LifeInv
<1> QED
  BY <1>1, <1>2, <1>3, <1>4, <1>5, <1>6, <1>7, <1>8, <1>9, <1>10, <1>11, <1>12, <1>13 DEF Next

-----------------------------------------------------------------------------
(* Theorems.                                                               *)

\* The lifecycle, the policy and the host keep every variable in its type; the
\* backoff stays a duration (lifecycle.rs, reconnect.rs, host.rs).
THEOREM LifeInvariant == Spec => [](TypeOK /\ LifeInv)
<1>1. TypeOK /\ LifeInv /\ [Next]_vars => TypeOK' /\ LifeInv'
  BY LifeInvPreserved
<1> QED
  BY <1>1, LifeInvInitially, PTL DEF Spec

\* However failures, shutdown and handlers interleave, no handler task of one
\* session is alive when the next attempt begins (NodeLifecycle::run).
THEOREM SessionsNeverOverlap == Spec => []SessionsDoNotOverlap
<1>1. LifeInv => SessionsDoNotOverlap
  BY DEF LifeInv, TasksOwned, SessionsDoNotOverlap
<1> QED
  BY <1>1, LifeInvariant, PTL

\* Stopped { drained: true } is true of the handler tasks.
THEOREM DrainedIsQuiet == Spec => []DrainedMeansQuiet
<1>1. LifeInv => DrainedMeansQuiet
  BY DEF LifeInv, TasksOwned, DrainedMeansQuiet
<1> QED
  BY <1>1, LifeInvariant, PTL

\* The host never presents a device token the Gateway has refused since issuing
\* it, for any set of tokens (host_connection_factory).
THEOREM RejectedTokensStayForgotten == Spec => []RejectedTokenIsForgotten
<1>1. LifeInv => RejectedTokenIsForgotten
  BY DEF LifeInv, TokensFresh, RejectedTokenIsForgotten
<1> QED
  BY <1>1, LifeInvariant, PTL

\* The exponential delay stays between initial_delay and maximum_delay, for all
\* delays up to Duration::MAX (ReconnectPolicy::after_failure, connected).
THEOREM BackoffStaysBounded == Spec => []DelayBounded
<1>1. LifeInv => DelayBounded
  BY DEF LifeInv
<1> QED
  BY <1>1, LifeInvariant, PTL
-----------------------------------------------------------------------------
(* The backoff.  Exponential is a recursive function; that it satisfies its *)
(* equation is shown by the least length without a solution.                *)

\* A set of naturals that is not empty has a least element.
LEMMA LeastNatural ==
    ASSUME NEW S, S \subseteq Nat, S # {}
    PROVE  \E n \in S : \A m \in S : n <= m
<1> DEFINE R == OpToRel(<, Nat)
<1>1. IsWellFoundedOn(R, Nat)
  BY NatLessThanWellFounded
<1>2. \A m, n \in Nat : m < n => <<m, n>> \in R
  BY DEF OpToRel
<1> HIDE DEF R
<1>3. PICK n \in S : \A m \in S : ~ (<<m, n>> \in R)
  BY <1>1, WFMin
<1>4. ASSUME NEW m \in S PROVE n <= m
  <2>1. m \in Nat /\ n \in Nat
    OBVIOUS
  <2>2. ~(m < n)
    BY <1>2, <1>3, <2>1, Zenon
  <2> QED
    BY <2>1, <2>2
<1> QED
  BY <1>4

\* f satisfies the equation of Exponential up to n.
Solves(f, n) ==
    f = [i \in 0 .. n |->
            IF i = 0 THEN InitialDelay ELSE Smaller(2 * f[i - 1], maximum_delay)]

\* The equation has a solution of every length.
LEMMA Solvable == \A n \in Nat : \E f : Solves(f, n)
<1> DEFINE Bad == {n \in Nat : ~ \E f : Solves(f, n)}
<1> SUFFICES ASSUME Bad # {} PROVE FALSE
  OBVIOUS
<1>1. PICK n \in Bad : \A m \in Bad : n <= m
  <2>1. Bad \subseteq Nat
    OBVIOUS
  <2> HIDE DEF Bad
  <2> QED
    BY <2>1, LeastNatural
<1>2. n # 0
  <2>1. Solves([i \in 0 .. 0 |-> InitialDelay], 0)
    BY DEF Solves
  <2> QED
    BY <2>1
<1>3. n - 1 \in Nat /\ n - 1 \notin Bad
  BY <1>1, <1>2
<1>4. PICK f : Solves(f, n - 1)
  BY <1>3
<1> DEFINE g == [i \in 0 .. n |-> IF i < n THEN f[i] ELSE Smaller(2 * f[n - 1], maximum_delay)]
<1>5. Solves(g, n)
  <2>1. ASSUME NEW i \in 0 .. n
        PROVE  g[i] = IF i = 0 THEN InitialDelay ELSE Smaller(2 * g[i - 1], maximum_delay)
    <3>1. CASE i = 0
      BY <3>1, <1>2, <1>3, <1>4 DEF Solves
    <3>2. CASE i # 0 /\ i < n
      <4>1. i \in 0 .. n - 1 /\ i - 1 \in 0 .. n - 1 /\ i - 1 \in 0 .. n /\ i - 1 < n
        BY <3>2
      <4>2. f[i] = Smaller(2 * f[i - 1], maximum_delay)
        BY <1>4, <3>2, <4>1 DEF Solves
      <4>3. g[i] = f[i] /\ g[i - 1] = f[i - 1]
        BY <3>2, <4>1
      <4> QED
        BY <3>2, <4>2, <4>3
    <3>3. CASE i = n
      BY <3>3, <1>2, <1>3
    <3> QED
      BY <3>1, <3>2, <3>3
  <2> QED
    BY <2>1 DEF Solves
<1> QED
  BY <1>1, <1>5

\* So Exponential satisfies its own equation.
LEMMA ExponentialDef ==
    /\ Exponential[0] = InitialDelay
    /\ \A n \in 1 .. MaxStreak :
          Exponential[n] = Smaller(2 * Exponential[n - 1], maximum_delay)
<1>1. \E f : Solves(f, MaxStreak)
  BY Solvable, MaxStreakAssumption
<1>2. Exponential = CHOOSE f : Solves(f, MaxStreak)
  BY DEF Exponential, Solves
<1>3. Solves(Exponential, MaxStreak)
  BY <1>1, <1>2
<1>4. ASSUME NEW f, Solves(f, MaxStreak), NEW n \in 0 .. MaxStreak
      PROVE  f[n] = IF n = 0 THEN InitialDelay ELSE Smaller(2 * f[n - 1], maximum_delay)
  BY <1>4 DEF Solves
<1>5. \A n \in 0 .. MaxStreak :
         Exponential[n] = IF n = 0 THEN InitialDelay ELSE Smaller(2 * Exponential[n - 1], maximum_delay)
  BY <1>3, <1>4
<1>6. 0 \in 0 .. MaxStreak /\ \A n \in 1 .. MaxStreak : n \in 0 .. MaxStreak /\ n # 0
  BY MaxStreakAssumption
<1> QED
  BY <1>5, <1>6

\* Doubling with checked_mul is doubling below the maximum: an overflow is beyond
\* any maximum that is a duration.
LEMMA DoubledIsPlain ==
    ASSUME NEW d \in Nat
    PROVE  Doubled(d) = Smaller(2 * d, maximum_delay)
  BY MaximumFacts, DelaysAssumption DEF Doubled, Smaller

\* The steps that touch the delay or the count of failures.
LEMMA DelaySteps ==
    ASSUME [Next]_vars, TypeOK, LifeInv
    PROVE  \/ next_delay' = next_delay /\ streak' = streak
           \/ next_delay' = InitialDelay /\ streak' = 0
           \/ next_delay' = Doubled(next_delay) /\ streak' = Smaller(streak + 1, MaxStreak)
<1> DEFINE Goal == \/ next_delay' = next_delay /\ streak' = streak
                   \/ next_delay' = InitialDelay /\ streak' = 0
                   \/ next_delay' = Doubled(next_delay) /\ streak' = Smaller(streak + 1, MaxStreak)
<1> SUFFICES Goal
  OBVIOUS
<1> USE DEF policyVars
<1>1. ASSUME NEW e, HandleClientFailure(e) PROVE Goal
  BY <1>1 DEF HandleClientFailure, AfterFailure
<1>2. CASE Signal \/ StopArm
  BY <1>2 DEF Signal, StopArm, StopConnecting, StopServing, StopWaiting
<1>3. ASSUME NEW e \in Errors, TokenRejected(e) \/ ConnectFails(e) PROVE Goal
  <2>1. CASE TokenRejected(e)
    BY <2>1 DEF TokenRejected
  <2>2. CASE ConnectFails(e)
    BY <1>1, <2>2 DEF ConnectFails
  <2> QED
    BY <1>3, <2>1, <2>2
<1>4. ASSUME NEW token \in Tokens \cup {None}, ConnectSucceeds(token) PROVE Goal
  BY <1>4 DEF ConnectSucceeds, Connected
<1>5. CASE HandlerStarts \/ HandlerEnds \/ SessionEnds \/ RunReturns
  BY <1>5 DEF HandlerStarts, HandlerEnds, SessionEnds, RunReturns
<1>6. ASSUME NEW f \in SessionErrors \cup RuntimeFailures, RunStops(f) PROVE Goal
  BY <1>6 DEF RunStops
<1>7. CASE ServeEnds
  <2>1. HandleRuntimeFailure \/ HandleClientFailure(failure)
    BY <1>7 DEF ServeEnds
  <2> QED
    BY <1>1, <2>1 DEF HandleRuntimeFailure
<1>8. CASE Drained \/ GraceExpires \/ DelayElapses \/ HealthFails
  BY <1>8 DEF Drained, GraceExpires, DelayElapses, HealthFails
<1>9. CASE UNCHANGED vars
  BY <1>9 DEF vars
<1> HIDE DEF Goal
<1> QED
  BY <1>2, <1>3, <1>4, <1>5, <1>6, <1>7, <1>8, <1>9 DEF Next

\* The delay is the initial one doubled once for every unhinted transient failure
\* since the last connection, up to the maximum, for all delays: checked_mul's
\* overflow and failures of other kinds in between do not show.
THEOREM BackoffStaysExponential == Spec => []BackoffIsExponential
<1>1. Init => BackoffIsExponential
  BY ExponentialDef DEF Init, PolicyInit, BackoffIsExponential
<1>2. ASSUME TypeOK, LifeInv, BackoffIsExponential, [Next]_vars
      PROVE  BackoffIsExponential'
  <2>1. next_delay \in Nat /\ streak \in 0 .. MaxStreak
    BY <1>2, DelaysAssumption DEF TypeOK
  <2>2. CASE next_delay' = next_delay /\ streak' = streak
    BY <1>2, <2>2 DEF BackoffIsExponential
  <2>3. CASE next_delay' = InitialDelay /\ streak' = 0
    BY <2>3, ExponentialDef DEF BackoffIsExponential
  <2>4. CASE next_delay' = Doubled(next_delay) /\ streak' = Smaller(streak + 1, MaxStreak)
    <3>1. next_delay' = Smaller(2 * Exponential[streak], maximum_delay)
      BY <1>2, <2>1, <2>4, DoubledIsPlain DEF BackoffIsExponential
    <3>2. CASE streak < MaxStreak
      <4>1. streak' = streak + 1 /\ streak + 1 \in 1 .. MaxStreak /\ (streak + 1) - 1 = streak
        BY <2>1, <2>4, <3>2, MaxStreakAssumption DEF Smaller
      <4>2. Exponential[streak + 1] = Smaller(2 * Exponential[streak], maximum_delay)
        BY <4>1, ExponentialDef
      <4> QED
        BY <3>1, <4>1, <4>2 DEF BackoffIsExponential
    <3>3. CASE streak = MaxStreak
      <4>1. streak' = streak
        BY <2>1, <2>4, <3>3, MaxStreakAssumption DEF Smaller
      <4> QED
        BY <3>1, <3>3, <4>1, StreakAssumption DEF BackoffIsExponential
    <3> QED
      BY <2>1, <3>2, <3>3, MaxStreakAssumption
  <2> QED
    BY <1>2, <2>2, <2>3, <2>4, DelaySteps
<1> QED
  BY <1>1, <1>2, LifeInvariant, PTL DEF Spec
=============================================================================
