-------------------------- MODULE PrototypeProofs ---------------------------
(***************************************************************************)
(* Proofs about the root prototype crate: its host keeps to the exponential *)
(* backoff and to the latest token, its runtime conserves its permits and   *)
(* leaves nothing behind, and its session conserves its permits and tells   *)
(* its callers why it ended, for all sizes, capacities, delays and errors.  *)
(***************************************************************************)
EXTENDS Prototype, Sequences, FiniteSetTheorems, WellFoundedInduction, TLAPS

-----------------------------------------------------------------------------
(* The host.                                                               *)

\* A set of naturals has a least element.
LEMMA LeastNatural ==
    ASSUME NEW S, S \subseteq Nat, S # {}
    PROVE  \E n \in S : \A m \in S : n <= m
<1> DEFINE R == OpToRel(<, Nat)
<1>1. IsWellFoundedOn(R, Nat)
  BY NatLessThanWellFounded
<1>2. \A m, n \in Nat : m < n => <<m, n>> \in R
  BY DEF OpToRel
<1> HIDE DEF R
<1>3. PICK n \in S : \A m \in S : ~ (<<m, n>> \in R)
  BY <1>1, WFMin
<1>4. ASSUME NEW m \in S PROVE n <= m
  <2>1. m \in Nat /\ n \in Nat
    OBVIOUS
  <2>2. ~(m < n)
    BY <1>2, <1>3, <2>1, Zenon
  <2> QED
    BY <2>1, <2>2
<1> QED
  BY <1>4

\* f is the backoff of up to n failures.
Solves(f, n) ==
    f = [i \in 0 .. n |-> IF i = 0 THEN InitialDelay ELSE Host!Doubled(f[i - 1])]

\* There is one for every n.
LEMMA Solvable == \A n \in Nat : \E f : Solves(f, n)
<1> DEFINE Bad == {n \in Nat : ~ \E f : Solves(f, n)}
<1> SUFFICES ASSUME Bad # {} PROVE FALSE
  OBVIOUS
<1>1. PICK n \in Bad : \A m \in Bad : n <= m
  <2>1. Bad \subseteq Nat
    OBVIOUS
  <2> HIDE DEF Bad
  <2> QED
    BY <2>1, LeastNatural
<1>2. n # 0
  <2>1. Solves([i \in 0 .. 0 |-> InitialDelay], 0)
    BY DEF Solves
  <2> QED
    BY <2>1
<1>3. n - 1 \in Nat /\ n - 1 \notin Bad
  BY <1>1, <1>2
<1>4. PICK f : Solves(f, n - 1)
  BY <1>3
<1> DEFINE g == [i \in 0 .. n |-> IF i < n THEN f[i] ELSE Host!Doubled(f[n - 1])]
<1>5. Solves(g, n)
  <2>1. ASSUME NEW i \in 0 .. n
        PROVE  g[i] = IF i = 0 THEN InitialDelay ELSE Host!Doubled(g[i - 1])
    <3>1. CASE i = 0
      BY <3>1, <1>2, <1>3, <1>4 DEF Solves
    <3>2. CASE i # 0 /\ i < n
      <4>1. i \in 0 .. n - 1 /\ i - 1 \in 0 .. n - 1 /\ i - 1 \in 0 .. n /\ i - 1 < n
        BY <3>2
      <4>2. f[i] = Host!Doubled(f[i - 1])
        BY <1>4, <3>2, <4>1 DEF Solves
      <4>3. g[i] = f[i] /\ g[i - 1] = f[i - 1]
        BY <3>2, <4>1
      <4> QED
        BY <3>2, <4>2, <4>3
    <3>3. CASE i = n
      BY <3>3, <1>2, <1>3
    <3> QED
      BY <3>1, <3>2, <3>3
  <2> QED
    BY <2>1 DEF Solves
<1> QED
  BY <1>1, <1>5

\* So the backoff satisfies its own equation.
LEMMA ExponentialDef ==
    /\ Host!Exponential[0] = InitialDelay
    /\ \A n \in 1 .. MaxStreak : Host!Exponential[n] = Host!Doubled(Host!Exponential[n - 1])
<1>1. \E f : Solves(f, MaxStreak)
  BY Solvable, DelaysAssumption
<1>2. Host!Exponential = CHOOSE f : Solves(f, MaxStreak)
  BY DEF Host!Exponential, Solves
<1>3. Solves(Host!Exponential, MaxStreak)
  BY <1>1, <1>2
<1>4. ASSUME NEW f, Solves(f, MaxStreak), NEW n \in 0 .. MaxStreak
      PROVE  f[n] = IF n = 0 THEN InitialDelay ELSE Host!Doubled(f[n - 1])
  BY <1>4 DEF Solves
<1>5. \A n \in 0 .. MaxStreak :
         Host!Exponential[n] = IF n = 0 THEN InitialDelay ELSE Host!Doubled(Host!Exponential[n - 1])
  BY <1>3, <1>4
<1>6. 0 \in 0 .. MaxStreak /\ \A n \in 1 .. MaxStreak : n \in 0 .. MaxStreak /\ n # 0
  BY DelaysAssumption
<1> QED
  BY <1>5, <1>6

\* What a failure does to the delay and to the count of failures.
HostRetries(e) ==
    IF Host!Action(e) = "RetryAfter"
    THEN x10' = Host!Doubled(x10) /\ x13' = Host!Smaller(x13 + 1, MaxStreak)
    ELSE x10' = x10 /\ x13' = x13

\* Doubling keeps the delay on the curve, and past its end the curve is flat.
LEMMA RetryKeepsBackoff ==
    ASSUME Host!HostInv, NEW e, HostRetries(e)
    PROVE  /\ x10' \in Nat /\ x13' \in 0 .. MaxStreak
           /\ x10' = Host!Exponential[x13']
<1>1. /\ x10 \in Nat /\ x13 \in 0 .. MaxStreak /\ x10 = Host!Exponential[x13]
  BY DEF Host!HostInv, Host!BackoffIsExponential
<1>2. CASE Host!Action(e) # "RetryAfter"
  BY <1>1, <1>2 DEF HostRetries
<1>3. CASE Host!Action(e) = "RetryAfter"
  <2>1. x10' = Host!Doubled(x10) /\ x13' = Host!Smaller(x13 + 1, MaxStreak)
    BY <1>3 DEF HostRetries
  <2>2. x10' \in Nat
    BY <1>1, <2>1, DelaysAssumption DEF Host!Doubled, Host!Smaller
  <2>3. CASE x13 < MaxStreak
    <3>1. x13' = x13 + 1 /\ x13 + 1 \in 1 .. MaxStreak /\ (x13 + 1) - 1 = x13
      BY <1>1, <2>1, <2>3, DelaysAssumption DEF Host!Smaller
    <3>2. Host!Exponential[x13 + 1] = Host!Doubled(Host!Exponential[x13])
      BY <3>1, ExponentialDef
    <3> QED
      BY <1>1, <2>1, <2>2, <3>1, <3>2
  <2>4. CASE x13 = MaxStreak
    <3>1. x13' = x13
      BY <1>1, <2>1, <2>4, DelaysAssumption DEF Host!Smaller
    <3> QED
      BY <1>1, <2>1, <2>2, <2>4, <3>1, StreakAssumption
  <2> QED
    BY <1>1, <2>3, <2>4, DelaysAssumption
<1> QED
  BY <1>2, <1>3

\* Every step of the host keeps its invariant.
LEMMA HostStep ==
    ASSUME Host!HostInv, Host!Next
    PROVE  Host!HostInv'
<1> USE DEF Host!HostInv, Host!LatestTokenOffered, Host!BackoffIsExponential
<1>1. ASSUME NEW e, Host!AfterFailure(e), UNCHANGED <<x3, x5, x12>>, x1 # "stopped"
      PROVE  Host!HostInv'
  <2>1. HostRetries(e)
    BY <1>1 DEF Host!AfterFailure, Host!DelayAfter, HostRetries
  <2>2. x1' # "connecting"
    BY <1>1 DEF Host!AfterFailure, Host!WaitFor
  <2>3. /\ x10' \in Nat /\ x13' \in 0 .. MaxStreak
        /\ x10' = Host!Exponential[x13']
    BY <2>1, RetryKeepsBackoff
  <2> QED
    BY <1>1, <2>2, <2>3
<1>2. ASSUME NEW e \in Errors, Host!ConnectFails(e) PROVE Host!HostInv'
  BY <1>1, <1>2 DEF Host!ConnectFails, Host!tokenVars
<1>3. ASSUME NEW token \in Tokens \cup {None}, Host!ConnectSucceeds(token) PROVE Host!HostInv'
  BY <1>3, ExponentialDef, DelaysAssumption DEF Host!ConnectSucceeds, Host!adopt_device_token
<1>4. CASE Host!HostCloses
  <2>1. CASE x7 = RuntimeFailure
    BY <1>4, <2>1 DEF Host!HostCloses, Host!WaitFor, Host!tokenVars
  <2>2. CASE x7 # RuntimeFailure
    BY <1>1, <1>4, <2>2 DEF Host!HostCloses, Host!tokenVars
  <2> QED
    BY <2>1, <2>2
<1>5. CASE Host!Signal \/ Host!StopArm
  BY <1>5 DEF Host!Signal, Host!StopArm, Host!StopConnecting, Host!StopWaiting, Host!StopServing,
              Host!Stop, Host!tokenVars
<1>6. CASE Host!QueueResult \/ Host!Take \/ Host!WriteEnds \/ Host!SessionEnds
  BY <1>6 DEF Host!QueueResult, Host!Take, Host!WriteEnds, Host!SessionEnds, Host!tokenVars
<1>7. ASSUME NEW r, Host!RunFails(r) PROVE Host!HostInv'
  BY <1>7 DEF Host!RunFails, Host!tokenVars
<1>8. CASE Host!RunReturns \/ Host!ServeEnds \/ Host!DrainCloses
  BY <1>8 DEF Host!RunReturns, Host!ServeEnds, Host!DrainCloses, Host!tokenVars
<1>9. CASE Host!Drained \/ Host!DrainTimesOut
  BY <1>9 DEF Host!Drained, Host!DrainTimesOut, Host!GracefulDone, Host!GivesUp, Host!Stop,
              Host!tokenVars
<1>10. CASE Host!DelayElapses
  BY <1>10 DEF Host!DelayElapses
<1> HIDE DEF Host!HostInv, Host!LatestTokenOffered, Host!BackoffIsExponential
<1> QED
  BY <1>2, <1>3, <1>4, <1>5, <1>6, <1>7, <1>8, <1>9, <1>10 DEF Host!Next

-----------------------------------------------------------------------------
(* The runtime, of n invocations, with any ids and c permits.              *)

\* The ends of a queue.
LEMMA HeadTail ==
    ASSUME NEW S, NEW q \in Seq(S), q # <<>>
    PROVE  /\ Len(q) \in Nat /\ 1 \in 1 .. Len(q) /\ Head(q) = q[1] /\ Head(q) \in S
           /\ Tail(q) \in Seq(S) /\ Len(Tail(q)) = Len(q) - 1
           /\ \A k \in 1 .. Len(Tail(q)) :
                 Tail(q)[k] = q[k + 1] /\ k + 1 \in 1 .. Len(q) /\ k + 1 # 1
  OBVIOUS

\* A queue that was dropped.
LEMMA EmptyFacts == \A S : <<>> \in Seq(S) /\ Len(<<>>) = 0
  OBVIOUS

\* What joins it.
LEMMA AppendFacts ==
    ASSUME NEW S, NEW q \in Seq(S), NEW e \in S
    PROVE  /\ Append(q, e) \in Seq(S) /\ Len(q) \in Nat /\ Len(Append(q, e)) = Len(q) + 1
           /\ \A k \in 1 .. Len(Append(q, e)) :
                 \/ k \in 1 .. Len(q) /\ Append(q, e)[k] = q[k] /\ k # Len(q) + 1
                 \/ k = Len(q) + 1 /\ Append(q, e)[k] = e
  OBVIOUS

\* What the invariant says of everything but the permits.
RuntimeTyped(n, ids, c) ==
    /\ x1 \in {"running", "cancelled", "joining", "returned", "dropped"}
    /\ x2 \in {"open", "closing", "closed"}
    /\ x3 \in [Runtime(n, ids, c)!Invocations -> Runtime(n, ids, c)!Stages]
    /\ x4 \in [Runtime(n, ids, c)!Invocations -> {"run", "dispatch", None}]
    /\ x5 \in [Runtime(n, ids, c)!Invocations -> ids \cup {None}]
    /\ x6 \in [ids -> Runtime(n, ids, c)!Invocations \cup {None}]
    /\ x7 \subseteq Runtime(n, ids, c)!Invocations /\ x8 \subseteq Runtime(n, ids, c)!Invocations
    /\ x12 \subseteq Runtime(n, ids, c)!Invocations /\ x13 \subseteq Runtime(n, ids, c)!Invocations
    /\ x10 \in Seq(Runtime(n, ids, c)!Invocations) /\ Len(x10) <= DeliveryCapacity
    /\ x11 \in {"idle", "sending", "failed", "ended"}

RuntimePlaced(n, ids, c) ==
    /\ RuntimeTyped(n, ids, c)
    /\ Runtime(n, ids, c)!Taken /\ Runtime(n, ids, c)!Queued
    /\ Runtime(n, ids, c)!Guarded /\ Runtime(n, ids, c)!Tabled
    /\ Runtime(n, ids, c)!ReturnsQuiet /\ Runtime(n, ids, c)!AbandonedIsCancelled

\* Every step of the runtime keeps the types of its state and the capacity of the
\* overload queue;
LEMMA RuntimeTypedStep ==
    ASSUME NEW n \in Nat, NEW ids, NEW c \in Nat,
           RuntimePlaced(n, ids, c), Runtime(n, ids, c)!Next
    PROVE  RuntimeTyped(n, ids, c)'
<1> DEFINE Goal == RuntimeTyped(n, ids, c)'
<1> SUFFICES Goal
  OBVIOUS
<1>0. None \notin Runtime(n, ids, c)!Invocations
  BY NoneAssumption DEF Runtime!Invocations
<1> USE <1>0 DEF RuntimeTyped, Runtime!Stages, Runtime!Alive, Runtime!Unjoined, Runtime!Taken,
   RuntimePlaced, Runtime!callVars, Runtime!trackVars, Runtime!workerVars
<1>1. ASSUME NEW i \in Runtime(n, ids, c)!Invocations, NEW x \in ids,
             Runtime(n, ids, c)!RunReceives(i, x)
      PROVE  Goal
  <2>1. x10' \in Seq(Runtime(n, ids, c)!Invocations) /\ Len(x10') <= DeliveryCapacity
    <3>1. /\ x10 \in Seq(Runtime(n, ids, c)!Invocations) /\ Len(x10) <= DeliveryCapacity
          /\ x10' = x10 \/ (x10' = Append(x10, i) /\ Len(x10) < DeliveryCapacity)
      BY <1>1
         DEF Runtime!RunReceives, Runtime!Arrives, Runtime!Spawn, Runtime!BeginStop,
           Runtime!CancelAll, Runtime!QueueHasRoom
    <3> HIDE DEF RuntimeTyped, RuntimePlaced
    <3>2. /\ Append(x10, i) \in Seq(Runtime(n, ids, c)!Invocations)
          /\ Len(x10) \in Nat /\ Len(Append(x10, i)) = Len(x10) + 1
      BY <1>1, <3>1, AppendFacts
    <3>3. DeliveryCapacity \in Nat
      BY RuntimeAssumption
    <3> QED
      BY <3>1, <3>2, <3>3
  <2> QED
    BY <1>1, <2>1
       DEF Runtime!RunReceives, Runtime!Arrives, Runtime!Spawn, Runtime!BeginStop,
           Runtime!CancelAll, Runtime!QueueHasRoom
<1>2. ASSUME NEW i \in Runtime(n, ids, c)!Invocations, NEW x \in ids,
             Runtime(n, ids, c)!Dispatch(i, x)
      PROVE  Goal
  BY <1>2 DEF Runtime!Dispatch, Runtime!Arrives, Runtime!Spawn
<1>3. ASSUME NEW i \in Runtime(n, ids, c)!Invocations, NEW outcome,
             Runtime(n, ids, c)!Poll(i, outcome)
      PROVE  Goal
  BY <1>3 DEF Runtime!Poll
<1>4. ASSUME NEW i \in Runtime(n, ids, c)!Invocations, NEW outcome,
             Runtime(n, ids, c)!HandlerEnds(i, outcome)
      PROVE  Goal
  BY <1>4 DEF Runtime!HandlerEnds, Runtime!KeepId
<1>5. ASSUME NEW i \in Runtime(n, ids, c)!Invocations, NEW ok \in BOOLEAN,
             Runtime(n, ids, c)!Completes(i, ok)
      PROVE  Goal
  BY <1>5 DEF Runtime!Completes, Runtime!DropGuard, Runtime!untrack, Runtime!Disarmed
<1>6. ASSUME NEW i \in Runtime(n, ids, c)!Invocations,
             Runtime(n, ids, c)!OverloadEnds(i)
      PROVE  Goal
  BY <1>6 DEF Runtime!OverloadEnds
<1>7. ASSUME NEW i \in Runtime(n, ids, c)!Invocations,
             Runtime(n, ids, c)!DispatchClosed(i)
      PROVE  Goal
  BY <1>7 DEF Runtime!DispatchClosed, Runtime!SeesClosed, Runtime!DropGuard, Runtime!untrack,
     Runtime!Disarmed
<1>8. ASSUME NEW i \in Runtime(n, ids, c)!Invocations,
             Runtime(n, ids, c)!TaskAborted(i)
      PROVE  Goal
  BY <1>8 DEF Runtime!TaskAborted, Runtime!Aborted, Runtime!DropGuard, Runtime!untrack,
     Runtime!Disarmed
<1>9. ASSUME NEW i \in Runtime(n, ids, c)!Invocations,
             Runtime(n, ids, c)!JoinsStopped(i)
      PROVE  Goal
  BY <1>9 DEF Runtime!JoinsStopped
<1>10. ASSUME NEW i \in Runtime(n, ids, c)!Invocations,
             Runtime(n, ids, c)!RunJoins(i)
      PROVE  Goal
  BY <1>10 DEF Runtime!RunJoins, Runtime!BeginStop, Runtime!CancelAll
<1>11. ASSUME NEW ok \in BOOLEAN,
             Runtime(n, ids, c)!WorkerSent(ok)
      PROVE  Goal
  <2>1. x10' \in Seq(Runtime(n, ids, c)!Invocations) /\ Len(x10') <= DeliveryCapacity
    BY <1>11, EmptyFacts, HeadTail, AppendFacts, RuntimeAssumption
       DEF Runtime!WorkerSent
  <2> QED
    BY <1>11, <2>1 DEF Runtime!WorkerSent
<1>12. CASE Runtime(n, ids, c)!WorkerTakes
  <2>1. x10 # <<>> /\ x10 \in Seq(Runtime(n, ids, c)!Invocations) /\ x10' = Tail(x10)
    BY <1>12 DEF Runtime!WorkerTakes
  <2>2. /\ x10' \in Seq(Runtime(n, ids, c)!Invocations) /\ Len(x10') <= DeliveryCapacity
        /\ Head(x10) \in Runtime(n, ids, c)!Invocations
    <3>1. Len(x10) <= DeliveryCapacity
      OBVIOUS
    <3> HIDE DEF RuntimeTyped, RuntimePlaced
    <3> QED
      BY <2>1, <3>1, HeadTail, RuntimeAssumption
  <2> QED
    BY <1>12, <2>2 DEF Runtime!WorkerTakes
<1>13. CASE Runtime(n, ids, c)!Returns
  <2>1. x10' \in Seq(Runtime(n, ids, c)!Invocations) /\ Len(x10') <= DeliveryCapacity
    BY <1>13, EmptyFacts, HeadTail, AppendFacts, RuntimeAssumption
       DEF Runtime!Returns
  <2> QED
    BY <1>13, <2>1 DEF Runtime!Returns
<1>14. CASE \/ Runtime(n, ids, c)!RunSeesClosed \/ Runtime(n, ids, c)!RunSeesWorker
            \/ Runtime(n, ids, c)!RunInputFails
  BY <1>14 DEF Runtime!RunSeesClosed, Runtime!RunSeesWorker, Runtime!RunInputFails,
     Runtime!BeginStop, Runtime!CancelAll
<1>15. CASE Runtime(n, ids, c)!AbortAll \/ Runtime(n, ids, c)!SessionCloses
  BY <1>15 DEF Runtime!AbortAll, Runtime!SessionCloses
<1>16. ASSUME NEW i \in Runtime(n, ids, c)!Invocations,
              Runtime(n, ids, c)!DispatchLeaves(i)
       PROVE  Goal
  BY <1>16 DEF Runtime!DispatchLeaves, Runtime!CancelAll
<1>17. ASSUME NEW i \in Runtime(n, ids, c)!Invocations,
              Runtime(n, ids, c)!DispatchDropped(i)
       PROVE  Goal
  BY <1>17 DEF Runtime!DispatchDropped, Runtime!DropGuard, Runtime!untrack, Runtime!Disarmed
<1>18. CASE Runtime(n, ids, c)!RunDropped
  <2>1. x10' \in Seq(Runtime(n, ids, c)!Invocations) /\ Len(x10') <= DeliveryCapacity
    BY <1>18, EmptyFacts, RuntimeAssumption DEF Runtime!RunDropped
  <2> QED
    BY <1>18, <2>1 DEF Runtime!RunDropped
<1>19. CASE Runtime(n, ids, c)!WorkerEnds
  BY <1>19 DEF Runtime!WorkerEnds
<1> HIDE DEF Goal
<1> QED
  BY <1>1, <1>2, <1>3, <1>4, <1>5, <1>6, <1>7, <1>8, <1>9, <1>10, <1>11, <1>12, <1>13, <1>14, <1>15,
     <1>16, <1>17, <1>18, <1>19
     DEF Runtime!Next, Runtime!RunSees, Runtime!Stops

\* it keeps the owners, and once run has returned nothing is run's;
LEMMA RuntimeTakenStep ==
    ASSUME NEW n \in Nat, NEW ids, NEW c \in Nat,
           RuntimePlaced(n, ids, c), Runtime(n, ids, c)!Next
    PROVE  Runtime(n, ids, c)!Taken' /\ Runtime(n, ids, c)!ReturnsQuiet'
<1> DEFINE Goal == Runtime(n, ids, c)!Taken' /\ Runtime(n, ids, c)!ReturnsQuiet'
<1> SUFFICES Goal
  OBVIOUS
<1>0. None \notin Runtime(n, ids, c)!Invocations
  BY NoneAssumption DEF Runtime!Invocations
<1> USE <1>0 DEF RuntimeTyped, Runtime!Stages, Runtime!Alive, Runtime!Unjoined, Runtime!Owned,
   Runtime!Taken, Runtime!ReturnsQuiet, RuntimePlaced, Runtime!callVars, Runtime!trackVars,
   Runtime!workerVars
<1>1. ASSUME NEW i \in Runtime(n, ids, c)!Invocations, NEW x \in ids,
             Runtime(n, ids, c)!RunReceives(i, x)
      PROVE  Goal
  BY <1>1 DEF Runtime!RunReceives, Runtime!Arrives, Runtime!Spawn, Runtime!BeginStop,
     Runtime!CancelAll, Runtime!QueueHasRoom
<1>2. ASSUME NEW i \in Runtime(n, ids, c)!Invocations, NEW x \in ids,
             Runtime(n, ids, c)!Dispatch(i, x)
      PROVE  Goal
  BY <1>2 DEF Runtime!Dispatch, Runtime!Arrives, Runtime!Spawn
<1>3. ASSUME NEW i \in Runtime(n, ids, c)!Invocations, NEW outcome,
             Runtime(n, ids, c)!Poll(i, outcome)
      PROVE  Goal
  BY <1>3 DEF Runtime!Poll
<1>4. ASSUME NEW i \in Runtime(n, ids, c)!Invocations, NEW outcome,
             Runtime(n, ids, c)!HandlerEnds(i, outcome)
      PROVE  Goal
  BY <1>4 DEF Runtime!HandlerEnds, Runtime!KeepId
<1>5. ASSUME NEW i \in Runtime(n, ids, c)!Invocations, NEW ok \in BOOLEAN,
             Runtime(n, ids, c)!Completes(i, ok)
      PROVE  Goal
  BY <1>5 DEF Runtime!Completes, Runtime!DropGuard, Runtime!untrack, Runtime!Disarmed
<1>6. ASSUME NEW i \in Runtime(n, ids, c)!Invocations,
             Runtime(n, ids, c)!OverloadEnds(i)
      PROVE  Goal
  BY <1>6 DEF Runtime!OverloadEnds
<1>7. ASSUME NEW i \in Runtime(n, ids, c)!Invocations,
             Runtime(n, ids, c)!DispatchClosed(i)
      PROVE  Goal
  BY <1>7 DEF Runtime!DispatchClosed, Runtime!SeesClosed, Runtime!DropGuard, Runtime!untrack,
     Runtime!Disarmed
<1>8. ASSUME NEW i \in Runtime(n, ids, c)!Invocations,
             Runtime(n, ids, c)!TaskAborted(i)
      PROVE  Goal
  BY <1>8 DEF Runtime!TaskAborted, Runtime!Aborted, Runtime!DropGuard, Runtime!untrack,
     Runtime!Disarmed
<1>9. ASSUME NEW i \in Runtime(n, ids, c)!Invocations,
             Runtime(n, ids, c)!JoinsStopped(i)
      PROVE  Goal
  BY <1>9 DEF Runtime!JoinsStopped
<1>10. ASSUME NEW i \in Runtime(n, ids, c)!Invocations,
             Runtime(n, ids, c)!RunJoins(i)
      PROVE  Goal
  BY <1>10 DEF Runtime!RunJoins, Runtime!BeginStop, Runtime!CancelAll
<1>11. ASSUME NEW ok \in BOOLEAN,
             Runtime(n, ids, c)!WorkerSent(ok)
      PROVE  Goal
  BY <1>11 DEF Runtime!WorkerSent
<1>12. CASE Runtime(n, ids, c)!WorkerTakes
  <2>1. x10 # <<>> /\ x10 \in Seq(Runtime(n, ids, c)!Invocations)
    BY <1>12 DEF Runtime!WorkerTakes
  <2>2. Head(x10) \in Runtime(n, ids, c)!Invocations /\ Head(x10) = x10[1] /\ 1 \in 1 .. Len(x10)
    BY <2>1, HeadTail
  <2> QED
    BY <1>12, <2>1, <2>2 DEF Runtime!WorkerTakes, Runtime!Queued
<1>13. CASE Runtime(n, ids, c)!Returns
  BY <1>13 DEF Runtime!Returns, Runtime!AllJoined
<1>14. CASE \/ Runtime(n, ids, c)!RunSeesClosed \/ Runtime(n, ids, c)!RunSeesWorker
            \/ Runtime(n, ids, c)!RunInputFails
  BY <1>14 DEF Runtime!RunSeesClosed, Runtime!RunSeesWorker, Runtime!RunInputFails,
     Runtime!BeginStop, Runtime!CancelAll
<1>15. CASE Runtime(n, ids, c)!AbortAll \/ Runtime(n, ids, c)!SessionCloses
  BY <1>15 DEF Runtime!AbortAll, Runtime!SessionCloses
<1>16. ASSUME NEW i \in Runtime(n, ids, c)!Invocations,
              Runtime(n, ids, c)!DispatchLeaves(i)
       PROVE  Goal
  BY <1>16 DEF Runtime!DispatchLeaves, Runtime!CancelAll
<1>17. ASSUME NEW i \in Runtime(n, ids, c)!Invocations,
              Runtime(n, ids, c)!DispatchDropped(i)
       PROVE  Goal
  BY <1>17 DEF Runtime!DispatchDropped, Runtime!DropGuard, Runtime!untrack, Runtime!Disarmed
<1>18. CASE Runtime(n, ids, c)!RunDropped
  BY <1>18 DEF Runtime!RunDropped, Runtime!Owned
<1>19. CASE Runtime(n, ids, c)!WorkerEnds
  BY <1>19 DEF Runtime!WorkerEnds
<1> HIDE DEF Goal
<1> QED
  BY <1>1, <1>2, <1>3, <1>4, <1>5, <1>6, <1>7, <1>8, <1>9, <1>10, <1>11, <1>12, <1>13, <1>14, <1>15,
     <1>16, <1>17, <1>18, <1>19
     DEF Runtime!Next, Runtime!RunSees, Runtime!Stops

\* it keeps the overload queue and its worker apart from the handlers;
LEMMA RuntimeQueuedStep ==
    ASSUME NEW n \in Nat, NEW ids, NEW c \in Nat,
           RuntimePlaced(n, ids, c), Runtime(n, ids, c)!Next
    PROVE  Runtime(n, ids, c)!Queued'
<1> DEFINE Goal == Runtime(n, ids, c)!Queued'
<1> SUFFICES Goal
  OBVIOUS
<1>0. None \notin Runtime(n, ids, c)!Invocations
  BY NoneAssumption DEF Runtime!Invocations
<1> USE <1>0 DEF RuntimeTyped, Runtime!Stages, Runtime!Alive, Runtime!Unjoined, Runtime!Queued,
   RuntimePlaced, Runtime!callVars, Runtime!trackVars, Runtime!workerVars
<1>1. ASSUME NEW i \in Runtime(n, ids, c)!Invocations, NEW x \in ids,
             Runtime(n, ids, c)!RunReceives(i, x)
      PROVE  Goal
  <2>1. x10 \in Seq(Runtime(n, ids, c)!Invocations)
    OBVIOUS
  <2>2. CASE x10' = x10
    BY <1>1, <2>1, <2>2
       DEF Runtime!RunReceives, Runtime!Arrives, Runtime!Spawn, Runtime!BeginStop,
           Runtime!CancelAll, Runtime!QueueHasRoom
  <2>3. CASE x10' = Append(x10, i) /\ x3' = [x3 EXCEPT ![i] = "queued"] /\ x3[i] = "unused"
    BY <1>1, <2>1, <2>3, AppendFacts
  <2> QED
    BY <1>1, <2>2, <2>3
       DEF Runtime!RunReceives, Runtime!Arrives, Runtime!Spawn, Runtime!BeginStop,
           Runtime!CancelAll, Runtime!QueueHasRoom
<1>2. ASSUME NEW i \in Runtime(n, ids, c)!Invocations, NEW x \in ids,
             Runtime(n, ids, c)!Dispatch(i, x)
      PROVE  Goal
  BY <1>2 DEF Runtime!Dispatch, Runtime!Arrives, Runtime!Spawn
<1>3. ASSUME NEW i \in Runtime(n, ids, c)!Invocations, NEW outcome,
             Runtime(n, ids, c)!Poll(i, outcome)
      PROVE  Goal
  BY <1>3 DEF Runtime!Poll
<1>4. ASSUME NEW i \in Runtime(n, ids, c)!Invocations, NEW outcome,
             Runtime(n, ids, c)!HandlerEnds(i, outcome)
      PROVE  Goal
  BY <1>4 DEF Runtime!HandlerEnds, Runtime!KeepId
<1>5. ASSUME NEW i \in Runtime(n, ids, c)!Invocations, NEW ok \in BOOLEAN,
             Runtime(n, ids, c)!Completes(i, ok)
      PROVE  Goal
  BY <1>5 DEF Runtime!Completes, Runtime!DropGuard, Runtime!untrack, Runtime!Disarmed
<1>6. ASSUME NEW i \in Runtime(n, ids, c)!Invocations,
             Runtime(n, ids, c)!OverloadEnds(i)
      PROVE  Goal
  BY <1>6 DEF Runtime!OverloadEnds
<1>7. ASSUME NEW i \in Runtime(n, ids, c)!Invocations,
             Runtime(n, ids, c)!DispatchClosed(i)
      PROVE  Goal
  BY <1>7 DEF Runtime!DispatchClosed, Runtime!SeesClosed, Runtime!DropGuard, Runtime!untrack,
     Runtime!Disarmed
<1>8. ASSUME NEW i \in Runtime(n, ids, c)!Invocations,
             Runtime(n, ids, c)!TaskAborted(i)
      PROVE  Goal
  BY <1>8 DEF Runtime!TaskAborted, Runtime!Aborted, Runtime!DropGuard, Runtime!untrack,
     Runtime!Disarmed
<1>9. ASSUME NEW i \in Runtime(n, ids, c)!Invocations,
             Runtime(n, ids, c)!JoinsStopped(i)
      PROVE  Goal
  BY <1>9 DEF Runtime!JoinsStopped
<1>10. ASSUME NEW i \in Runtime(n, ids, c)!Invocations,
             Runtime(n, ids, c)!RunJoins(i)
      PROVE  Goal
  BY <1>10 DEF Runtime!RunJoins, Runtime!BeginStop, Runtime!CancelAll
<1>11. ASSUME NEW ok \in BOOLEAN,
             Runtime(n, ids, c)!WorkerSent(ok)
      PROVE  Goal
  BY <1>11 DEF Runtime!WorkerSent
<1>12. CASE Runtime(n, ids, c)!WorkerTakes
  <2>1. x10 # <<>> /\ x10 \in Seq(Runtime(n, ids, c)!Invocations)
    BY <1>12 DEF Runtime!WorkerTakes
  <2> QED
    BY <1>12, <2>1, HeadTail DEF Runtime!WorkerTakes
<1>13. CASE Runtime(n, ids, c)!Returns
  BY <1>13 DEF Runtime!Returns, Runtime!AllJoined
<1>14. CASE \/ Runtime(n, ids, c)!RunSeesClosed \/ Runtime(n, ids, c)!RunSeesWorker
            \/ Runtime(n, ids, c)!RunInputFails
  BY <1>14 DEF Runtime!RunSeesClosed, Runtime!RunSeesWorker, Runtime!RunInputFails,
     Runtime!BeginStop, Runtime!CancelAll
<1>15. CASE Runtime(n, ids, c)!AbortAll \/ Runtime(n, ids, c)!SessionCloses
  BY <1>15 DEF Runtime!AbortAll, Runtime!SessionCloses
<1>16. ASSUME NEW i \in Runtime(n, ids, c)!Invocations,
              Runtime(n, ids, c)!DispatchLeaves(i)
       PROVE  Goal
  BY <1>16 DEF Runtime!DispatchLeaves, Runtime!CancelAll
<1>17. ASSUME NEW i \in Runtime(n, ids, c)!Invocations,
              Runtime(n, ids, c)!DispatchDropped(i)
       PROVE  Goal
  BY <1>17 DEF Runtime!DispatchDropped, Runtime!DropGuard, Runtime!untrack, Runtime!Disarmed
<1>18. CASE Runtime(n, ids, c)!RunDropped
  BY <1>18 DEF Runtime!RunDropped, Runtime!Owned
<1>19. CASE Runtime(n, ids, c)!WorkerEnds
  BY <1>19 DEF Runtime!WorkerEnds
<1> HIDE DEF Goal
<1> QED
  BY <1>1, <1>2, <1>3, <1>4, <1>5, <1>6, <1>7, <1>8, <1>9, <1>10, <1>11, <1>12, <1>13, <1>14, <1>15,
     <1>16, <1>17, <1>18, <1>19
     DEF Runtime!Next, Runtime!RunSees, Runtime!Stops

\* a handler that was called keeps its guard until its completion or its abort;
LEMMA RuntimeGuardedStep ==
    ASSUME NEW n \in Nat, NEW ids, NEW c \in Nat,
           RuntimePlaced(n, ids, c), Runtime(n, ids, c)!Next
    PROVE  Runtime(n, ids, c)!Guarded'
<1> DEFINE Goal == Runtime(n, ids, c)!Guarded'
<1> SUFFICES Goal
  OBVIOUS
<1>0. None \notin Runtime(n, ids, c)!Invocations
  BY NoneAssumption DEF Runtime!Invocations
<1> USE <1>0 DEF RuntimeTyped, Runtime!Stages, Runtime!Alive, Runtime!Unjoined, Runtime!Guarded,
   Runtime!Taken, RuntimePlaced, Runtime!callVars, Runtime!trackVars, Runtime!workerVars
<1>1. ASSUME NEW i \in Runtime(n, ids, c)!Invocations, NEW x \in ids,
             Runtime(n, ids, c)!RunReceives(i, x)
      PROVE  Goal
  BY <1>1 DEF Runtime!RunReceives, Runtime!Arrives, Runtime!Spawn, Runtime!BeginStop,
     Runtime!CancelAll, Runtime!QueueHasRoom
<1>2. ASSUME NEW i \in Runtime(n, ids, c)!Invocations, NEW x \in ids,
             Runtime(n, ids, c)!Dispatch(i, x)
      PROVE  Goal
  BY <1>2 DEF Runtime!Dispatch, Runtime!Arrives, Runtime!Spawn
<1>3. ASSUME NEW i \in Runtime(n, ids, c)!Invocations, NEW outcome,
             Runtime(n, ids, c)!Poll(i, outcome)
      PROVE  Goal
  BY <1>3 DEF Runtime!Poll
<1>4. ASSUME NEW i \in Runtime(n, ids, c)!Invocations, NEW outcome,
             Runtime(n, ids, c)!HandlerEnds(i, outcome)
      PROVE  Goal
  BY <1>4 DEF Runtime!HandlerEnds, Runtime!KeepId
<1>5. ASSUME NEW i \in Runtime(n, ids, c)!Invocations, NEW ok \in BOOLEAN,
             Runtime(n, ids, c)!Completes(i, ok)
      PROVE  Goal
  BY <1>5 DEF Runtime!Completes, Runtime!DropGuard, Runtime!untrack, Runtime!Disarmed
<1>6. ASSUME NEW i \in Runtime(n, ids, c)!Invocations,
             Runtime(n, ids, c)!OverloadEnds(i)
      PROVE  Goal
  BY <1>6 DEF Runtime!OverloadEnds
<1>7. ASSUME NEW i \in Runtime(n, ids, c)!Invocations,
             Runtime(n, ids, c)!DispatchClosed(i)
      PROVE  Goal
  BY <1>7 DEF Runtime!DispatchClosed, Runtime!SeesClosed, Runtime!DropGuard, Runtime!untrack,
     Runtime!Disarmed
<1>8. ASSUME NEW i \in Runtime(n, ids, c)!Invocations,
             Runtime(n, ids, c)!TaskAborted(i)
      PROVE  Goal
  BY <1>8 DEF Runtime!TaskAborted, Runtime!Aborted, Runtime!DropGuard, Runtime!untrack,
     Runtime!Disarmed
<1>9. ASSUME NEW i \in Runtime(n, ids, c)!Invocations,
             Runtime(n, ids, c)!JoinsStopped(i)
      PROVE  Goal
  BY <1>9 DEF Runtime!JoinsStopped
<1>10. ASSUME NEW i \in Runtime(n, ids, c)!Invocations,
             Runtime(n, ids, c)!RunJoins(i)
      PROVE  Goal
  BY <1>10 DEF Runtime!RunJoins, Runtime!BeginStop, Runtime!CancelAll
<1>11. ASSUME NEW ok \in BOOLEAN,
             Runtime(n, ids, c)!WorkerSent(ok)
      PROVE  Goal
  BY <1>11 DEF Runtime!WorkerSent
<1>12. CASE Runtime(n, ids, c)!WorkerTakes
  <2>1. x10 # <<>> /\ x10 \in Seq(Runtime(n, ids, c)!Invocations)
    BY <1>12 DEF Runtime!WorkerTakes
  <2>2. Head(x10) \in Runtime(n, ids, c)!Invocations /\ Head(x10) = x10[1] /\ 1 \in 1 .. Len(x10)
    BY <2>1, HeadTail
  <2> QED
    BY <1>12, <2>1, <2>2 DEF Runtime!WorkerTakes, Runtime!Queued
<1>13. CASE Runtime(n, ids, c)!Returns
  BY <1>13 DEF Runtime!Returns, Runtime!AllJoined
<1>14. CASE \/ Runtime(n, ids, c)!RunSeesClosed \/ Runtime(n, ids, c)!RunSeesWorker
            \/ Runtime(n, ids, c)!RunInputFails
  BY <1>14 DEF Runtime!RunSeesClosed, Runtime!RunSeesWorker, Runtime!RunInputFails,
     Runtime!BeginStop, Runtime!CancelAll
<1>15. CASE Runtime(n, ids, c)!AbortAll \/ Runtime(n, ids, c)!SessionCloses
  BY <1>15 DEF Runtime!AbortAll, Runtime!SessionCloses
<1>16. ASSUME NEW i \in Runtime(n, ids, c)!Invocations,
              Runtime(n, ids, c)!DispatchLeaves(i)
       PROVE  Goal
  BY <1>16 DEF Runtime!DispatchLeaves, Runtime!CancelAll
<1>17. ASSUME NEW i \in Runtime(n, ids, c)!Invocations,
              Runtime(n, ids, c)!DispatchDropped(i)
       PROVE  Goal
  BY <1>17 DEF Runtime!DispatchDropped, Runtime!DropGuard, Runtime!untrack, Runtime!Disarmed
<1>18. CASE Runtime(n, ids, c)!RunDropped
  BY <1>18 DEF Runtime!RunDropped, Runtime!Owned
<1>19. CASE Runtime(n, ids, c)!WorkerEnds
  BY <1>19 DEF Runtime!WorkerEnds
<1> HIDE DEF Goal
<1> QED
  BY <1>1, <1>2, <1>3, <1>4, <1>5, <1>6, <1>7, <1>8, <1>9, <1>10, <1>11, <1>12, <1>13, <1>14, <1>15,
     <1>16, <1>17, <1>18, <1>19
     DEF Runtime!Next, Runtime!RunSees, Runtime!Stops

\* track, untrack and cancel_all keep the table and the guards together;
LEMMA RuntimeTabledStep ==
    ASSUME NEW n \in Nat, NEW ids, NEW c \in Nat,
           RuntimePlaced(n, ids, c), Runtime(n, ids, c)!Next
    PROVE  Runtime(n, ids, c)!Tabled'
<1> DEFINE Goal == Runtime(n, ids, c)!Tabled'
<1> SUFFICES Goal
  OBVIOUS
<1>0. None \notin Runtime(n, ids, c)!Invocations
  BY NoneAssumption DEF Runtime!Invocations
<1> USE <1>0 DEF RuntimeTyped, Runtime!Stages, Runtime!Alive, Runtime!Unjoined, Runtime!Guarded,
   Runtime!Tabled, Runtime!Taken, RuntimePlaced, Runtime!callVars, Runtime!trackVars,
   Runtime!workerVars
<1>1. ASSUME NEW i \in Runtime(n, ids, c)!Invocations, NEW x \in ids,
             Runtime(n, ids, c)!RunReceives(i, x)
      PROVE  Goal
  BY <1>1 DEF Runtime!RunReceives, Runtime!Arrives, Runtime!Spawn, Runtime!BeginStop,
     Runtime!CancelAll, Runtime!QueueHasRoom
<1>2. ASSUME NEW i \in Runtime(n, ids, c)!Invocations, NEW x \in ids,
             Runtime(n, ids, c)!Dispatch(i, x)
      PROVE  Goal
  BY <1>2 DEF Runtime!Dispatch, Runtime!Arrives, Runtime!Spawn
<1>3. ASSUME NEW i \in Runtime(n, ids, c)!Invocations, NEW outcome,
             Runtime(n, ids, c)!Poll(i, outcome)
      PROVE  Goal
  BY <1>3 DEF Runtime!Poll
<1>4. ASSUME NEW i \in Runtime(n, ids, c)!Invocations, NEW outcome,
             Runtime(n, ids, c)!HandlerEnds(i, outcome)
      PROVE  Goal
  BY <1>4 DEF Runtime!HandlerEnds, Runtime!KeepId
<1>5. ASSUME NEW i \in Runtime(n, ids, c)!Invocations, NEW ok \in BOOLEAN,
             Runtime(n, ids, c)!Completes(i, ok)
      PROVE  Goal
  BY <1>5 DEF Runtime!Completes, Runtime!DropGuard, Runtime!untrack, Runtime!Disarmed
<1>6. ASSUME NEW i \in Runtime(n, ids, c)!Invocations,
             Runtime(n, ids, c)!OverloadEnds(i)
      PROVE  Goal
  BY <1>6 DEF Runtime!OverloadEnds
<1>7. ASSUME NEW i \in Runtime(n, ids, c)!Invocations,
             Runtime(n, ids, c)!DispatchClosed(i)
      PROVE  Goal
  BY <1>7 DEF Runtime!DispatchClosed, Runtime!SeesClosed, Runtime!DropGuard, Runtime!untrack,
     Runtime!Disarmed
<1>8. ASSUME NEW i \in Runtime(n, ids, c)!Invocations,
             Runtime(n, ids, c)!TaskAborted(i)
      PROVE  Goal
  BY <1>8 DEF Runtime!TaskAborted, Runtime!Aborted, Runtime!DropGuard, Runtime!untrack,
     Runtime!Disarmed
<1>9. ASSUME NEW i \in Runtime(n, ids, c)!Invocations,
             Runtime(n, ids, c)!JoinsStopped(i)
      PROVE  Goal
  BY <1>9 DEF Runtime!JoinsStopped
<1>10. ASSUME NEW i \in Runtime(n, ids, c)!Invocations,
             Runtime(n, ids, c)!RunJoins(i)
      PROVE  Goal
  BY <1>10 DEF Runtime!RunJoins, Runtime!BeginStop, Runtime!CancelAll
<1>11. ASSUME NEW ok \in BOOLEAN,
             Runtime(n, ids, c)!WorkerSent(ok)
      PROVE  Goal
  BY <1>11 DEF Runtime!WorkerSent
<1>12. CASE Runtime(n, ids, c)!WorkerTakes
  BY <1>12 DEF Runtime!WorkerTakes
<1>13. CASE Runtime(n, ids, c)!Returns
  BY <1>13 DEF Runtime!Returns, Runtime!AllJoined
<1>14. CASE \/ Runtime(n, ids, c)!RunSeesClosed \/ Runtime(n, ids, c)!RunSeesWorker
            \/ Runtime(n, ids, c)!RunInputFails
  BY <1>14 DEF Runtime!RunSeesClosed, Runtime!RunSeesWorker, Runtime!RunInputFails,
     Runtime!BeginStop, Runtime!CancelAll
<1>15. CASE Runtime(n, ids, c)!AbortAll \/ Runtime(n, ids, c)!SessionCloses
  BY <1>15 DEF Runtime!AbortAll, Runtime!SessionCloses
<1>16. ASSUME NEW i \in Runtime(n, ids, c)!Invocations,
              Runtime(n, ids, c)!DispatchLeaves(i)
       PROVE  Goal
  BY <1>16 DEF Runtime!DispatchLeaves, Runtime!CancelAll
<1>17. ASSUME NEW i \in Runtime(n, ids, c)!Invocations,
              Runtime(n, ids, c)!DispatchDropped(i)
       PROVE  Goal
  BY <1>17 DEF Runtime!DispatchDropped, Runtime!DropGuard, Runtime!untrack, Runtime!Disarmed
<1>18. CASE Runtime(n, ids, c)!RunDropped
  BY <1>18 DEF Runtime!RunDropped, Runtime!Owned
<1>19. CASE Runtime(n, ids, c)!WorkerEnds
  BY <1>19 DEF Runtime!WorkerEnds
<1> HIDE DEF Goal
<1> QED
  BY <1>1, <1>2, <1>3, <1>4, <1>5, <1>6, <1>7, <1>8, <1>9, <1>10, <1>11, <1>12, <1>13, <1>14, <1>15,
     <1>16, <1>17, <1>18, <1>19
     DEF Runtime!Next, Runtime!RunSees, Runtime!Stops

\* and whoever leaves without delivering its result is cancelled by its guard.
LEMMA RuntimeAbandonedStep ==
    ASSUME NEW n \in Nat, NEW ids, NEW c \in Nat,
           RuntimePlaced(n, ids, c), Runtime(n, ids, c)!Next
    PROVE  Runtime(n, ids, c)!AbandonedIsCancelled'
<1> DEFINE Goal == Runtime(n, ids, c)!AbandonedIsCancelled'
<1> SUFFICES Goal
  OBVIOUS
<1>0. None \notin Runtime(n, ids, c)!Invocations
  BY NoneAssumption DEF Runtime!Invocations
<1> USE <1>0 DEF RuntimeTyped, Runtime!Stages, Runtime!Alive, Runtime!Unjoined, Runtime!Guarded,
   Runtime!AbandonedIsCancelled, RuntimePlaced, Runtime!callVars, Runtime!trackVars,
   Runtime!workerVars
<1>1. ASSUME NEW i \in Runtime(n, ids, c)!Invocations, NEW x \in ids,
             Runtime(n, ids, c)!RunReceives(i, x)
      PROVE  Goal
  BY <1>1 DEF Runtime!RunReceives, Runtime!Arrives, Runtime!Spawn, Runtime!BeginStop,
     Runtime!CancelAll, Runtime!QueueHasRoom
<1>2. ASSUME NEW i \in Runtime(n, ids, c)!Invocations, NEW x \in ids,
             Runtime(n, ids, c)!Dispatch(i, x)
      PROVE  Goal
  BY <1>2 DEF Runtime!Dispatch, Runtime!Arrives, Runtime!Spawn
<1>3. ASSUME NEW i \in Runtime(n, ids, c)!Invocations, NEW outcome,
             Runtime(n, ids, c)!Poll(i, outcome)
      PROVE  Goal
  BY <1>3 DEF Runtime!Poll
<1>4. ASSUME NEW i \in Runtime(n, ids, c)!Invocations, NEW outcome,
             Runtime(n, ids, c)!HandlerEnds(i, outcome)
      PROVE  Goal
  BY <1>4 DEF Runtime!HandlerEnds, Runtime!KeepId
<1>5. ASSUME NEW i \in Runtime(n, ids, c)!Invocations, NEW ok \in BOOLEAN,
             Runtime(n, ids, c)!Completes(i, ok)
      PROVE  Goal
  BY <1>5 DEF Runtime!Completes, Runtime!DropGuard, Runtime!untrack, Runtime!Disarmed
<1>6. ASSUME NEW i \in Runtime(n, ids, c)!Invocations,
             Runtime(n, ids, c)!OverloadEnds(i)
      PROVE  Goal
  BY <1>6 DEF Runtime!OverloadEnds
<1>7. ASSUME NEW i \in Runtime(n, ids, c)!Invocations,
             Runtime(n, ids, c)!DispatchClosed(i)
      PROVE  Goal
  BY <1>7 DEF Runtime!DispatchClosed, Runtime!SeesClosed, Runtime!DropGuard, Runtime!untrack,
     Runtime!Disarmed
<1>8. ASSUME NEW i \in Runtime(n, ids, c)!Invocations,
             Runtime(n, ids, c)!TaskAborted(i)
      PROVE  Goal
  BY <1>8 DEF Runtime!TaskAborted, Runtime!Aborted, Runtime!DropGuard, Runtime!untrack,
     Runtime!Disarmed
<1>9. ASSUME NEW i \in Runtime(n, ids, c)!Invocations,
             Runtime(n, ids, c)!JoinsStopped(i)
      PROVE  Goal
  BY <1>9 DEF Runtime!JoinsStopped
<1>10. ASSUME NEW i \in Runtime(n, ids, c)!Invocations,
             Runtime(n, ids, c)!RunJoins(i)
      PROVE  Goal
  BY <1>10 DEF Runtime!RunJoins, Runtime!BeginStop, Runtime!CancelAll
<1>11. ASSUME NEW ok \in BOOLEAN,
             Runtime(n, ids, c)!WorkerSent(ok)
      PROVE  Goal
  BY <1>11 DEF Runtime!WorkerSent
<1>12. CASE Runtime(n, ids, c)!WorkerTakes
  BY <1>12 DEF Runtime!WorkerTakes
<1>13. CASE Runtime(n, ids, c)!Returns
  BY <1>13 DEF Runtime!Returns, Runtime!AllJoined
<1>14. CASE \/ Runtime(n, ids, c)!RunSeesClosed \/ Runtime(n, ids, c)!RunSeesWorker
            \/ Runtime(n, ids, c)!RunInputFails
  BY <1>14 DEF Runtime!RunSeesClosed, Runtime!RunSeesWorker, Runtime!RunInputFails,
     Runtime!BeginStop, Runtime!CancelAll
<1>15. CASE Runtime(n, ids, c)!AbortAll \/ Runtime(n, ids, c)!SessionCloses
  BY <1>15 DEF Runtime!AbortAll, Runtime!SessionCloses
<1>16. ASSUME NEW i \in Runtime(n, ids, c)!Invocations,
              Runtime(n, ids, c)!DispatchLeaves(i)
       PROVE  Goal
  BY <1>16 DEF Runtime!DispatchLeaves, Runtime!CancelAll
<1>17. ASSUME NEW i \in Runtime(n, ids, c)!Invocations,
              Runtime(n, ids, c)!DispatchDropped(i)
       PROVE  Goal
  BY <1>17 DEF Runtime!DispatchDropped, Runtime!DropGuard, Runtime!untrack, Runtime!Disarmed
<1>18. CASE Runtime(n, ids, c)!RunDropped
  BY <1>18 DEF Runtime!RunDropped, Runtime!Owned
<1>19. CASE Runtime(n, ids, c)!WorkerEnds
  BY <1>19 DEF Runtime!WorkerEnds
<1> HIDE DEF Goal
<1> QED
  BY <1>1, <1>2, <1>3, <1>4, <1>5, <1>6, <1>7, <1>8, <1>9, <1>10, <1>11, <1>12, <1>13, <1>14, <1>15,
     <1>16, <1>17, <1>18, <1>19
     DEF Runtime!Next, Runtime!RunSees, Runtime!Stops

\* The invocations that have a permit.
Holding(n, ids, c) ==
    {i \in Runtime(n, ids, c)!Invocations :
        x3[i] \in Runtime(n, ids, c)!Alive \cup Runtime(n, ids, c)!Unjoined \cup {"leaving"}}

\* How a step moves permits: it moves none, one is taken, one comes back, or run
\* ends with those of the results it holds.
PermitsMove(n, ids, c) ==
    \/ x9' = x9 /\ Holding(n, ids, c)' = Holding(n, ids, c)
    \/ \E i \in Runtime(n, ids, c)!Invocations :
          /\ i \notin Holding(n, ids, c) /\ Holding(n, ids, c)' = Holding(n, ids, c) \cup {i}
          /\ x9 > 0 /\ x9' = x9 - 1
    \/ \E i \in Holding(n, ids, c) :
          Holding(n, ids, c)' = Holding(n, ids, c) \ {i} /\ x9' = x9 + 1
    \/ \E held \in SUBSET Holding(n, ids, c) :
          Holding(n, ids, c)' = Holding(n, ids, c) \ held /\ x9' = x9 + Cardinality(held)

\* Every step moves permits in one of these ways.
LEMMA PermitsMoveStep ==
    ASSUME NEW n \in Nat, NEW ids, NEW c \in Nat,
           RuntimePlaced(n, ids, c), Runtime(n, ids, c)!Next
    PROVE  PermitsMove(n, ids, c)
<1> DEFINE Goal == PermitsMove(n, ids, c)
<1> SUFFICES Goal
  OBVIOUS
<1>0. None \notin Runtime(n, ids, c)!Invocations
  BY NoneAssumption DEF Runtime!Invocations
<1> USE <1>0 DEF RuntimeTyped, Runtime!Stages, Runtime!Alive, Runtime!Unjoined, PermitsMove, Holding,
   Runtime!Taken, Runtime!Owned, Runtime!Cardinality, RuntimePlaced, Runtime!callVars, Runtime!trackVars,
   Runtime!workerVars
<1>1. ASSUME NEW i \in Runtime(n, ids, c)!Invocations, NEW x \in ids,
             Runtime(n, ids, c)!RunReceives(i, x)
      PROVE  Goal
  BY <1>1 DEF Runtime!RunReceives, Runtime!Arrives, Runtime!Spawn, Runtime!BeginStop,
     Runtime!CancelAll, Runtime!QueueHasRoom
<1>2. ASSUME NEW i \in Runtime(n, ids, c)!Invocations, NEW x \in ids,
             Runtime(n, ids, c)!Dispatch(i, x)
      PROVE  Goal
  BY <1>2 DEF Runtime!Dispatch, Runtime!Arrives, Runtime!Spawn
<1>3. ASSUME NEW i \in Runtime(n, ids, c)!Invocations, NEW outcome,
             Runtime(n, ids, c)!Poll(i, outcome)
      PROVE  Goal
  BY <1>3 DEF Runtime!Poll
<1>4. ASSUME NEW i \in Runtime(n, ids, c)!Invocations, NEW outcome,
             Runtime(n, ids, c)!HandlerEnds(i, outcome)
      PROVE  Goal
  BY <1>4 DEF Runtime!HandlerEnds, Runtime!KeepId
<1>5. ASSUME NEW i \in Runtime(n, ids, c)!Invocations, NEW ok \in BOOLEAN,
             Runtime(n, ids, c)!Completes(i, ok)
      PROVE  Goal
  BY <1>5 DEF Runtime!Completes, Runtime!DropGuard, Runtime!untrack, Runtime!Disarmed,
     Runtime!PermitBack
<1>6. ASSUME NEW i \in Runtime(n, ids, c)!Invocations,
             Runtime(n, ids, c)!OverloadEnds(i)
      PROVE  Goal
  BY <1>6 DEF Runtime!OverloadEnds
<1>7. ASSUME NEW i \in Runtime(n, ids, c)!Invocations,
             Runtime(n, ids, c)!DispatchClosed(i)
      PROVE  Goal
  BY <1>7 DEF Runtime!DispatchClosed, Runtime!SeesClosed, Runtime!DropGuard, Runtime!untrack,
     Runtime!Disarmed
<1>8. ASSUME NEW i \in Runtime(n, ids, c)!Invocations,
             Runtime(n, ids, c)!TaskAborted(i)
      PROVE  Goal
  BY <1>8 DEF Runtime!TaskAborted, Runtime!Aborted, Runtime!DropGuard, Runtime!untrack,
     Runtime!Disarmed
<1>9. ASSUME NEW i \in Runtime(n, ids, c)!Invocations,
             Runtime(n, ids, c)!JoinsStopped(i)
      PROVE  Goal
  BY <1>9 DEF Runtime!JoinsStopped
<1>10. ASSUME NEW i \in Runtime(n, ids, c)!Invocations,
             Runtime(n, ids, c)!RunJoins(i)
      PROVE  Goal
  BY <1>10 DEF Runtime!RunJoins, Runtime!BeginStop, Runtime!CancelAll
<1>11. ASSUME NEW ok \in BOOLEAN,
             Runtime(n, ids, c)!WorkerSent(ok)
      PROVE  Goal
  BY <1>11 DEF Runtime!WorkerSent
<1>12. CASE Runtime(n, ids, c)!WorkerTakes
  <2>1. x10 # <<>> /\ x10 \in Seq(Runtime(n, ids, c)!Invocations)
    BY <1>12 DEF Runtime!WorkerTakes
  <2>2. Head(x10) \in Runtime(n, ids, c)!Invocations /\ Head(x10) = x10[1] /\ 1 \in 1 .. Len(x10)
    BY <2>1, HeadTail
  <2> QED
    BY <1>12, <2>1, <2>2 DEF Runtime!WorkerTakes, Runtime!Queued
<1>13. CASE Runtime(n, ids, c)!Returns
  <2>1. Runtime(n, ids, c)!Owned("run", {"held"}) \subseteq Holding(n, ids, c)
    OBVIOUS
  <2>2. Holding(n, ids, c)' = Holding(n, ids, c) \ Runtime(n, ids, c)!Owned("run", {"held"})
    BY <1>13 DEF Runtime!Returns, Runtime!AllJoined
  <2>3. x9' = x9 + Cardinality(Runtime(n, ids, c)!Owned("run", {"held"}))
    BY <1>13 DEF Runtime!Returns, Cardinality
  <2> HIDE DEF Holding, Runtime!Owned
  <2> QED
    BY <2>1, <2>2, <2>3
<1>14. CASE \/ Runtime(n, ids, c)!RunSeesClosed \/ Runtime(n, ids, c)!RunSeesWorker
            \/ Runtime(n, ids, c)!RunInputFails
  BY <1>14 DEF Runtime!RunSeesClosed, Runtime!RunSeesWorker, Runtime!RunInputFails,
     Runtime!BeginStop, Runtime!CancelAll
<1>15. CASE Runtime(n, ids, c)!AbortAll \/ Runtime(n, ids, c)!SessionCloses
  BY <1>15 DEF Runtime!AbortAll, Runtime!SessionCloses
<1>16. ASSUME NEW i \in Runtime(n, ids, c)!Invocations,
              Runtime(n, ids, c)!DispatchLeaves(i)
       PROVE  Goal
  BY <1>16 DEF Runtime!DispatchLeaves, Runtime!CancelAll
<1>17. ASSUME NEW i \in Runtime(n, ids, c)!Invocations,
              Runtime(n, ids, c)!DispatchDropped(i)
       PROVE  Goal
  BY <1>17 DEF Runtime!DispatchDropped, Runtime!DropGuard, Runtime!untrack, Runtime!Disarmed
<1>18. CASE Runtime(n, ids, c)!RunDropped
  <2>1. Runtime(n, ids, c)!Owned("run", Runtime(n, ids, c)!Unjoined) \subseteq Holding(n, ids, c)
    OBVIOUS
  <2>2. Holding(n, ids, c)'
            = Holding(n, ids, c) \ Runtime(n, ids, c)!Owned("run", Runtime(n, ids, c)!Unjoined)
    BY <1>18 DEF Runtime!RunDropped
  <2>3. x9' = x9 + Cardinality(Runtime(n, ids, c)!Owned("run", Runtime(n, ids, c)!Unjoined))
    BY <1>18 DEF Runtime!RunDropped, Cardinality
  <2> HIDE DEF Holding, Runtime!Owned, Runtime!Unjoined
  <2> QED
    BY <2>1, <2>2, <2>3
<1>19. CASE Runtime(n, ids, c)!WorkerEnds
  BY <1>19 DEF Runtime!WorkerEnds
<1> HIDE DEF Goal
<1> QED
  BY <1>1, <1>2, <1>3, <1>4, <1>5, <1>6, <1>7, <1>8, <1>9, <1>10, <1>11, <1>12, <1>13, <1>14, <1>15,
     <1>16, <1>17, <1>18, <1>19
     DEF Runtime!Next, Runtime!RunSees, Runtime!Stops

\* So permits are conserved.
LEMMA RuntimePermitsStep ==
    ASSUME NEW n \in Nat, NEW ids, NEW c \in Nat,
           x9 \in Nat, Runtime(n, ids, c)!PermitsConserved, PermitsMove(n, ids, c)
    PROVE  x9' \in 0 .. c /\ Runtime(n, ids, c)!PermitsConserved'
<1> DEFINE H == Holding(n, ids, c)
<1>1. IsFiniteSet(H) /\ Cardinality(H) \in Nat
  <2>1. IsFiniteSet(1 .. n)
    BY FS_Interval
  <2>2. H \subseteq 1 .. n
    BY DEF Holding, Runtime!Invocations
  <2> QED
    BY <2>1, <2>2, FS_Subset, FS_CardinalityType
<1>2. x9 + Cardinality(H) = c
  BY DEF Runtime!PermitsConserved, Runtime!Alive, Runtime!Unjoined, Holding, Cardinality,
         Runtime!Cardinality
<1>3. SUFFICES /\ x9' \in Nat /\ Cardinality(H') \in Nat
               /\ x9' + Cardinality(H') = c
  <2>1. x9' + Cardinality(H') = c => Runtime(n, ids, c)!PermitsConserved'
    BY DEF Runtime!PermitsConserved, Runtime!Alive, Runtime!Unjoined, Holding, Cardinality,
         Runtime!Cardinality
  <2> HIDE DEF H
  <2> QED
    BY <1>3, <2>1
<1>4. CASE x9' = x9 /\ H' = H
  BY <1>1, <1>2, <1>4
<1>5. ASSUME NEW i, i \notin H, H' = H \cup {i}, x9 > 0, x9' = x9 - 1
      PROVE  x9' \in Nat /\ Cardinality(H') \in Nat /\ x9' + Cardinality(H') = c
  <2>1. Cardinality(H') = Cardinality(H) + 1
    BY <1>1, <1>5, FS_AddElement
  <2> HIDE DEF H
  <2> QED
    BY <1>1, <1>2, <1>5, <2>1
<1>6. ASSUME NEW i \in H, H' = H \ {i}, x9' = x9 + 1
      PROVE  x9' \in Nat /\ Cardinality(H') \in Nat /\ x9' + Cardinality(H') = c
  <2>1. IsFiniteSet(H') /\ Cardinality(H') = Cardinality(H) - 1
    BY <1>1, <1>6, FS_RemoveElement
  <2>2. Cardinality(H') \in Nat
    BY <2>1, FS_CardinalityType
  <2> HIDE DEF H
  <2> QED
    BY <1>1, <1>2, <1>6, <2>1, <2>2
<1>7. ASSUME NEW held \in SUBSET H, H' = H \ held, x9' = x9 + Cardinality(held)
      PROVE  x9' \in Nat /\ Cardinality(H') \in Nat /\ x9' + Cardinality(H') = c
  <2>1. H \cap held = held
    BY <1>7
  <2>2. IsFiniteSet(H') /\ Cardinality(H') = Cardinality(H) - Cardinality(held)
    BY <1>1, <1>7, <2>1, FS_Difference
  <2>3. Cardinality(H') \in Nat /\ Cardinality(held) \in Nat
    BY <1>1, <1>7, <2>2, FS_Subset, FS_CardinalityType
  <2> HIDE DEF H
  <2> QED
    BY <1>1, <1>2, <1>7, <2>2, <2>3
<1> QED
  BY <1>4, <1>5, <1>6, <1>7 DEF PermitsMove

\* Every step of the runtime keeps its invariant.
LEMMA RuntimeStep ==
    ASSUME NEW n \in Nat, NEW ids, NEW c \in Nat,
           Runtime(n, ids, c)!RuntimeInv, Runtime(n, ids, c)!Next
    PROVE  Runtime(n, ids, c)!RuntimeInv'
<1>1. RuntimePlaced(n, ids, c) /\ x9 \in Nat /\ Runtime(n, ids, c)!PermitsConserved
  BY DEF Runtime!RuntimeInv, Runtime!TypeOK, RuntimePlaced, RuntimeTyped
<1>2. /\ RuntimeTyped(n, ids, c)'
      /\ Runtime(n, ids, c)!Taken' /\ Runtime(n, ids, c)!ReturnsQuiet'
      /\ Runtime(n, ids, c)!Queued'
      /\ Runtime(n, ids, c)!Guarded' /\ Runtime(n, ids, c)!Tabled'
      /\ Runtime(n, ids, c)!AbandonedIsCancelled'
      /\ PermitsMove(n, ids, c)
  BY <1>1, RuntimeTypedStep, RuntimeTakenStep, RuntimeQueuedStep, RuntimeGuardedStep,
     RuntimeTabledStep, RuntimeAbandonedStep, PermitsMoveStep
<1>3. x9' \in 0 .. c /\ Runtime(n, ids, c)!PermitsConserved'
  BY <1>1, <1>2, RuntimePermitsStep
<1>4. Runtime(n, ids, c)!TypeOK'
  BY <1>2, <1>3 DEF Runtime!TypeOK, RuntimeTyped
<1> QED
  BY <1>2, <1>3, <1>4 DEF Runtime!RuntimeInv

\* So does a step of nothing.
LEMMA RuntimeStutters ==
    ASSUME NEW n, NEW ids, NEW c, Runtime(n, ids, c)!RuntimeInv,
           UNCHANGED <<x1, x2, x3, x4, x5, x6, x7, x8, x9, x10, x11, x12, x13>>
    PROVE  Runtime(n, ids, c)!RuntimeInv'
<1> USE DEF Runtime!RuntimeInv
<1>1. Runtime(n, ids, c)!TypeOK'
  BY DEF Runtime!TypeOK
<1>2. Runtime(n, ids, c)!Taken' /\ Runtime(n, ids, c)!Queued'
  BY DEF Runtime!Taken, Runtime!Queued
<1>3. Runtime(n, ids, c)!Guarded' /\ Runtime(n, ids, c)!Tabled'
  BY DEF Runtime!Guarded, Runtime!Tabled
<1>4. Runtime(n, ids, c)!PermitsConserved'
  BY DEF Runtime!PermitsConserved
<1>5. Runtime(n, ids, c)!ReturnsQuiet' /\ Runtime(n, ids, c)!AbandonedIsCancelled'
  BY DEF Runtime!ReturnsQuiet, Runtime!Owned, Runtime!AbandonedIsCancelled
<1> QED
  BY <1>1, <1>2, <1>3, <1>4, <1>5

\* It holds before run has taken anything.
LEMMA RuntimeInitially ==
    ASSUME NEW n \in Nat, NEW ids, NEW c \in Nat, Runtime(n, ids, c)!Init
    PROVE  Runtime(n, ids, c)!RuntimeInv
<1> USE DEF Runtime!Init
<1>1. Runtime(n, ids, c)!TypeOK
  BY EmptyFacts, RuntimeAssumption DEF Runtime!TypeOK, Runtime!Stages
<1>2. Runtime(n, ids, c)!PermitsConserved
  <2>1. Holding(n, ids, c) = {}
    BY DEF Runtime!Alive, Runtime!Unjoined, Holding
  <2>2. x9 + Cardinality(Holding(n, ids, c)) = c
    BY <2>1, FS_EmptySet
  <2> HIDE DEF Runtime!Init
  <2> QED
    BY <2>2 DEF Runtime!PermitsConserved, Runtime!Alive, Runtime!Unjoined, Holding, Cardinality,
         Runtime!Cardinality
<1>3. Runtime(n, ids, c)!Taken /\ Runtime(n, ids, c)!Queued
  BY DEF Runtime!Taken, Runtime!Queued
<1>4. Runtime(n, ids, c)!Guarded /\ Runtime(n, ids, c)!Tabled
  BY DEF Runtime!Guarded, Runtime!Tabled
<1>5. Runtime(n, ids, c)!ReturnsQuiet /\ Runtime(n, ids, c)!AbandonedIsCancelled
  BY DEF Runtime!ReturnsQuiet, Runtime!AbandonedIsCancelled
<1> QED
  BY <1>1, <1>2, <1>3, <1>4, <1>5 DEF Runtime!RuntimeInv

\* What it says of handlers and ids.
LEMMA RuntimeSound ==
    ASSUME NEW n \in Nat, NEW ids, NEW c \in Nat, Runtime(n, ids, c)!RuntimeInv
    PROVE  SizeIsSound(n, ids, c)
<1>1. Runtime(n, ids, c)!OneHandlerPerId
  BY DEF Runtime!RuntimeInv, Runtime!TypeOK, Runtime!Guarded, Runtime!Tabled,
         Runtime!OneHandlerPerId
<1>2. Runtime(n, ids, c)!TableIsTight
  BY DEF Runtime!RuntimeInv, Runtime!Tabled, Runtime!TableIsTight
<1> QED
  BY <1>1, <1>2 DEF Runtime!RuntimeInv, SizeIsSound

-----------------------------------------------------------------------------
(* The session.                                                            *)

\* Ids that are given stay given.
LEMMA SeqGrows ==
    ASSUME NEW S, NEW T, S \subseteq T, NEW q \in Seq(S)
    PROVE  q \in Seq(T)
  OBVIOUS

\* The callers that are about to get an id, and those that have a permit.
Acquiring == {c \in Callers : x1[c] = "acquiring"}
InFlight == {c \in Callers : x1[c] \in {"sending", "waiting"}}

\* Every step of the session keeps the capacity of the command queue;
LEMMA SessionQueueStep ==
    ASSUME Session!SessionInv, Session!Next
    PROVE  /\ Len(x7') <= MaxInFlight
           /\ x11' \in {"loop", "writing", "pong", "closing", "breaking", "closed", "dropped"}
<1> DEFINE Goal == /\ Len(x7') <= MaxInFlight
                   /\ x11' \in {"loop", "writing", "pong", "closing", "breaking", "closed", "dropped"}
<1> SUFFICES Goal
  OBVIOUS
<1> USE DEF Session!IdsKnown, Session!SessionInv, Session!callerVars, Session!taskVars,
   Session!readerVars
<1>1. ASSUME NEW c \in Callers, Session!Begin(c)
      PROVE  Goal
  BY <1>1 DEF Session!Begin
<1>2. ASSUME NEW c \in Callers, Session!Acquire(c)
      PROVE  Goal
  BY <1>2 DEF Session!Acquire
<1>3. ASSUME NEW c \in Callers, Session!Enqueue(c)
      PROVE  Goal
  <2>1. /\ x7' = x7 \/ (x7' = Append(x7, x2[c]) /\ Len(x7) < MaxInFlight)
        /\ x7 \in Seq(Session!Given \cup {Session!Close})
        /\ x2[c] \in Session!Given \cup {Session!Close}
        /\ Len(x7) <= MaxInFlight /\ x11' = x11
    BY <1>3 DEF Session!Enqueue, Session!HasRoom
  <2>2. Len(x7) \in Nat /\ Len(Append(x7, x2[c])) = Len(x7) + 1
    BY <2>1, AppendFacts
  <2> QED
    BY <2>1, <2>2, SessionAssumption
<1>4. ASSUME NEW c \in Callers, Session!EnqueueFails(c)
      PROVE  Goal
  BY <1>4 DEF Session!EnqueueFails, Session!Return, Session!ClosedError, Session!CauseKnown
<1>5. ASSUME NEW c \in Callers, Session!TakeReply(c)
      PROVE  Goal
  BY <1>5 DEF Session!TakeReply, Session!Return
<1>6. ASSUME NEW c \in Callers, Session!ReplyDropped(c)
      PROVE  Goal
  BY <1>6 DEF Session!ReplyDropped, Session!Return, Session!ClosedError, Session!CauseKnown
<1>7. ASSUME NEW c \in Callers, Session!TimesOut(c)
      PROVE  Goal
  BY <1>7 DEF Session!TimesOut, Session!Return
<1>8. ASSUME NEW c \in Callers, Session!BeginClose(c)
      PROVE  Goal
  BY <1>8 DEF Session!BeginClose
<1>9. ASSUME NEW c \in Callers, Session!EnqueueClose(c)
      PROVE  Goal
  <2>1. /\ x7' = x7 \/ (x7' = Append(x7, Session!Close) /\ Len(x7) < MaxInFlight)
        /\ x7 \in Seq(Session!Given \cup {Session!Close})
        /\ Session!Close \in Session!Given \cup {Session!Close}
        /\ Len(x7) <= MaxInFlight /\ x11' = x11
    BY <1>9 DEF Session!EnqueueClose, Session!HasRoom
  <2>2. Len(x7) \in Nat /\ Len(Append(x7, Session!Close)) = Len(x7) + 1
    BY <2>1, AppendFacts
  <2> QED
    BY <2>1, <2>2, SessionAssumption
<1>10. CASE Session!TakeCancel
  BY <1>10 DEF Session!TakeCancel
<1>11. CASE Session!TakeRequest
  <2>1. /\ x7' = Tail(x7) /\ x7 # <<>> /\ x7 \in Seq(Session!Given \cup {Session!Close})
        /\ Len(x7) <= MaxInFlight /\ x11' \in {"writing", "closing"}
    BY <1>11 DEF Session!TakeRequest
  <2>2. Len(x7) \in Nat /\ Len(Tail(x7)) = Len(x7) - 1
    BY <2>1, HeadTail
  <2> QED
    BY <2>1, <2>2, SessionAssumption
<1>12. CASE Session!WriteEnds
  BY <1>12 DEF Session!WriteEnds
<1>13. CASE Session!TakeClose
  <2>1. /\ x7' = Tail(x7) /\ x7 # <<>> /\ x7 \in Seq(Session!Given \cup {Session!Close})
        /\ Len(x7) <= MaxInFlight /\ x11' \in {"writing", "closing"}
    BY <1>13 DEF Session!TakeClose
  <2>2. Len(x7) \in Nat /\ Len(Tail(x7)) = Len(x7) - 1
    BY <2>1, HeadTail
  <2> QED
    BY <2>1, <2>2, SessionAssumption
<1>14. CASE Session!Respond
  BY <1>14 DEF Session!Respond
<1>15. ASSUME NEW k \in Session!Kinds, Session!Publish(k)
      PROVE  Goal
  BY <1>15 DEF Session!Publish
<1>16. CASE Session!TakePing \/ Session!PongEnds \/ Session!Break
  BY <1>16 DEF Session!TakePing, Session!PongEnds, Session!Break
<1>17. CASE Session!FailPending
  BY <1>17 DEF Session!FailPending
<1>18. CASE Session!DropChannels
  <2>1. x7' = <<>> /\ x11' = "dropped"
    BY <1>18 DEF Session!DropChannels
  <2> QED
    BY <2>1, EmptyFacts, SessionAssumption
<1>19. CASE \/ Session!CallNextEvent \/ Session!NextEventReturns
            \/ Session!CallNextInvocation \/ Session!NextInvocationReturns
  BY <1>19 DEF Session!CallNextEvent, Session!NextEventReturns, Session!CallNextInvocation,
     Session!NextInvocationReturns
<1>20. ASSUME NEW c \in Callers, Session!RequestDropped(c)
       PROVE  Goal
  BY <1>20 DEF Session!RequestDropped, Session!PermitFreed
<1> HIDE DEF Goal
<1> QED
  BY <1>1, <1>2, <1>3, <1>4, <1>5, <1>6, <1>7, <1>8, <1>9, <1>10, <1>11, <1>12, <1>13, <1>14, <1>15,
     <1>16, <1>17, <1>18, <1>19, <1>20 DEF Session!Next, Session!CallerStep

\* it keeps the types of the callers, and a caller is told why;
LEMMA SessionTypedStep ==
    ASSUME Session!SessionInv, Session!Next
    PROVE  Session!CallersTyped'
<1> DEFINE Goal == Session!CallersTyped'
<1> SUFFICES Goal
  OBVIOUS
<1> USE DEF Session!CallersTyped, Session!IdsCounted, Session!ChannelsDropped, Session!SessionInv,
   Session!callerVars, Session!taskVars, Session!readerVars
<1>1. ASSUME NEW c \in Callers, Session!Begin(c)
      PROVE  Goal
  BY <1>1 DEF Session!Begin
<1>2. ASSUME NEW c \in Callers, Session!Acquire(c)
      PROVE  Goal
  BY <1>2 DEF Session!Acquire
<1>3. ASSUME NEW c \in Callers, Session!Enqueue(c)
      PROVE  Goal
  BY <1>3 DEF Session!Enqueue, Session!HasRoom
<1>4. ASSUME NEW c \in Callers, Session!EnqueueFails(c)
      PROVE  Goal
  BY <1>4 DEF Session!EnqueueFails, Session!Return, Session!ClosedError, Session!CauseKnown
<1>5. ASSUME NEW c \in Callers, Session!TakeReply(c)
      PROVE  Goal
  BY <1>5 DEF Session!TakeReply, Session!Return
<1>6. ASSUME NEW c \in Callers, Session!ReplyDropped(c)
      PROVE  Goal
  BY <1>6 DEF Session!ReplyDropped, Session!Return, Session!ClosedError, Session!CauseKnown
<1>7. ASSUME NEW c \in Callers, Session!TimesOut(c)
      PROVE  Goal
  BY <1>7 DEF Session!TimesOut, Session!Return
<1>8. ASSUME NEW c \in Callers, Session!BeginClose(c)
      PROVE  Goal
  BY <1>8 DEF Session!BeginClose
<1>9. ASSUME NEW c \in Callers, Session!EnqueueClose(c)
      PROVE  Goal
  BY <1>9 DEF Session!EnqueueClose, Session!HasRoom
<1>10. CASE Session!TakeCancel
  BY <1>10 DEF Session!TakeCancel
<1>11. CASE Session!TakeRequest
  BY <1>11 DEF Session!TakeRequest
<1>12. CASE Session!WriteEnds
  BY <1>12 DEF Session!WriteEnds
<1>13. CASE Session!TakeClose
  BY <1>13 DEF Session!TakeClose
<1>14. CASE Session!Respond
  BY <1>14 DEF Session!Respond
<1>15. ASSUME NEW k \in Session!Kinds, Session!Publish(k)
      PROVE  Goal
  BY <1>15 DEF Session!Publish
<1>16. CASE Session!TakePing \/ Session!PongEnds \/ Session!Break
  BY <1>16 DEF Session!TakePing, Session!PongEnds, Session!Break
<1>17. CASE Session!FailPending
  BY <1>17 DEF Session!FailPending
<1>18. CASE Session!DropChannels
  BY <1>18 DEF Session!DropChannels
<1>19. CASE \/ Session!CallNextEvent \/ Session!NextEventReturns
            \/ Session!CallNextInvocation \/ Session!NextInvocationReturns
  BY <1>19 DEF Session!CallNextEvent, Session!NextEventReturns, Session!CallNextInvocation,
     Session!NextInvocationReturns
<1>20. ASSUME NEW c \in Callers, Session!RequestDropped(c)
       PROVE  Goal
  BY <1>20 DEF Session!RequestDropped, Session!PermitFreed
<1> HIDE DEF Goal
<1> QED
  BY <1>1, <1>2, <1>3, <1>4, <1>5, <1>6, <1>7, <1>8, <1>9, <1>10, <1>11, <1>12, <1>13, <1>14, <1>15,
     <1>16, <1>17, <1>18, <1>19, <1>20 DEF Session!Next, Session!CallerStep

\* whatever is under way has an id that was given;
LEMMA SessionKnownStep ==
    ASSUME Session!SessionInv, Session!Next
    PROVE  Session!IdsKnown'
<1> DEFINE Goal == Session!IdsKnown'
<1> SUFFICES Goal
  OBVIOUS
<1> USE DEF Session!IdsKnown, Session!CallersTyped, Session!IdsCounted, Session!Given,
   Session!Close, Session!ChannelsDropped, Session!SessionInv, Session!callerVars, Session!taskVars,
   Session!readerVars
<1>1. ASSUME NEW c \in Callers, Session!Begin(c)
      PROVE  Goal
  BY <1>1 DEF Session!Begin
<1>2. ASSUME NEW c \in Callers, Session!Acquire(c)
      PROVE  Goal
  BY <1>2 DEF Session!Acquire
<1>3. ASSUME NEW c \in Callers, Session!Enqueue(c)
      PROVE  Goal
  BY <1>3 DEF Session!Enqueue, Session!HasRoom
<1>4. ASSUME NEW c \in Callers, Session!EnqueueFails(c)
      PROVE  Goal
  BY <1>4 DEF Session!EnqueueFails, Session!Return, Session!ClosedError, Session!CauseKnown
<1>5. ASSUME NEW c \in Callers, Session!TakeReply(c)
      PROVE  Goal
  BY <1>5 DEF Session!TakeReply, Session!Return
<1>6. ASSUME NEW c \in Callers, Session!ReplyDropped(c)
      PROVE  Goal
  BY <1>6 DEF Session!ReplyDropped, Session!Return, Session!ClosedError, Session!CauseKnown
<1>7. ASSUME NEW c \in Callers, Session!TimesOut(c)
      PROVE  Goal
  BY <1>7 DEF Session!TimesOut, Session!Return
<1>8. ASSUME NEW c \in Callers, Session!BeginClose(c)
      PROVE  Goal
  BY <1>8 DEF Session!BeginClose
<1>9. ASSUME NEW c \in Callers, Session!EnqueueClose(c)
      PROVE  Goal
  BY <1>9 DEF Session!EnqueueClose, Session!HasRoom
<1>10. CASE Session!TakeCancel
  BY <1>10 DEF Session!TakeCancel
<1>11. CASE Session!TakeRequest
  BY <1>11 DEF Session!TakeRequest
<1>12. CASE Session!WriteEnds
  BY <1>12 DEF Session!WriteEnds
<1>13. CASE Session!TakeClose
  BY <1>13 DEF Session!TakeClose
<1>14. CASE Session!Respond
  BY <1>14 DEF Session!Respond
<1>15. ASSUME NEW k \in Session!Kinds, Session!Publish(k)
      PROVE  Goal
  BY <1>15 DEF Session!Publish
<1>16. CASE Session!TakePing \/ Session!PongEnds \/ Session!Break
  BY <1>16 DEF Session!TakePing, Session!PongEnds, Session!Break
<1>17. CASE Session!FailPending
  BY <1>17 DEF Session!FailPending
<1>18. CASE Session!DropChannels
  BY <1>18 DEF Session!DropChannels
<1>19. CASE \/ Session!CallNextEvent \/ Session!NextEventReturns
            \/ Session!CallNextInvocation \/ Session!NextInvocationReturns
  BY <1>19 DEF Session!CallNextEvent, Session!NextEventReturns, Session!CallNextInvocation,
     Session!NextInvocationReturns
<1>20. ASSUME NEW c \in Callers, Session!RequestDropped(c)
       PROVE  Goal
  BY <1>20 DEF Session!RequestDropped, Session!PermitFreed
<1> HIDE DEF Goal
<1> QED
  BY <1>1, <1>2, <1>3, <1>4, <1>5, <1>6, <1>7, <1>8, <1>9, <1>10, <1>11, <1>12, <1>13, <1>14, <1>15,
     <1>16, <1>17, <1>18, <1>19, <1>20 DEF Session!Next, Session!CallerStep

\* and is at one place.
LEMMA SessionPlaceStep ==
    ASSUME Session!SessionInv, Session!Next
    PROVE  Session!OnePlace'
<1> DEFINE Goal == Session!OnePlace'
<1> SUFFICES Goal
  OBVIOUS
<1> USE DEF Session!IdsKnown, Session!CallersTyped, Session!IdsCounted, Session!Given,
   Session!Close, Session!ChannelsDropped, Session!OnePlace, Session!SessionInv, Session!callerVars,
   Session!taskVars, Session!readerVars
<1>1. ASSUME NEW c \in Callers, Session!Begin(c)
      PROVE  Goal
  BY <1>1 DEF Session!Begin
<1>2. ASSUME NEW c \in Callers, Session!Acquire(c)
      PROVE  Goal
  BY <1>2 DEF Session!Acquire
<1>3. ASSUME NEW c \in Callers, Session!Enqueue(c)
      PROVE  Goal
  <2> DEFINE q == Append(x7, x2[c])
  <2>1. x7 \in Seq(Session!Given \cup {Session!Close}) /\ x2[c] \in Session!Given \cup {Session!Close}
    BY <1>3 DEF Session!Enqueue, Session!HasRoom
  <2>2. /\ x7' = x7 \/ x7' = q
        /\ x1[c] = "sending" /\ x1' = [x1 EXCEPT ![c] = "waiting"] /\ DOMAIN x1 = Callers
        /\ \A d \in Callers : x1[d] = "sending" => x2[d] # Session!Close
        /\ Session!Close \notin x9 /\ Session!Close \notin x10
        /\ x11 = "writing" => x12 # Session!Close
        /\ UNCHANGED <<x2, x9, x10, x11, x12>>
    BY <1>3 DEF Session!Enqueue, Session!HasRoom
  <2> HIDE DEF Session!IdsKnown, Session!CallersTyped, Session!IdsCounted, Session!Given,
              Session!Close, Session!OnePlace, Session!SessionInv
  <2>3. /\ Len(x7) \in Nat /\ Len(q) = Len(x7) + 1
        /\ \A k \in 1 .. Len(q) :
              \/ k \in 1 .. Len(x7) /\ q[k] = x7[k] /\ k # Len(x7) + 1
              \/ k = Len(x7) + 1 /\ q[k] = x2[c]
    BY <2>1, AppendFacts
  <2> HIDE DEF q
  <2> QED
    BY <2>2, <2>3 DEF Session!OnePlace, Session!SessionInv
<1>4. ASSUME NEW c \in Callers, Session!EnqueueFails(c)
      PROVE  Goal
  BY <1>4 DEF Session!EnqueueFails, Session!Return, Session!ClosedError, Session!CauseKnown
<1>5. ASSUME NEW c \in Callers, Session!TakeReply(c)
      PROVE  Goal
  BY <1>5 DEF Session!TakeReply, Session!Return
<1>6. ASSUME NEW c \in Callers, Session!ReplyDropped(c)
      PROVE  Goal
  BY <1>6 DEF Session!ReplyDropped, Session!Return, Session!ClosedError, Session!CauseKnown
<1>7. ASSUME NEW c \in Callers, Session!TimesOut(c)
      PROVE  Goal
  BY <1>7 DEF Session!TimesOut, Session!Return
<1>8. ASSUME NEW c \in Callers, Session!BeginClose(c)
      PROVE  Goal
  BY <1>8 DEF Session!BeginClose
<1>9. ASSUME NEW c \in Callers, Session!EnqueueClose(c)
      PROVE  Goal
  <2> DEFINE q == Append(x7, Session!Close)
  <2>1. x7 \in Seq(Session!Given \cup {Session!Close}) /\ Session!Close \in Session!Given \cup {Session!Close}
    BY <1>9 DEF Session!EnqueueClose, Session!HasRoom
  <2>2. /\ x7' = x7 \/ x7' = q
        /\ x1[c] = "closing" /\ x1' = [x1 EXCEPT ![c] = "idle"] /\ DOMAIN x1 = Callers
        /\ \A d \in Callers : x1[d] = "sending" => x2[d] # Session!Close
        /\ Session!Close \notin x9 /\ Session!Close \notin x10
        /\ x11 = "writing" => x12 # Session!Close
        /\ UNCHANGED <<x2, x9, x10, x11, x12>>
    BY <1>9 DEF Session!EnqueueClose, Session!HasRoom
  <2> HIDE DEF Session!IdsKnown, Session!CallersTyped, Session!IdsCounted, Session!Given,
              Session!Close, Session!OnePlace, Session!SessionInv
  <2>3. /\ Len(x7) \in Nat /\ Len(q) = Len(x7) + 1
        /\ \A k \in 1 .. Len(q) :
              \/ k \in 1 .. Len(x7) /\ q[k] = x7[k] /\ k # Len(x7) + 1
              \/ k = Len(x7) + 1 /\ q[k] = Session!Close
    BY <2>1, AppendFacts
  <2> HIDE DEF q
  <2> QED
    BY <2>2, <2>3 DEF Session!OnePlace, Session!SessionInv
<1>10. CASE Session!TakeCancel
  BY <1>10 DEF Session!TakeCancel
<1>11. CASE Session!TakeRequest
  BY <1>11 DEF Session!TakeRequest
<1>12. CASE Session!WriteEnds
  <2>1. /\ x12 # 0 /\ x12 \notin x9 /\ x12 \notin x10 /\ x11 = "writing" /\ x11' = "loop"
        /\ \A k \in 1 .. Len(x7) : x7[k] # x12
        /\ \A c \in Callers : x1[c] = "sending" => x2[c] # x12
        /\ UNCHANGED <<x1, x2, x7>>
    BY <1>12 DEF Session!WriteEnds
  <2>2. CASE x9' = x9 \cup {x12} /\ x10' = x10
    BY <2>1, <2>2
  <2>3. CASE x10' = x10 \cup {x12} /\ x9' = x9
    BY <2>1, <2>3
  <2> QED
    BY <1>12, <2>2, <2>3 DEF Session!WriteEnds
<1>13. CASE Session!TakeClose
  BY <1>13 DEF Session!TakeClose
<1>14. CASE Session!Respond
  BY <1>14 DEF Session!Respond
<1>15. ASSUME NEW k \in Session!Kinds, Session!Publish(k)
      PROVE  Goal
  BY <1>15 DEF Session!Publish
<1>16. CASE Session!TakePing \/ Session!PongEnds \/ Session!Break
  BY <1>16 DEF Session!TakePing, Session!PongEnds, Session!Break
<1>17. CASE Session!FailPending
  BY <1>17 DEF Session!FailPending
<1>18. CASE Session!DropChannels
  BY <1>18 DEF Session!DropChannels
<1>19. CASE \/ Session!CallNextEvent \/ Session!NextEventReturns
            \/ Session!CallNextInvocation \/ Session!NextInvocationReturns
  <2>1. UNCHANGED <<Session!callerVars, Session!taskVars>>
    BY <1>19 DEF Session!CallNextEvent, Session!NextEventReturns, Session!CallNextInvocation,
       Session!NextInvocationReturns
  <2> QED
    BY <2>1
<1>20. ASSUME NEW c \in Callers, Session!RequestDropped(c)
       PROVE  Goal
  BY <1>20 DEF Session!RequestDropped, Session!PermitFreed
<1> HIDE DEF Goal
<1> QED
  BY <1>1, <1>2, <1>3, <1>4, <1>5, <1>6, <1>7, <1>8, <1>9, <1>10, <1>11, <1>12, <1>13, <1>14, <1>15,
     <1>16, <1>17, <1>18, <1>19, <1>20 DEF Session!Next, Session!CallerStep

\* How a step moves callers: none to or from these sets, a request is begun, gets
\* its permit and its id, or is over, with its permit or before it has one.
CallersMove ==
    \/ UNCHANGED <<Acquiring, InFlight, x4, x5, x6>>
    \/ \E c \in Callers : /\ c \notin Acquiring /\ Acquiring' = Acquiring \cup {c}
                          /\ x4 < MaxRequests /\ x4' = x4 + 1
                          /\ UNCHANGED <<InFlight, x5, x6>>
    \/ \E c \in Acquiring : /\ Acquiring' = Acquiring \ {c}
                            /\ c \notin InFlight /\ InFlight' = InFlight \cup {c}
                            /\ x6 > 0 /\ x6' = x6 - 1 /\ x5' = x5 + 1 /\ UNCHANGED x4
    \/ \E c \in InFlight : /\ InFlight' = InFlight \ {c}
                           /\ x6' = x6 + 1
                           /\ UNCHANGED <<Acquiring, x4, x5>>
    \/ \E c \in Acquiring : Acquiring' = Acquiring \ {c} /\ UNCHANGED <<InFlight, x4, x5, x6>>

\* Every step moves callers in one of these ways.
LEMMA CallersMoveStep ==
    ASSUME Session!SessionInv, Session!Next
    PROVE  CallersMove
<1> DEFINE Goal == CallersMove
<1> SUFFICES Goal
  OBVIOUS
<1> USE DEF CallersMove, Acquiring, InFlight, Session!CallersTyped, Session!SessionInv,
   Session!callerVars, Session!taskVars, Session!readerVars
<1>1. ASSUME NEW c \in Callers, Session!Begin(c)
      PROVE  Goal
  BY <1>1 DEF Session!Begin
<1>2. ASSUME NEW c \in Callers, Session!Acquire(c)
      PROVE  Goal
  BY <1>2 DEF Session!Acquire
<1>3. ASSUME NEW c \in Callers, Session!Enqueue(c)
      PROVE  Goal
  BY <1>3 DEF Session!Enqueue, Session!HasRoom
<1>4. ASSUME NEW c \in Callers, Session!EnqueueFails(c)
      PROVE  Goal
  BY <1>4 DEF Session!EnqueueFails, Session!Return, Session!ClosedError, Session!CauseKnown
<1>5. ASSUME NEW c \in Callers, Session!TakeReply(c)
      PROVE  Goal
  BY <1>5 DEF Session!TakeReply, Session!Return
<1>6. ASSUME NEW c \in Callers, Session!ReplyDropped(c)
      PROVE  Goal
  BY <1>6 DEF Session!ReplyDropped, Session!Return, Session!ClosedError, Session!CauseKnown
<1>7. ASSUME NEW c \in Callers, Session!TimesOut(c)
      PROVE  Goal
  BY <1>7 DEF Session!TimesOut, Session!Return
<1>8. ASSUME NEW c \in Callers, Session!BeginClose(c)
      PROVE  Goal
  BY <1>8 DEF Session!BeginClose
<1>9. ASSUME NEW c \in Callers, Session!EnqueueClose(c)
      PROVE  Goal
  BY <1>9 DEF Session!EnqueueClose, Session!HasRoom
<1>10. CASE Session!TakeCancel
  BY <1>10 DEF Session!TakeCancel
<1>11. CASE Session!TakeRequest
  BY <1>11 DEF Session!TakeRequest
<1>12. CASE Session!WriteEnds
  BY <1>12 DEF Session!WriteEnds
<1>13. CASE Session!TakeClose
  BY <1>13 DEF Session!TakeClose
<1>14. CASE Session!Respond
  BY <1>14 DEF Session!Respond
<1>15. ASSUME NEW k \in Session!Kinds, Session!Publish(k)
      PROVE  Goal
  BY <1>15 DEF Session!Publish
<1>16. CASE Session!TakePing \/ Session!PongEnds \/ Session!Break
  BY <1>16 DEF Session!TakePing, Session!PongEnds, Session!Break
<1>17. CASE Session!FailPending
  BY <1>17 DEF Session!FailPending
<1>18. CASE Session!DropChannels
  BY <1>18 DEF Session!DropChannels
<1>19. CASE \/ Session!CallNextEvent \/ Session!NextEventReturns
            \/ Session!CallNextInvocation \/ Session!NextInvocationReturns
  BY <1>19 DEF Session!CallNextEvent, Session!NextEventReturns, Session!CallNextInvocation,
     Session!NextInvocationReturns
<1>20. ASSUME NEW c \in Callers, Session!RequestDropped(c)
       PROVE  Goal
  BY <1>20 DEF Session!RequestDropped, Session!PermitFreed
<1> HIDE DEF Goal
<1> QED
  BY <1>1, <1>2, <1>3, <1>4, <1>5, <1>6, <1>7, <1>8, <1>9, <1>10, <1>11, <1>12, <1>13, <1>14, <1>15,
     <1>16, <1>17, <1>18, <1>19, <1>20 DEF Session!Next, Session!CallerStep

\* So ids and permits are counted right.
LEMMA SessionCountStep ==
    ASSUME Session!SessionInv, Session!CallersTyped', CallersMove
    PROVE  /\ Session!IdsCounted'
           /\ x6' + Cardinality(InFlight') = MaxInFlight
<1>1. /\ IsFiniteSet(Acquiring) /\ IsFiniteSet(InFlight)
      /\ Cardinality(Acquiring) \in Nat /\ Cardinality(InFlight) \in Nat
  <2>1. Acquiring \subseteq Callers /\ InFlight \subseteq Callers
    BY DEF Acquiring, InFlight
  <2> QED
    BY <2>1, SessionAssumption, FS_Subset, FS_CardinalityType
<1>2. x4 \in 0 .. MaxRequests /\ x5 \in Nat \ {0} /\ x6 \in Nat
  BY DEF Session!SessionInv, Session!IdsCounted, Session!CallersTyped
<1>3. x5 + Cardinality(Acquiring) <= x4 + 1 /\ x6 + Cardinality(InFlight) = MaxInFlight
  BY DEF Session!SessionInv, Session!IdsCounted, Acquiring, InFlight, Cardinality,
         Session!Cardinality
<1> DEFINE Goal == /\ x4' \in 0 .. MaxRequests /\ x5' \in Nat \ {0}
                   /\ x5' + Cardinality(Acquiring') <= x4' + 1
                   /\ x6' + Cardinality(InFlight') = MaxInFlight
<1>4. SUFFICES Goal
  BY DEF Session!IdsCounted, Acquiring, Cardinality, Session!Cardinality
<1>5. CASE UNCHANGED <<Acquiring, InFlight, x4, x5, x6>>
  BY <1>2, <1>3, <1>5
<1>6. ASSUME NEW c, c \notin Acquiring, Acquiring' = Acquiring \cup {c},
             x4 < MaxRequests, x4' = x4 + 1, UNCHANGED <<InFlight, x5, x6>>
      PROVE  Goal
  <2>1. Cardinality(Acquiring') = Cardinality(Acquiring) + 1
    BY <1>1, <1>6, FS_AddElement
  <2> QED
    BY <1>1, <1>2, <1>3, <1>6, <2>1, SessionAssumption
<1>7. ASSUME NEW c \in Acquiring, Acquiring' = Acquiring \ {c},
             c \notin InFlight, InFlight' = InFlight \cup {c},
             x6 > 0, x6' = x6 - 1, x5' = x5 + 1, UNCHANGED x4
      PROVE  Goal
  <2>1. Cardinality(Acquiring') = Cardinality(Acquiring) - 1
    BY <1>1, <1>7, FS_RemoveElement
  <2>2. Cardinality(InFlight') = Cardinality(InFlight) + 1
    BY <1>1, <1>7, FS_AddElement
  <2> QED
    BY <1>1, <1>2, <1>3, <1>7, <2>1, <2>2, SessionAssumption
<1>8. ASSUME NEW c \in InFlight, InFlight' = InFlight \ {c}, x6' = x6 + 1,
             UNCHANGED <<Acquiring, x4, x5>>
      PROVE  Goal
  <2>1. Cardinality(InFlight') = Cardinality(InFlight) - 1
    BY <1>1, <1>8, FS_RemoveElement
  <2> QED
    BY <1>1, <1>2, <1>3, <1>8, <2>1, SessionAssumption
<1>9. ASSUME NEW c \in Acquiring, Acquiring' = Acquiring \ {c},
             UNCHANGED <<InFlight, x4, x5, x6>>
      PROVE  Goal
  <2>1. Cardinality(Acquiring') = Cardinality(Acquiring) - 1
    BY <1>1, <1>9, FS_RemoveElement
  <2> QED
    BY <1>1, <1>2, <1>3, <1>9, <2>1
<1> HIDE DEF Goal
<1> QED
  BY <1>5, <1>6, <1>7, <1>8, <1>9 DEF CallersMove

\* Every step of the session keeps its invariant.
LEMMA SessionStep ==
    ASSUME Session!SessionInv, Session!Next
    PROVE  Session!SessionInv'
<1>1. /\ Session!CallersTyped' /\ Session!IdsKnown' /\ Session!OnePlace' /\ CallersMove
      /\ Len(x7') <= MaxInFlight
      /\ x11' \in {"loop", "writing", "pong", "closing", "breaking", "closed", "dropped"}
  BY SessionTypedStep, SessionKnownStep, SessionPlaceStep, SessionQueueStep, CallersMoveStep
<1>2. Session!IdsCounted' /\ x6' + Cardinality(InFlight') = MaxInFlight
  BY <1>1, SessionCountStep
<1> QED
  BY <1>1, <1>2 DEF Session!SessionInv, InFlight, Cardinality, Session!Cardinality

\* It holds when the session starts.
LEMMA SessionInitially == Session!Init => Session!SessionInv
<1> SUFFICES ASSUME Session!Init PROVE Session!SessionInv
  OBVIOUS
<1> USE SessionAssumption DEF Session!Init
<1>1. Acquiring = {} /\ InFlight = {}
  BY DEF Acquiring, InFlight
<1>2. /\ x4 = 0 /\ x5 = 1 /\ x5 + Cardinality(Acquiring) <= x4 + 1
      /\ x6 + Cardinality(InFlight) = MaxInFlight
  BY <1>1, FS_EmptySet
<1>3. Session!CallersTyped
  BY DEF Session!CallersTyped
<1>4. Session!IdsKnown /\ Session!OnePlace /\ Len(x7) <= MaxInFlight
  BY EmptyFacts DEF Session!IdsKnown, Session!OnePlace
<1>5. Session!IdsCounted
  <2> HIDE DEF Session!Init
  <2> QED
    BY <1>2 DEF Session!IdsCounted, Acquiring, Cardinality, Session!Cardinality
<1>6. x11 = "loop"
  OBVIOUS
<1> HIDE DEF Session!Init
<1> QED
  BY <1>2, <1>3, <1>4, <1>5, <1>6 DEF Session!SessionInv, InFlight, Cardinality, Session!Cardinality

\* What it says of permits and of how a request ends.
LEMMA SessionSound ==
    ASSUME Session!SessionInv
    PROVE  Session!TypeOK /\ Session!ClosedMeansCauseKnown
<1>1. Session!ClosedMeansCauseKnown
  BY DEF Session!SessionInv, Session!CallersTyped, Session!ClosedMeansCauseKnown
<1>2. /\ IsFiniteSet(Acquiring) /\ Cardinality(Acquiring) \in Nat /\ Cardinality(InFlight) \in Nat
  <2>1. Acquiring \subseteq Callers /\ InFlight \subseteq Callers
    BY DEF Acquiring, InFlight
  <2> QED
    BY <2>1, SessionAssumption, FS_Subset, FS_CardinalityType
<1>3. /\ x5 + Cardinality(Acquiring) <= x4 + 1 /\ x6 + Cardinality(InFlight) = MaxInFlight
      /\ x4 \in 0 .. MaxRequests /\ x5 \in Nat \ {0} /\ x6 \in Nat
  BY DEF Session!SessionInv, Session!IdsCounted, Session!CallersTyped, Acquiring, InFlight,
         Cardinality, Session!Cardinality
<1>4. Session!Given \subseteq 1 .. MaxRequests /\ x6 = MaxInFlight - Cardinality(InFlight)
      /\ x6 \in 0 .. MaxInFlight
  BY <1>2, <1>3, SessionAssumption DEF Session!Given
<1>5. /\ x7 \in Seq(Session!Given \cup {Session!Close}) /\ Len(x7) <= MaxInFlight
      /\ x9 \subseteq Session!Given /\ x10 \subseteq Session!Given /\ x8 \subseteq Session!Given
      /\ x9 \cap x10 = {}
      /\ x11 \in {"loop", "writing", "pong", "closing", "breaking", "closed", "dropped"}
  BY DEF Session!SessionInv, Session!IdsKnown, Session!OnePlace
<1>6. x7 \in Seq(0 .. MaxRequests)
  <2>1. Session!Given \cup {Session!Close} \subseteq 0 .. MaxRequests
    BY <1>4, SessionAssumption DEF Session!Close
  <2> QED
    BY <1>5, <2>1, SeqGrows
<1>7. x9 \cup x10 \cup x8 \subseteq 1 .. MaxRequests
  BY <1>4, <1>5
<1> QED
  BY <1>1, <1>4, <1>5, <1>6, <1>7 DEF Session!TypeOK, InFlight, Cardinality, Session!Cardinality

-----------------------------------------------------------------------------
(* The composition.                                                        *)

\* The invariant of the runtime of size z.
RuntimeInvOf(z) == Runtime(MaxInvocations[z], RuntimeIds[z], MaxConcurrency[z])!RuntimeInv

\* That of the part the behaviour is of.
PrototypeInv ==
    /\ part = "session" => Session!SessionInv
    /\ \A z \in Sizes : part = z => RuntimeInvOf(z)
    /\ part = "host" => Host!HostInv

\* It holds in every reachable state: no step of a part touches another.
THEOREM PrototypeInvariant == Spec => []PrototypeInv
<1>1. Init => PrototypeInv
  <2>1. part = "session" /\ Session!Init => PrototypeInv
    BY SessionInitially, RuntimeAssumption DEF PrototypeInv
  <2>2. ASSUME NEW z \in Sizes, part = z, RuntimeInit(z) PROVE PrototypeInv
    <3>1. RuntimeInvOf(z)
      BY <2>2, RuntimeInitially, RuntimeAssumption DEF RuntimeInit, RuntimeInvOf
    <3> QED
      BY <2>2, <3>1, RuntimeAssumption DEF PrototypeInv
  <2>3. ASSUME part = "host", Host!Init PROVE PrototypeInv
    <3>1. Host!HostInv
      BY <2>3, ExponentialDef, DelaysAssumption
         DEF Host!Init, Host!HostInv, Host!LatestTokenOffered, Host!BackoffIsExponential
    <3> QED
      BY <2>3, <3>1, RuntimeAssumption DEF PrototypeInv
  <2> QED
    BY <2>1, <2>2, <2>3 DEF Init
<1>2. PrototypeInv /\ [Next]_vars => PrototypeInv'
  <2> SUFFICES ASSUME PrototypeInv, [Next]_vars PROVE PrototypeInv'
    OBVIOUS
  <2>1. ASSUME part = "session", Session!Next, UNCHANGED part PROVE PrototypeInv'
    BY <2>1, SessionStep, RuntimeAssumption DEF PrototypeInv
  <2>2. ASSUME NEW z \in Sizes, part = z, RuntimeNext(z), UNCHANGED part PROVE PrototypeInv'
    <3>1. RuntimeInvOf(z)'
      <4>1. RuntimeInvOf(z)
        BY <2>2 DEF PrototypeInv
      <4> QED
        BY <2>2, <4>1, RuntimeStep, RuntimeAssumption DEF RuntimeNext, RuntimeInvOf
    <3> QED
      BY <2>2, <3>1, RuntimeAssumption DEF PrototypeInv
  <2>3. ASSUME part = "host", Host!Next, UNCHANGED part PROVE PrototypeInv'
    BY <2>3, HostStep, RuntimeAssumption DEF PrototypeInv
  <2>4. CASE UNCHANGED vars
    <3>1. part = "session" => Session!SessionInv'
      BY <2>4 DEF PrototypeInv, vars, From14, Session!SessionInv, Session!CallersTyped,
         Session!IdsCounted, Session!IdsKnown, Session!Given, Session!OnePlace
    <3>2. ASSUME NEW z \in Sizes, part = z PROVE RuntimeInvOf(z)'
      <4>1. RuntimeInvOf(z)
        BY <3>2 DEF PrototypeInv
      <4> QED
        BY <2>4, <4>1, RuntimeStutters DEF vars, RuntimeInvOf
    <3>3. part = "host" => Host!HostInv'
      BY <2>4 DEF PrototypeInv, vars, Host!HostInv, Host!LatestTokenOffered,
         Host!BackoffIsExponential
    <3> QED
      BY <2>4, <3>1, <3>2, <3>3 DEF PrototypeInv, vars
  <2> QED
    BY <2>1, <2>2, <2>3, <2>4 DEF Next
<1> QED
  BY <1>1, <1>2, PTL DEF Spec

\* A session never has more than max_in_flight requests under way and gets every
\* permit back, its queue and tables hold only ids it has given, no reply is both
\* sent and pending, and a caller that is told of its end is told why.
THEOREM SessionStaysSound == Spec => []SessionIsSound
<1>1. PrototypeInv => SessionIsSound
  BY SessionSound DEF PrototypeInv, SessionIsSound
<1> QED
  BY <1>1, PrototypeInvariant, PTL

\* A runtime conserves its permits, returns with nothing of it left, cancels the
\* token of whoever could not deliver, and keeps its ids, for any number of
\* invocations, ids and permits.
THEOREM RuntimeStaysSound == Spec => []RuntimeIsSound
<1>1. PrototypeInv => RuntimeIsSound
  BY RuntimeSound, RuntimeAssumption DEF PrototypeInv, RuntimeInvOf, RuntimeIsSound
<1> QED
  BY <1>1, PrototypeInvariant, PTL

\* The host offers the token of the latest hello, waits the exponential delay and
\* reports a drain only when run has returned.
THEOREM HostStaysSound == Spec => []HostIsSound
<1>1. PrototypeInv => HostIsSound
  BY DEF PrototypeInv, Host!HostInv, Host!DrainedMeansReturned, HostIsSound
<1> QED
  BY <1>1, PrototypeInvariant, PTL
=============================================================================
