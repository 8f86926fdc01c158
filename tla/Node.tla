-------------------------------- MODULE Node --------------------------------
(***************************************************************************)
(* The parts of the node that share no state with one another, in one      *)
(* model: a behaviour picks a part and is a behaviour of its               *)
(* specification.  A part with n variables has them in x1, ..., xn, in the *)
(* order in which its module declares them; the others stay None.          *)
(***************************************************************************)
EXTENDS Naturals, FiniteSets

CONSTANTS
    None,            \* no value, no timeout
    Invocations,     \* SidecarBridge
    Commands,        \* NodeConnect
    Nonces,          \* NodeConnect
    Millis,          \* InvocationDeadline
    Graces,          \* InvocationDeadline
    HostGrace,       \* InvocationDeadline
    MaxTime,         \* InvocationDeadline
    EventIds,        \* NodeEvents
    Clients,         \* HealthServer
    MaxConnections,  \* HealthServer
    MaxErrors,       \* HealthServer
    MaxNames,        \* RuntimeRegistration
    MaxFrames,       \* InvocationProgress
    Slots,           \* CommandRuntime
    Direct,          \* CommandRuntime
    RuntimeIds,      \* CommandRuntime
    MaxConcurrency   \* CommandRuntime

\* Durations are whole milliseconds; None is none of them.
ASSUME MillisAssumption == Millis \subseteq Nat /\ Graces \subseteq Nat /\ HostGrace \in Nat
ASSUME NoTimeoutAssumption == None \notin Nat

\* MAX_CONSECUTIVE_HEALTH_ACCEPT_ERRORS is positive.
ASSUME HealthAssumption ==
    IsFiniteSet(Clients) /\ MaxConnections \in Nat /\ MaxErrors \in Nat \ {0}

ASSUME BoundsAssumption == MaxNames \in Nat /\ MaxFrames \in Nat /\ MaxTime \in Nat

VARIABLES part, x1, x2, x3, x4, x5, x6, x7, x8, x9, x10, x11, x12, x13, x14, x15, x16, x17, x18

Bridge == INSTANCE SidecarBridge WITH
    channel <- x1, retired <- x2, version <- x3, shape <- x4, stage <- x5, pc <- x6, seen <- x7,
    adapter <- x8, token <- x9, elapsed <- x10, outcome <- x11, begun <- x12

Connect == INSTANCE NodeConnect WITH
    pc <- x1, attempt <- x2, opened <- x3, issued <- x4, challenge <- x5, surface <- x6,
    envelope <- x7, hello <- x8, refusal <- x9, session <- x10, error <- x11

Deadline == INSTANCE InvocationDeadline WITH
    NoTimeout <- None,
    built <- x1, timeout <- x2, stage <- x3, remaining <- x4, elapsed <- x5, started <- x6

Events == INSTANCE NodeEvents WITH
    Ids <- EventIds,
    protocol <- x1, activated <- x2, loop <- x3, active <- x4, cancelled <- x5, answered <- x6

Health == INSTANCE HealthServer WITH
    loop <- x1, errors <- x2, permits <- x3, client <- x4, recent <- x5

Registration == INSTANCE RuntimeRegistration WITH
    source <- x1, commands <- x2, declared <- x3, stage <- x4, handlers <- x5, advertised <- x6

Progress == INSTANCE InvocationProgress WITH
    spc <- x1, mutex <- x2, seq <- x3, stopped <- x4, cancelled <- x5, phase <- x6, wire <- x7

Runtime == INSTANCE CommandRuntime WITH
    Ids <- RuntimeIds, HasPolicy <- FALSE,
    stage <- x1, via <- x2, id <- x3, duplex <- x4, guard <- x5, cancelled <- x6,
    overflowed <- x7, shut <- x8, acked <- x9, active <- x10, taken <- x11, permits <- x12,
    overload <- x13, worker <- x14, run <- x15, held <- x16, closing <- x17, ended <- x18

\* The answer to connect is a value.
ASSUME NoRefusalAssumption == None \notin Connect!Refusals

-----------------------------------------------------------------------------
(* The variables a part does not use.                                      *)

From13 == <<x13, x14, x15, x16, x17, x18>>
From12 == <<x12, From13>>
From8 == <<x8, x9, x10, x11, From12>>
From7 == <<x7, From8>>
From6 == <<x6, From7>>

NoneFrom13 == x13 = None /\ x14 = None /\ x15 = None /\ x16 = None /\ x17 = None /\ x18 = None
NoneFrom12 == x12 = None /\ NoneFrom13
NoneFrom8 == x8 = None /\ x9 = None /\ x10 = None /\ x11 = None /\ NoneFrom12
NoneFrom7 == x7 = None /\ NoneFrom8
NoneFrom6 == x6 = None /\ NoneFrom7

vars == <<part, x1, x2, x3, x4, x5, From6>>

Init ==
    \/ part = "bridge" /\ Bridge!Init /\ NoneFrom13
    \/ part = "connect" /\ Connect!Init /\ NoneFrom12
    \/ part = "deadline" /\ Deadline!Init /\ NoneFrom7
    \/ part = "events" /\ Events!Init /\ NoneFrom7
    \/ part = "health" /\ Health!Init /\ NoneFrom6
    \/ part = "registration" /\ Registration!Init /\ NoneFrom7
    \/ part = "progress" /\ Progress!Init /\ NoneFrom8
    \/ part = "runtime" /\ Runtime!Init

Next ==
    \/ part = "bridge" /\ Bridge!Next /\ UNCHANGED <<part, From13>>
    \/ part = "connect" /\ Connect!Next /\ UNCHANGED <<part, From12>>
    \/ part = "deadline" /\ Deadline!Next /\ UNCHANGED <<part, From7>>
    \/ part = "events" /\ Events!Next /\ UNCHANGED <<part, From7>>
    \/ part = "health" /\ Health!Next /\ UNCHANGED <<part, From6>>
    \/ part = "registration" /\ Registration!Next /\ UNCHANGED <<part, From7>>
    \/ part = "progress" /\ Progress!Next /\ UNCHANGED <<part, From8>>
    \/ part = "runtime" /\ Runtime!Next /\ UNCHANGED part

Spec == Init /\ [][Next]_vars

-----------------------------------------------------------------------------
(* Properties, one for each part.                                          *)

\* connect proves what it sends, the session is the one that was asked for, the
\* older dialect is spoken only to a Gateway that asked for it, and a call opens
\* at most two connections.
ConnectIsSound ==
    part = "connect" =>
        /\ Connect!ProofMatchesRequest /\ Connect!SessionMatchesRequest
        /\ Connect!NoUnaskedDowngrade /\ Connect!AtMostTwoConnections

\* Native work is never orphaned by the bridge, and no answer of it passes a
\* channel that was dead when the poll began.
BridgeIsSound ==
    [][part = "bridge" =>
          Bridge!NoLateAnswer /\ Bridge!TypeOK' /\ Bridge!AbandonedWorkIsCancelled']_vars

\* The result grace is kept inside the Gateway's deadline, and a sidecar's
\* configuration does not use up the time of a fresh invocation.
DeadlineIsFair ==
    part = "deadline" => Deadline!ResultGraceKept /\ Deadline!FreshInvocationRuns

\* Health requests are bounded, their permits come back, and the listener ends
\* the host only after a row of errors.
HealthIsBounded ==
    part = "health" => Health!HealthTasksBounded /\ Health!GivesUpOnlyAfterRow

\* An accepted configuration builds and serves what it says.
RegistrationIsExact ==
    part = "registration" =>
        Registration!AcceptedConfigurationBuilds /\ Registration!SurfaceIsExact

\* Progress frames are numbered in order, and the result ends the output of all
\* but the tasks that nobody joins.
ProgressIsSound ==
    part = "progress" =>
        Progress!TypeOK /\ Progress!ProgressOrdered /\ Progress!ResultEndsOutput

\* Nothing that a handler, a policy or an adapter returns is a result that ends
\* the session of all the others.
HandlersCannotEndRun == part = "events" => Events!HandlersCannotEndRun
=============================================================================
