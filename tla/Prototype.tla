----------------------------- MODULE Prototype ------------------------------
(***************************************************************************)
(* The root prototype crate: its session, its runtime and its host share   *)
(* no state here, so a behaviour of this model is a behaviour of one of    *)
(* them.  A part with n variables has them in x1, ..., xn, in the order in *)
(* which its module declares them; the others stay None.  The runtime      *)
(* comes in several sizes, each a part of its own.                         *)
(***************************************************************************)
EXTENDS Naturals, FiniteSets

CONSTANTS
    None,             \* no value, no token, no hint
    Callers,          \* PrototypeSession
    MaxInFlight,      \* PrototypeSession
    MaxRequests,      \* PrototypeSession
    Sizes,            \* names of the runtimes
    MaxInvocations,   \* PrototypeRuntime, of each size
    RuntimeIds,       \* PrototypeRuntime, of each size
    MaxConcurrency,   \* PrototypeRuntime, of each size
    DeliveryCapacity, \* PrototypeRuntime
    Errors,           \* PrototypeHost
    Hints,            \* PrototypeHost
    Tokens,           \* PrototypeHost
    Configured,       \* PrototypeHost
    RuntimeFailure,   \* PrototypeHost
    InitialDelay,     \* PrototypeHost
    MaximumDelay,     \* PrototypeHost
    FixedDelay,       \* PrototypeHost
    Capacity,         \* PrototypeHost
    MaxStreak         \* PrototypeHost

ASSUME NoneAssumption == None \notin Nat

ASSUME SessionAssumption ==
    IsFiniteSet(Callers) /\ MaxInFlight \in Nat /\ MaxRequests \in Nat

ASSUME RuntimeAssumption ==
    /\ Sizes \cap {"session", "host"} = {}
    /\ MaxInvocations \in [Sizes -> Nat] /\ MaxConcurrency \in [Sizes -> Nat]
    /\ DeliveryCapacity \in Nat

ASSUME DelaysAssumption == InitialDelay \in Nat /\ MaximumDelay \in Nat /\ MaxStreak \in Nat

VARIABLES part, x1, x2, x3, x4, x5, x6, x7, x8, x9, x10, x11, x12, x13, x14, x15

Session == INSTANCE PrototypeSession WITH
    caller <- x1, id <- x2, outcome <- x3, begun <- x4, next_id <- x5, permits <- x6,
    queue <- x7, cancels <- x8, pending <- x9, replied <- x10, task <- x11, writing <- x12,
    event <- x13, invocation <- x14, arrived <- x15

Runtime(invocations, ids, concurrency) == INSTANCE PrototypeRuntime WITH
    MaxInvocations <- invocations, Ids <- ids, MaxConcurrency <- concurrency,
    Owners <- {"run", "dispatch"},
    run <- x1, session <- x2, stage <- x3, owner <- x4, id <- x5, table <- x6, tracking <- x7,
    cancelled <- x8, permits <- x9, queue <- x10, worker <- x11, began <- x12, delivered <- x13

Host == INSTANCE PrototypeHost WITH
    NoHint <- None,
    pc <- x1, shutdown <- x2, auth <- x3, offered <- x4, latest <- x5, run <- x6, result <- x7,
    queue <- x8, writer <- x9, next_delay <- x10, delay <- x11, drained <- x12, streak <- x13

\* The bound of streak is large enough: the delay does not grow beyond it.
ASSUME StreakAssumption ==
    Host!Doubled(Host!Exponential[MaxStreak]) = Host!Exponential[MaxStreak]

-----------------------------------------------------------------------------
From14 == <<x14, x15>>
NoneFrom14 == x14 = None /\ x15 = None

vars == <<part, x1, x2, x3, x4, x5, x6, x7, x8, x9, x10, x11, x12, x13, From14>>

RuntimeInit(z) == Runtime(MaxInvocations[z], RuntimeIds[z], MaxConcurrency[z])!Init
RuntimeNext(z) == Runtime(MaxInvocations[z], RuntimeIds[z], MaxConcurrency[z])!Next

Init ==
    \/ part = "session" /\ Session!Init
    \/ \E z \in Sizes : part = z /\ RuntimeInit(z) /\ NoneFrom14
    \/ part = "host" /\ Host!Init /\ NoneFrom14

Next ==
    \/ part = "session" /\ Session!Next /\ UNCHANGED part
    \/ \E z \in Sizes : part = z /\ RuntimeNext(z) /\ UNCHANGED <<part, From14>>
    \/ part = "host" /\ Host!Next /\ UNCHANGED <<part, From14>>

Spec == Init /\ [][Next]_vars

-----------------------------------------------------------------------------
(* Properties, one for each part.                                          *)

\* In-flight permits of a session are conserved, and a caller that is told of its
\* end is told why.
SessionIsSound == part = "session" => Session!TypeOK /\ Session!ClosedMeansCauseKnown

\* The execution permits are conserved, run returns with nothing of it left, a
\* handler whose result reached nobody is told, an id has one handler at a time
\* and is not refused for ever.
SizeIsSound(n, ids, c) ==
    /\ Runtime(n, ids, c)!TypeOK /\ Runtime(n, ids, c)!PermitsConserved
    /\ Runtime(n, ids, c)!ReturnsQuiet /\ Runtime(n, ids, c)!AbandonedIsCancelled
    /\ Runtime(n, ids, c)!OneHandlerPerId /\ Runtime(n, ids, c)!TableIsTight

\* That, of the runtime the behaviour is of.
RuntimeIsSound ==
    \A z \in Sizes : part = z => SizeIsSound(MaxInvocations[z], RuntimeIds[z], MaxConcurrency[z])

\* An attempt offers the latest token, the backoff is exponential, and a drain is
\* reported only of a runtime that has returned.
HostIsSound ==
    part = "host" =>
        Host!LatestTokenOffered /\ Host!BackoffIsExponential /\ Host!DrainedMeansReturned
=============================================================================
