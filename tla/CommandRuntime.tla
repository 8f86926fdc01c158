--------------------------- MODULE CommandRuntime ---------------------------
(***************************************************************************)
(* CommandRuntime (crates/openclaw-node-host/src/runtime.rs): the event    *)
(* loop `run`, the one-shot `dispatch`, the handler tasks they own, the    *)
(* table of active invocations, the concurrency permits and the bounded    *)
(* delivery of OVERLOADED results, over one node session.                  *)
(*                                                                         *)
(* A slot is one invocation the Gateway delivers.  The action of a handler *)
(* task is the code between two await points, cut twice more: between the  *)
(* admission decision and the checks at handler entry, and between these   *)
(* and the call of the handler, because other threads may cancel or retire *)
(* in between.  Likewise cancel_all takes the table in one step and then   *)
(* cancels what was in it, one invocation after the other.  Which failure  *)
(* code a refusal carries is not told apart; its effects on tokens, table  *)
(* and permits are.                                                        *)
(* The byte-level input buffer is the subject of DuplexInput: here an      *)
(* input event either fits or overflows.                                   *)
(***************************************************************************)
EXTENDS Naturals, Sequences, FiniteSets

CONSTANTS
    Slots,           \* the invocations delivered in one session
    Direct,          \* those the embedding passes to dispatch, not to run
    Ids,             \* invocation ids
    None,            \* no invocation, no id
    MaxConcurrency,  \* CommandRuntimeBuilder::max_concurrency
    HasPolicy        \* an admission policy is installed

ASSUME SlotsAssumption == IsFiniteSet(Slots) /\ None \notin Slots
ASSUME DirectAssumption == Direct \subseteq Slots
ASSUME MaxConcurrencyAssumption == MaxConcurrency \in Nat \ {0}
ASSUME HasPolicyAssumption == HasPolicy \in BOOLEAN

VARIABLES
    stage,      \* stage[d]: how far the invocation is
    via,        \* via[d]: who carries it (see Vias)
    id,         \* id[d]: its invocation id
    duplex,     \* duplex[d]: its command is a duplex command
    guard,      \* guard[d]: its task owns an ActiveInvocation
    cancelled,  \* cancelled[d]: its CancellationToken
    overflowed, \* overflowed[d]: its input_overflow token
    shut,       \* shut[d]: it has no open duplex input
    acked,      \* acked[d]: the Gateway has acknowledged its result
    active,     \* ActiveInvocations: active[i], the slot tracked under id i
    taken,      \* taken[c]: what c's cancel_all took and has not yet cancelled
    permits,    \* free permits of the concurrency semaphore
    overload,   \* the queue of the delivery worker
    worker,     \* the delivery worker
    run,        \* where the event loop is
    held,       \* run still owns the permit of a completion that failed
    closing,    \* session.close() was called
    ended       \* the session task has ended

invVars == <<via, id, duplex>>
tokenVars == <<guard, cancelled, overflowed, shut>>
tableVars == <<active, taken>>
loopVars == <<overload, worker, run, held>>
sessionVars == <<closing, ended>>
vars == <<stage, invVars, tokenVars, acked, tableVars, permits, loopVars, sessionVars>>

(* run: a handler task of run;  dispatch: a dispatch that got a permit;     *)
(* worker: an OVERLOADED result queued by run;  spill: an OVERLOADED result *)
(* sent by dispatch itself;  refusal: DUPLEX_REQUIRES_RUN.                  *)
Vias == {"none", "run", "dispatch", "worker", "spill", "refusal"}

\* The stages in which a task holds a concurrency permit.
Evaluating == {"spawned", "admission", "admitted", "entering", "handler"}
Delivering == {"deliver", "awaiting"}
Finished == {"ok", "failed"}
Sweeping == {"closed", "sweeping"}
Stages == {"unused", "queued", "gone"} \cup Evaluating \cup Delivering \cup Finished \cup Sweeping

RunStates == {"loop", "cancelling", "joining", "closing", "done", "dropped", "abandoned"}

\* Who calls cancel_all: run, for which None stands, or a dispatch.
Cancellers == Slots \cup {None}

Retired == closing \/ ended

-----------------------------------------------------------------------------
Init ==
    /\ stage = [d \in Slots |-> "unused"]
    /\ via = [d \in Slots |-> "none"]
    /\ id = [d \in Slots |-> None]
    /\ duplex = [d \in Slots |-> FALSE]
    /\ guard = [d \in Slots |-> FALSE]
    /\ cancelled = [d \in Slots |-> FALSE]
    /\ overflowed = [d \in Slots |-> FALSE]
    /\ shut = [d \in Slots |-> TRUE]
    /\ acked = [d \in Slots |-> FALSE]
    /\ active = [i \in Ids |-> None]
    /\ taken = [c \in Cancellers |-> {}]
    /\ permits = MaxConcurrency
    /\ overload = <<>>
    /\ worker = "idle"
    /\ run = "loop"
    /\ held = FALSE
    /\ closing = FALSE
    /\ ended = FALSE

-----------------------------------------------------------------------------
(* The table of active invocations.                                        *)

\* Mutant: a duplicate id replaces the tracked invocation.
TracksAlways(i) == TRUE

\* track: Entry::Vacant inserts and returns a guard, Entry::Occupied does not.
Tracks(i) == active[i] = None

Track(d, i, dup) ==
    /\ shut' = [shut EXCEPT ![d] = ~ (dup /\ Tracks(i))]
    /\ guard' = [guard EXCEPT ![d] = Tracks(i)]
    /\ active' = [active EXCEPT ![i] = IF Tracks(i) THEN d ELSE @]
    /\ UNCHANGED taken

\* Mutant: a dropped guard leaves its entry behind.
UntrackForgets(d) == active

\* untrack, when a guard is dropped: remove whatever is tracked under its id.
Untracked(d) == IF guard[d] THEN [active EXCEPT ![id[d]] = None] ELSE active

\* ... and close the input of what was removed.
Untrack(d) ==
    /\ active' = Untracked(d)
    /\ shut' = [e \in Slots |-> shut[e] \/ (guard[d] /\ active[id[d]] = e)]
    /\ guard' = [guard EXCEPT ![d] = FALSE]
    /\ UNCHANGED taken

\* Mutant: the table is cleared, and nobody in it is told.
ClearTable(c) ==
    /\ active' = [i \in Ids |-> None]
    /\ UNCHANGED taken

\* cancel_all, called by c, takes the whole table under its lock ...
TakeTable(c) ==
    /\ active' = [i \in Ids |-> None]
    /\ taken' = [taken EXCEPT ![c] = {d \in Slots : \E i \in Ids : active[i] = d}]

\* ... and without the lock cancels what was in it, one after the other.
CancelTaken(c, d) ==
    /\ d \in taken[c]
    /\ taken' = [taken EXCEPT ![c] = @ \ {d}]
    /\ cancelled' = [cancelled EXCEPT ![d] = TRUE]
    /\ shut' = [shut EXCEPT ![d] = TRUE]
    /\ UNCHANGED <<stage, invVars, guard, overflowed, acked, active, permits, loopVars,
                   sessionVars>>

\* cancel_all returns.
AllCancelled(c) == taken[c] = {}

-----------------------------------------------------------------------------
(* run: the invocation arm of the event loop.                              *)

Receive(d, i, dup) ==
    /\ run = "loop"
    /\ d \notin Direct
    /\ stage[d] = "unused"
    /\ id' = [id EXCEPT ![d] = i]
    /\ duplex' = [duplex EXCEPT ![d] = dup]

\* Mutant: the permit is bound to `_` and dropped at once.
AcquiredAndDropped == permits

\* try_acquire_owned succeeds; the permit moves into the task that will run.
Acquired == permits - 1

\* A permit is free: track on the loop itself, then spawn the handler task.
\* A second invocation with a tracked id gets DUPLICATE_INVOCATION.
Spawn(d, i, dup) ==
    /\ Receive(d, i, dup)
    /\ permits > 0
    /\ permits' = Acquired
    /\ via' = [via EXCEPT ![d] = "run"]
    /\ Track(d, i, dup)
    /\ stage' = [stage EXCEPT ![d] = IF Tracks(i) THEN "spawned" ELSE "deliver"]
    /\ UNCHANGED <<cancelled, overflowed, acked, loopVars, sessionVars>>

\* No permit: queue an OVERLOADED result for the delivery worker.
Overload(d, i, dup) ==
    /\ Receive(d, i, dup)
    /\ permits = 0
    /\ worker # "failed"
    /\ Len(overload) < MaxConcurrency
    /\ overload' = Append(overload, d)
    /\ via' = [via EXCEPT ![d] = "worker"]
    /\ stage' = [stage EXCEPT ![d] = "queued"]
    /\ UNCHANGED <<tokenVars, acked, tableVars, permits, worker, run, held, sessionVars>>

\* The first thing every failing arm does: delivery.abort() and cancel_all().
BeginStop ==
    /\ run = "loop"
    /\ run' = "cancelling"
    /\ TakeTable(None)

\* TrySendError::Full or ::Closed.  The invocation is dropped with the session.
Saturated(d, i, dup) ==
    /\ Receive(d, i, dup)
    /\ permits = 0
    /\ worker = "failed" \/ Len(overload) >= MaxConcurrency
    /\ BeginStop
    /\ via' = [via EXCEPT ![d] = "worker"]
    /\ stage' = [stage EXCEPT ![d] = "gone"]
    /\ UNCHANGED <<tokenVars, acked, permits, overload, worker, held, sessionVars>>

\* next_node_event fails: a terminal close, an EventLagged, a bad frame.
EventFails ==
    /\ BeginStop
    /\ UNCHANGED <<stage, invVars, tokenVars, acked, permits, overload, worker, held, sessionVars>>

-----------------------------------------------------------------------------
(* route_invocation_control.                                               *)

\* node.invoke.cancel
RouteCancel(i) ==
    /\ run = "loop"
    /\ active[i] # None
    /\ cancelled' = [cancelled EXCEPT ![active[i]] = TRUE]
    /\ shut' = [shut EXCEPT ![active[i]] = TRUE]
    /\ UNCHANGED <<stage, invVars, guard, overflowed, acked, tableVars, permits,
                   loopVars, sessionVars>>

\* node.invoke.input that overflows the buffer: flag it, then cancel.
RouteOverflow(i) ==
    /\ run = "loop"
    /\ active[i] # None
    /\ ~shut[active[i]]
    /\ shut' = [shut EXCEPT ![active[i]] = TRUE]
    /\ overflowed' = [overflowed EXCEPT ![active[i]] = TRUE]
    /\ cancelled' = [cancelled EXCEPT ![active[i]] = TRUE]
    /\ UNCHANGED <<stage, invVars, guard, acked, tableVars, permits, loopVars, sessionVars>>

-----------------------------------------------------------------------------
(* evaluate_tracked, in a task of run or inside dispatch.                  *)

\* abort_all (or dropping the JoinSet) stops a task at its next await point.
Aborted(d) == via[d] = "run" /\ run \in {"joining", "closing", "done", "dropped", "abandoned"}

Step(d, from, to) ==
    /\ stage[d] = from
    /\ stage' = [stage EXCEPT ![d] = to]
    /\ UNCHANGED <<invVars, guard, overflowed, shut, acked, tableVars, permits, loopVars, sessionVars>>

Poll(d, from, to) == ~Aborted(d) /\ Step(d, from, to)

\* Not advertised, not found, too large: refused without touching the token.
Refuse(d) == Poll(d, "spawned", "deliver") /\ UNCHANGED cancelled

\* resolve_timeout finds the deadline already elapsed.
Expired(d) ==
    /\ Poll(d, "spawned", "deliver")
    /\ cancelled' = [cancelled EXCEPT ![d] = TRUE]

EnterAdmission(d) == Poll(d, "spawned", "admission") /\ UNCHANGED cancelled

\* Cancelled, panicked, timed out, denied or out of time: tracking.cancel().
AdmissionRejects(d) ==
    /\ HasPolicy
    /\ Poll(d, "admission", "deliver")
    /\ cancelled' = [cancelled EXCEPT ![d] = TRUE]

\* The select on the token is biased: a cancelled invocation is not admitted.
AdmissionPasses(d) ==
    /\ HasPolicy => ~cancelled[d]
    /\ Poll(d, "admission", "admitted")
    /\ UNCHANGED cancelled

\* Mutant: the handler is entered without looking at the token again.
EntryIgnoresToken(d) == overflowed[d] \/ Retired

\* input_overflow is set, or handler_entry_rejection finds the token or the
\* session retired.
EntryRejected(d) == overflowed[d] \/ cancelled[d] \/ Retired

\* INPUT_BUFFER_OVERFLOW, INVOCATION_CANCELLED or SESSION_RETIRED.
RejectEntry(d) ==
    /\ EntryRejected(d)
    /\ Step(d, "admitted", "deliver")
    /\ cancelled' = [cancelled EXCEPT ![d] = TRUE]

PassEntry(d) ==
    /\ ~EntryRejected(d)
    /\ Step(d, "admitted", "entering")
    /\ UNCHANGED cancelled

\* The registered handler is called, whatever has happened since the checks.  It
\* returns its future, or panics at once.
CallHandler(d) ==
    \/ Step(d, "entering", "handler") /\ UNCHANGED cancelled
    \/ Step(d, "entering", "deliver") /\ cancelled' = [cancelled EXCEPT ![d] = TRUE]

\* execute_handler: a result or a handler error leaves the token alone.
HandlerReturns(d) ==
    /\ ~ (duplex[d] /\ overflowed[d])
    /\ Poll(d, "handler", "deliver")
    /\ UNCHANGED cancelled

\* Timeout, panic, or (biased, duplex only) the overflow flag.
HandlerCancelled(d) ==
    /\ Poll(d, "handler", "deliver")
    /\ cancelled' = [cancelled EXCEPT ![d] = TRUE]

\* The heartbeat task of a duplex invocation, spawned before the handler is
\* called, could not send its frame.
HeartbeatFails(d) ==
    /\ stage[d] \in {"entering", "handler"}
    /\ duplex[d]
    /\ ~cancelled[d]
    /\ cancelled' = [cancelled EXCEPT ![d] = TRUE]
    /\ UNCHANGED <<stage, invVars, guard, overflowed, shut, acked, tableVars, permits,
                   loopVars, sessionVars>>

-----------------------------------------------------------------------------
(* complete_invocation and what follows it.                                *)

\* The session accepts the node.invoke.result request.
SendResult(d) ==
    /\ stage[d] = "deliver"
    /\ ~Aborted(d)
    /\ ~ended
    /\ stage' = [stage EXCEPT ![d] = "awaiting"]
    /\ UNCHANGED <<invVars, tokenVars, acked, tableVars, permits, loopVars, sessionVars>>

\* Mutant: the worker survives a delivery it could not make.
WorkerShrugs(d, ok) == IF via[d] = "worker" THEN "idle" ELSE worker

\* The worker's loop ends with `?` at the first error.
WorkerAfter(d, ok) ==
    IF via[d] = "worker" THEN IF ok THEN "idle" ELSE "failed" ELSE worker

\* The completion is known: disarm on success, drop the guard, hand back.
\* A failed worker drops its receiver and every result queued behind it.
Complete(d, ok) ==
    /\ Untrack(d)
    /\ cancelled' = [cancelled EXCEPT ![d] = @ \/ (guard[d] /\ ~ok)]
    /\ acked' = [acked EXCEPT ![d] = ok]
    /\ permits' = IF via[d] = "dispatch" THEN permits + 1 ELSE permits
    /\ worker' = WorkerAfter(d, ok)
    /\ overload' = IF worker' = "failed" THEN <<>> ELSE overload
    /\ stage' = [e \in Slots |->
                    CASE e = d -> IF via[d] # "run" THEN "gone"
                                  ELSE IF ok THEN "ok" ELSE "failed"
                      [] e # d /\ stage[e] = "queued" /\ worker' = "failed" -> "gone"
                      [] OTHER -> stage[e]]
    /\ UNCHANGED <<invVars, overflowed, run, held, sessionVars>>

\* The Gateway acknowledges the result.
Acknowledge(d) ==
    /\ stage[d] = "awaiting"
    /\ ~Aborted(d)
    /\ Complete(d, TRUE)

\* Rejected by the Gateway, timed out, or the session closed.
ResultFails(d) ==
    /\ stage[d] \in Delivering
    /\ ~Aborted(d)
    /\ Complete(d, FALSE)

\* The worker takes the next OVERLOADED result.
WorkerTakes ==
    /\ worker = "idle"
    /\ overload # <<>>
    /\ worker' = "busy"
    /\ stage' = [stage EXCEPT ![Head(overload)] = "deliver"]
    /\ overload' = Tail(overload)
    /\ UNCHANGED <<invVars, tokenVars, acked, tableVars, permits, run, held, sessionVars>>

-----------------------------------------------------------------------------
(* run: joining and stopping.                                              *)

\* join_next returns a task whose result was delivered; its permit is dropped.
JoinNext(d) ==
    /\ run = "loop"
    /\ stage[d] = "ok"
    /\ stage' = [stage EXCEPT ![d] = "gone"]
    /\ permits' = permits + 1
    /\ UNCHANGED <<invVars, tokenVars, acked, tableVars, loopVars, sessionVars>>

\* join_next returns a failed completion: stop, keeping its permit until the end.
JoinFailed(d) ==
    /\ stage[d] = "failed"
    /\ BeginStop
    /\ held' = TRUE
    /\ stage' = [stage EXCEPT ![d] = "gone"]
    /\ UNCHANGED <<invVars, tokenVars, acked, permits, overload, worker, sessionVars>>

\* The delivery worker ended.
WorkerEnds ==
    /\ worker = "failed"
    /\ BeginStop
    /\ UNCHANGED <<stage, invVars, tokenVars, acked, permits, overload, worker, held, sessionVars>>

\* abort_all
AbortAll ==
    /\ run = "cancelling"
    /\ AllCancelled(None)
    /\ run' = "joining"
    /\ UNCHANGED <<stage, invVars, tokenVars, acked, tableVars, permits,
                   overload, worker, held, sessionVars>>

\* A dropped future gives back the OwnedSemaphorePermit it owns, if it has one.
PermitsAfterDrop(d) ==
    IF via[d] \in {"run", "dispatch"} THEN permits + 1 ELSE permits

\* An aborted task is dropped at an await point; so is a dispatch whose caller
\* gives up.  Dropping the future drops the guard, still armed, and the permit.
DropTask(d) ==
    /\ stage[d] \in {"spawned", "admission", "handler", "deliver", "awaiting"}
    /\ Aborted(d) \/ via[d] \in {"dispatch", "spill", "refusal"}
    /\ stage' = [stage EXCEPT ![d] = "gone"]
    /\ Untrack(d)
    /\ cancelled' = [cancelled EXCEPT ![d] = @ \/ guard[d]]
    /\ permits' = PermitsAfterDrop(d)
    /\ UNCHANGED <<invVars, overflowed, acked, loopVars, sessionVars>>

\* A task that had already finished is drained, or dropped with the JoinSet.
DrainFinished(d) ==
    /\ stage[d] \in Finished
    /\ Aborted(d)
    /\ stage' = [stage EXCEPT ![d] = "gone"]
    /\ permits' = permits + 1
    /\ UNCHANGED <<invVars, tokenVars, acked, tableVars, loopVars, sessionVars>>

\* delivery.abort() takes effect.
DropWorker ==
    /\ run \in {"cancelling", "joining", "abandoned"}
    /\ worker \in {"idle", "busy"}
    /\ worker' = "ended"
    /\ overload' = <<>>
    /\ stage' = [d \in Slots |->
                    IF via[d] = "worker" THEN "gone" ELSE stage[d]]
    /\ UNCHANGED <<invVars, tokenVars, acked, tableVars, permits, run, held, sessionVars>>

\* Mutants: run returns without waiting for its tasks; run waits for its worker
\* to be aborted even if it has failed.
NobodyAwaited == worker \in {"failed", "ended"}
AllAborted == worker = "ended" /\ \A d \in Slots : via[d] = "run" => stage[d] = "gone"

\* What stop_runtime_tasks waits for.
AllJoined ==
    /\ \A d \in Slots : via[d] = "run" => stage[d] = "gone"
    /\ worker \in {"failed", "ended"}

Joined ==
    /\ run = "joining"
    /\ AllJoined
    /\ run' = "closing"
    /\ UNCHANGED <<stage, invVars, tokenVars, acked, tableVars, permits,
                   overload, worker, held, sessionVars>>

\* What is free once run's frame is gone, with the completion it may still own.
Returned == IF held THEN permits + 1 ELSE permits

\* session.close(), then run returns its error.
CloseSession ==
    /\ run = "closing"
    /\ run' = "done"
    /\ closing' = TRUE
    /\ permits' = Returned
    /\ held' = FALSE
    /\ UNCHANGED <<stage, invVars, tokenVars, acked, tableVars, overload, worker, ended>>

\* The embedding drops the run future (the lifecycle's grace period is over).
\* The delivery worker, unless already aborted, lives on until its queue is
\* empty.
DropRun ==
    /\ run \in {"loop", "joining", "closing"}
    /\ run' = IF run = "loop" THEN "dropped" ELSE "abandoned"
    /\ permits' = Returned
    /\ held' = FALSE
    /\ UNCHANGED <<stage, invVars, tokenVars, acked, tableVars, overload, worker, sessionVars>>

DetachedWorkerEnds ==
    /\ run = "dropped"
    /\ worker = "idle"
    /\ overload = <<>>
    /\ worker' = "ended"
    /\ UNCHANGED <<stage, invVars, tokenVars, acked, tableVars, permits,
                   overload, run, held, sessionVars>>

-----------------------------------------------------------------------------
(* dispatch.                                                               *)

\* overload_permits bounds the OVERLOADED results dispatch sends by itself.
Spilling == Cardinality({d \in Slots : via[d] = "spill" /\ stage[d] # "gone"})

Dispatch(d, i) ==
    /\ d \in Direct
    /\ stage[d] = "unused"
    /\ id' = [id EXCEPT ![d] = i]

\* A duplex command is refused before any permit is taken.
DispatchDuplex(d, i) ==
    /\ Dispatch(d, i)
    /\ duplex' = [duplex EXCEPT ![d] = TRUE]
    /\ via' = [via EXCEPT ![d] = "refusal"]
    /\ stage' = [stage EXCEPT ![d] = "deliver"]
    /\ UNCHANGED <<tokenVars, acked, tableVars, permits, loopVars, sessionVars>>

DispatchPermit(d, i) ==
    /\ Dispatch(d, i)
    /\ permits > 0
    /\ permits' = Acquired
    /\ via' = [via EXCEPT ![d] = "dispatch"]
    /\ Track(d, i, FALSE)
    /\ stage' = [stage EXCEPT ![d] = IF Tracks(i) THEN "spawned" ELSE "deliver"]
    /\ UNCHANGED <<duplex, cancelled, overflowed, acked, loopVars, sessionVars>>

\* Overloaded, and a delivery permit is free: send the result from here.
DispatchSpill(d, i) ==
    /\ Dispatch(d, i)
    /\ permits = 0
    /\ Spilling < MaxConcurrency
    /\ via' = [via EXCEPT ![d] = "spill"]
    /\ stage' = [stage EXCEPT ![d] = "deliver"]
    /\ UNCHANGED <<duplex, tokenVars, acked, tableVars, permits, loopVars, sessionVars>>

\* Overloaded beyond the delivery permits: close the session.
DispatchSaturated(d, i) ==
    /\ Dispatch(d, i)
    /\ permits = 0
    /\ Spilling >= MaxConcurrency
    /\ via' = [via EXCEPT ![d] = "spill"]
    /\ stage' = [stage EXCEPT ![d] = "gone"]
    /\ closing' = TRUE
    /\ UNCHANGED <<duplex, tokenVars, acked, tableVars, permits, loopVars, ended>>

\* wait_closed wins the select: the evaluation is dropped (with its guard), ...
DispatchClosed(d) ==
    /\ via[d] = "dispatch"
    /\ stage[d] \in {"spawned", "admission", "handler"}
    /\ ended
    /\ stage' = [stage EXCEPT ![d] = "closed"]
    /\ Untrack(d)
    /\ cancelled' = [cancelled EXCEPT ![d] = @ \/ guard[d]]
    /\ UNCHANGED <<invVars, overflowed, acked, permits, loopVars, sessionVars>>

\* ... then cancel_all takes every active invocation of the session, ...
DispatchSweeps(d) ==
    /\ stage[d] = "closed"
    /\ stage' = [stage EXCEPT ![d] = "sweeping"]
    /\ TakeTable(d)
    /\ UNCHANGED <<invVars, tokenVars, acked, permits, loopVars, sessionVars>>

\* ... and when it has cancelled them, the permit is dropped.
DispatchReturns(d) ==
    /\ stage[d] = "sweeping"
    /\ AllCancelled(d)
    /\ stage' = [stage EXCEPT ![d] = "gone"]
    /\ permits' = permits + 1
    /\ UNCHANGED <<invVars, tokenVars, acked, tableVars, loopVars, sessionVars>>

-----------------------------------------------------------------------------
\* The session task ends: asked to, or because the transport failed.
SessionEnds ==
    /\ ~ended
    /\ ended' = TRUE
    /\ UNCHANGED <<stage, invVars, tokenVars, acked, tableVars, permits, loopVars, closing>>

Evaluate(d) ==
    \/ Refuse(d) \/ Expired(d) \/ EnterAdmission(d)
    \/ AdmissionRejects(d) \/ AdmissionPasses(d)
    \/ RejectEntry(d) \/ PassEntry(d) \/ CallHandler(d)
    \/ HandlerReturns(d) \/ HandlerCancelled(d)

Deliver(d) == SendResult(d) \/ Acknowledge(d) \/ ResultFails(d)

Stop == AbortAll \/ DropWorker \/ Joined \/ CloseSession

\* cancel_all, of run or of a dispatch, goes on to its end.
Sweep ==
    \/ \E c \in Cancellers, d \in Slots : CancelTaken(c, d)
    \/ \E d \in Slots : DispatchSweeps(d) \/ DispatchReturns(d)

\* The task is over and joined, or dropped because it was aborted.
TaskEnds(d) == DrainFinished(d) \/ (Aborted(d) /\ DropTask(d))

Next ==
    \/ \E d \in Slots, i \in Ids, dup \in BOOLEAN :
          Spawn(d, i, dup) \/ Overload(d, i, dup) \/ Saturated(d, i, dup)
    \/ \E d \in Slots, i \in Ids :
          \/ DispatchDuplex(d, i) \/ DispatchPermit(d, i)
          \/ DispatchSpill(d, i) \/ DispatchSaturated(d, i)
    \/ \E i \in Ids : RouteCancel(i) \/ RouteOverflow(i)
    \/ \E d \in Slots :
          \/ Evaluate(d) \/ HeartbeatFails(d) \/ Deliver(d)
          \/ JoinNext(d) \/ JoinFailed(d)
          \/ DropTask(d) \/ DrainFinished(d) \/ DispatchClosed(d)
    \/ EventFails \/ WorkerTakes \/ WorkerEnds
    \/ Sweep \/ Stop \/ DropRun \/ DetachedWorkerEnds
    \/ SessionEnds

Spec == Init /\ [][Next]_vars

-----------------------------------------------------------------------------
(* Properties.                                                             *)

\* Type invariant.
TypeOK ==
    /\ stage \in [Slots -> Stages]
    /\ via \in [Slots -> Vias]
    /\ id \in [Slots -> Ids \cup {None}]
    /\ duplex \in [Slots -> BOOLEAN]
    /\ guard \in [Slots -> BOOLEAN]
    /\ cancelled \in [Slots -> BOOLEAN]
    /\ overflowed \in [Slots -> BOOLEAN]
    /\ shut \in [Slots -> BOOLEAN]
    /\ acked \in [Slots -> BOOLEAN]
    /\ active \in [Ids -> Slots \cup {None}]
    /\ taken \in [Cancellers -> SUBSET Slots]
    /\ permits \in Nat
    /\ overload \in Seq(Slots)
    /\ worker \in {"idle", "busy", "failed", "ended"}
    /\ run \in RunStates
    /\ held \in BOOLEAN
    /\ closing \in BOOLEAN
    /\ ended \in BOOLEAN

HoldsPermit(d) ==
    \/ via[d] = "run" /\ stage[d] \in Evaluating \cup Delivering \cup Finished
    \/ via[d] = "dispatch" /\ stage[d] \in Evaluating \cup Delivering \cup Sweeping

\* No permit is lost or forged by an abort, a dropped future, a failed result
\* or a close: the free ones and the owned ones always add up.
PermitsConserved ==
    permits + Cardinality({d \in Slots : HoldsPermit(d)}) + (IF held THEN 1 ELSE 0)
        = MaxConcurrency

\* A cancel_all has d in hand and will cancel it.
Taken(d) == \E c \in Cancellers : d \in taken[c]

\* A running handler that has not been cancelled can be reached through the
\* table, so node.invoke.cancel, input and disconnect find it; or a cancel_all
\* that took it from there is about to reach it.
HandlerIsReachable ==
    \A d \in Slots :
        stage[d] = "handler" /\ ~cancelled[d] => active[id[d]] = d \/ Taken(d)

\* Two deliveries with the same invocation id never execute at the same time.
UniqueExecution ==
    \A d, e \in Slots :
        stage[d] = "handler" /\ stage[e] = "handler" /\ id[d] = id[e] => d = e

\* Once an invocation has ended, its input is closed, or a cancel_all is about to
\* close it, and the table no longer knows it.
CleanedUp ==
    /\ \A d \in Slots : ~guard[d] => shut[d] \/ Taken(d)
    /\ \A i \in Ids : active[i] # None => guard[active[i]] /\ id[active[i]] = i

\* No invocation of this session was evaluated by dispatch so far.
OnlyRun == \A d \in Slots : via[d] # "dispatch"

\* Nothing has emptied the table under the tasks that are at work: run has not
\* begun to stop, and no dispatch has seen the end of the session.
Undisturbed == run \in {"loop", "dropped"} /\ (OnlyRun \/ ~ended)

\* The table of active invocations is exact.  Nothing is in it but what is under
\* way, under its own id, although guards remove by id whatever they find.  Every
\* handler that may still be reached is in it: while run serves, also beside
\* dispatch, and to the very end where only run is used.
TableIsExact == CleanedUp /\ (Undisturbed \/ OnlyRun => HandlerIsReachable)

\* Once run has begun to stop, none of its invocations passes the checks at handler
\* entry but one that cancel_all is just about to cancel; and one that had passed
\* them calls its handler with a token that is cancelled, or about to be, or in a
\* session that has ended.
NoStartAfterStop ==
    [][\A d \in Slots :
          via[d] = "run" /\ run \notin {"loop", "dropped"} /\ stage'[d] # stage[d] =>
              /\ stage'[d] = "entering" => d \in taken[None]
              /\ stage'[d] = "handler" => cancelled[d] \/ d \in taken[None] \/ ended]_vars

\* When run returns, all of its tasks are gone, the delivery worker has ended
\* and the session is being closed: nothing of it overlaps the next session.
ReturnsQuiet ==
    run = "done" =>
        /\ \A d \in Slots : via[d] \in {"run", "worker"} => stage[d] = "gone"
        /\ worker \in {"failed", "ended"}
        /\ closing

\* An invocation that run has taken never disappears without an acknowledged
\* result while the session goes on being served.
NoResultLost ==
    \A d \in Slots :
        via[d] \in {"run", "worker"} /\ stage[d] = "gone" /\ ~acked[d]
            => run # "loop" \/ worker = "failed"

\* What the end of invocations and of run is about: no invocation is under way,
\* and run is not in the middle of stopping.
Quiet ==
    /\ \A d \in Slots : stage[d] \in {"unused", "gone"}
    /\ run \notin {"cancelling", "joining", "closing"}
=============================================================================
