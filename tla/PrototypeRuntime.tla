-------------------------- MODULE PrototypeRuntime --------------------------
(***************************************************************************)
(* CommandRuntime of the root openclaw-node crate (src/runtime.rs): the     *)
(* run loop with its JoinSet of handler tasks and its overload worker, and  *)
(* dispatch, which a caller may use beside it on a clone of the session.    *)
(*                                                                          *)
(* A task tracks its invocation when it is first polled, not when it is     *)
(* spawned; cancel_all and abort_all are two steps between which the tasks  *)
(* of other threads go on; and untrack removes an id, whoever holds it.     *)
(* Handlers return, fail, panic or hang; each has a deadline.               *)
(***************************************************************************)
EXTENDS Naturals, Sequences, FiniteSets

CONSTANTS
    MaxInvocations,   \* bound: invocations are numbered in order of arrival
    Ids,              \* invocation ids
    Owners,           \* who takes invocations: "run", "dispatch"
    MaxConcurrency,   \* execution permits
    DeliveryCapacity, \* of the overload queue, and the overload permits of dispatch
    None

Invocations == 1 .. MaxInvocations

VARIABLES
    run,       \* CommandRuntime::run: running, cancelled, joining, returned or dropped
    session,   \* open, closing (a close command is queued) or closed
    stage,     \* of each invocation
    owner,     \* who took it
    id,        \* its id
    table,     \* ActiveInvocations: the invocation whose token an id has
    tracking,  \* invocations whose ActiveInvocation guard lives
    cancelled, \* invocations whose token is cancelled
    permits,   \* free execution permits
    queue,     \* overload_rx
    worker,    \* overload_task: idle, sending, failed or ended
    began,     \* history: invocations whose handler was called
    delivered  \* history: invocations whose result was completed

callVars == <<owner, id>>
trackVars == <<table, tracking, cancelled>>
workerVars == <<queue, worker>>
vars == <<run, session, stage, callVars, trackVars, permits, workerVars, began, delivered>>

Stages == {"unused", "spawned", "executing", "completing", "finished", "failed", "held",
           "queued", "sending", "overload", "leaving", "gone"}
\* A task or a dispatch that still has a poll to come.
Alive == {"spawned", "executing", "completing"}
\* A task whose result run has not joined, or joined and still has.
Unjoined == {"finished", "failed", "held"}

Owned(o, S) == {i \in Invocations : owner[i] = o /\ stage[i] \in S}

Init ==
    /\ run = "running"
    /\ session = "open"
    /\ stage = [i \in Invocations |-> "unused"]
    /\ owner = [i \in Invocations |-> None]
    /\ id = [i \in Invocations |-> None]
    /\ table = [x \in Ids |-> None]
    /\ tracking = {}
    /\ cancelled = {}
    /\ permits = MaxConcurrency
    /\ queue = <<>>
    /\ worker = "idle"
    /\ began = {}
    /\ delivered = {}

-----------------------------------------------------------------------------
(* ActiveInvocations and its guard.                                        *)

\* cancel_all: cancel every token of the table and clear it.
CancelAll(t, c) ==
    /\ table' = [x \in Ids |-> None]
    /\ cancelled' = c \cup {t[x] : x \in {y \in Ids : t[y] # None}}

\* Mutant: a result that could not be delivered disarms the guard too.
AlwaysDisarmed(ok) == TRUE

\* tracking.disarm() after the completion
Disarmed(ok) == ok

\* Mutant: dropping the guard leaves the id in the table.
KeepEntry(i) == table

\* untrack: the id is removed, whatever token it has now.
untrack(i) == [table EXCEPT ![id[i]] = None]

\* Drop of the guard, if the evaluation was tracked.
DropGuard(i, ok) ==
    IF i \in tracking
    THEN /\ tracking' = tracking \ {i}
         /\ table' = untrack(i)
         /\ cancelled' = IF Disarmed(ok) THEN cancelled ELSE cancelled \cup {i}
    ELSE UNCHANGED trackVars

-----------------------------------------------------------------------------
(* Stopping: what every failure of run does before it returns.             *)

\* delivery.abort() unless the worker has ended, and cancel_all.
BeginStop ==
    /\ run' = "cancelled"
    /\ CancelAll(table, cancelled)
    /\ UNCHANGED tracking

\* Mutant: tasks are only cancelled, and run waits for handlers that ignore it.
NeverAborted(i) == FALSE

\* abort_all, called or done by the drop of the JoinSet, reaches every task that is
\* not at its end.
Aborted(i) == run \in {"joining", "dropped"} /\ owner[i] = "run" /\ stage[i] \in Alive

AbortAll ==
    /\ run = "cancelled"
    /\ run' = "joining"
    /\ UNCHANGED <<session, stage, callVars, trackVars, permits, workerVars, began, delivered>>

\* An aborted task is dropped, its guard and its permit with it.
TaskAborted(i) ==
    /\ Aborted(i)
    /\ stage' = [stage EXCEPT ![i] = "gone"]
    /\ DropGuard(i, FALSE)
    /\ permits' = permits + 1
    /\ UNCHANGED <<run, session, callVars, workerVars, began, delivered>>

JoinsStopped(i) ==
    /\ run = "joining"
    /\ owner[i] = "run"
    /\ stage[i] \in {"finished", "failed"}
    /\ stage' = [stage EXCEPT ![i] = "gone"]
    /\ permits' = permits + 1
    /\ UNCHANGED <<run, session, callVars, trackVars, workerVars, began, delivered>>

\* Mutant: the tasks are aborted and not waited for.
NoJoin == run = "joining"

\* while tasks.join_next().await.is_some() {}
AllJoined == run = "joining" /\ Owned("run", Alive \cup {"finished", "failed"}) = {}

\* delivery.await, session.close() and the return.
Returns ==
    /\ AllJoined
    /\ run' = "returned"
    /\ session' = IF session = "open" THEN "closing" ELSE session
    /\ stage' = [i \in Invocations |->
                    IF stage[i] \in {"held", "queued", "sending"} THEN "gone" ELSE stage[i]]
    /\ permits' = permits + Cardinality(Owned("run", {"held"}))
    /\ queue' = <<>>
    /\ worker' = "ended"
    /\ UNCHANGED <<callVars, trackVars, began, delivered>>

\* The future of run is dropped at an await, as the host does when its drain times
\* out.  The JoinSet goes with the results in it and aborts the tasks without
\* cancelling them.  A worker that was not aborted is detached.
RunDropped ==
    /\ run \in {"running", "joining"}
    /\ run' = "dropped"
    /\ permits' = permits + Cardinality(Owned("run", Unjoined))
    /\ stage' = [i \in Invocations |->
                    IF \/ i \in Owned("run", Unjoined)
                       \/ run = "joining" /\ stage[i] \in {"queued", "sending"}
                    THEN "gone" ELSE stage[i]]
    /\ queue' = IF run = "joining" THEN <<>> ELSE queue
    /\ worker' = IF run = "joining" THEN "ended" ELSE worker
    /\ UNCHANGED <<session, callVars, trackVars, began, delivered>>

-----------------------------------------------------------------------------
(* The arms of run's select.                                               *)

Arrives(i, o, x) ==
    /\ stage[i] = "unused"
    /\ \A j \in 1 .. i - 1 : stage[j] # "unused"
    /\ owner' = [owner EXCEPT ![i] = o]
    /\ id' = [id EXCEPT ![i] = x]
    /\ UNCHANGED <<began, delivered>>

Spawn(i) ==
    /\ permits > 0
    /\ permits' = permits - 1
    /\ stage' = [stage EXCEPT ![i] = "spawned"]
    /\ UNCHANGED <<session, run, trackVars, workerVars>>

\* Mutant: the overload queue takes whatever comes.
AlwaysRoom == TRUE

\* overload_tx.try_send finds room
QueueHasRoom == Len(queue) < DeliveryCapacity

\* next_invocation: a handler task; or an OVERLOADED result for the worker; or the
\* end of the run when the worker's queue is full or its receiver gone.
RunReceives(i, x) ==
    /\ run = "running"
    /\ Arrives(i, "run", x)
    /\ \/ Spawn(i)
       \/ /\ permits = 0
          /\ worker # "failed"
          /\ QueueHasRoom
          /\ queue' = Append(queue, i)
          /\ stage' = [stage EXCEPT ![i] = "queued"]
          /\ UNCHANGED <<run, session, trackVars, permits, worker>>
       \/ /\ permits = 0
          /\ worker = "failed" \/ ~QueueHasRoom
          /\ stage' = [stage EXCEPT ![i] = "gone"]
          /\ BeginStop
          /\ UNCHANGED <<session, permits, workerVars>>

\* next_invocation returns the session's end.
RunSeesClosed ==
    /\ run = "running"
    /\ session = "closed"
    /\ BeginStop
    /\ UNCHANGED <<session, stage, callVars, permits, workerVars, began, delivered>>

\* It returns a lag or a malformed payload.
RunInputFails ==
    /\ run = "running"
    /\ BeginStop
    /\ UNCHANGED <<session, stage, callVars, permits, workerVars, began, delivered>>

\* join_next: a failed completion ends the run, its permit held until the return.
RunJoins(i) ==
    /\ run = "running"
    /\ owner[i] = "run"
    /\ \/ /\ stage[i] = "finished"
          /\ stage' = [stage EXCEPT ![i] = "gone"]
          /\ permits' = permits + 1
          /\ UNCHANGED <<run, trackVars>>
       \/ /\ stage[i] = "failed"
          /\ stage' = [stage EXCEPT ![i] = "held"]
          /\ BeginStop
          /\ UNCHANGED permits
    /\ UNCHANGED <<session, callVars, workerVars, began, delivered>>

RunSeesWorker ==
    /\ run = "running"
    /\ worker = "failed"
    /\ BeginStop
    /\ UNCHANGED <<session, stage, callVars, permits, workerVars, began, delivered>>

-----------------------------------------------------------------------------
(* The overload worker.                                                    *)

WorkerTakes ==
    /\ worker = "idle"
    /\ queue # <<>>
    /\ worker' = "sending"
    /\ stage' = [stage EXCEPT ![Head(queue)] = "sending"]
    /\ queue' = Tail(queue)
    /\ UNCHANGED <<run, session, callVars, trackVars, permits, began, delivered>>

CanComplete(ok) == ok => session # "closed"

\* complete_invocation ends; its error ends the worker, and the receiver is dropped.
WorkerSent(ok) ==
    /\ worker = "sending"
    /\ CanComplete(ok)
    /\ worker' = IF ok THEN "idle" ELSE "failed"
    /\ queue' = IF ok THEN queue ELSE <<>>
    /\ stage' = [i \in Invocations |->
                    IF stage[i] = "sending" \/ (~ok /\ stage[i] = "queued") THEN "gone" ELSE stage[i]]
    /\ UNCHANGED <<run, session, callVars, trackVars, permits, began, delivered>>

\* A detached worker sends what is queued, then finds the sender gone.
WorkerEnds ==
    /\ run = "dropped"
    /\ worker = "idle"
    /\ queue = <<>>
    /\ worker' = "ended"
    /\ UNCHANGED <<run, session, stage, callVars, trackVars, permits, queue, began, delivered>>

-----------------------------------------------------------------------------
(* evaluate_with_scope and the completion, in a task or in dispatch.       *)

Poll(i, outcome) ==
    /\ stage[i] = "spawned"
    /\ UNCHANGED <<run, session, callVars, permits, workerVars, delivered>>
    /\ IF table[id[i]] # None
       THEN \* DUPLICATE_INVOCATION
            /\ stage' = [stage EXCEPT ![i] = "completing"]
            /\ UNCHANGED <<trackVars, began>>
       ELSE /\ tracking' = tracking \cup {i}
            /\ table' = [table EXCEPT ![id[i]] = i]
            /\ \/ \* COMMAND_NOT_FOUND, INPUT_TOO_LARGE
                  /\ outcome = "refused"
                  /\ stage' = [stage EXCEPT ![i] = "completing"]
                  /\ UNCHANGED <<began, cancelled>>
               \/ \* resolve_timeout finds no time left; the handler panics
                  /\ outcome \in {"elapsed", "panic"}
                  /\ stage' = [stage EXCEPT ![i] = "completing"]
                  /\ cancelled' = cancelled \cup {i}
                  /\ began' = IF outcome = "panic" THEN began \cup {i} ELSE began
               \/ /\ outcome = "called"
                  /\ stage' = [stage EXCEPT ![i] = "executing"]
                  /\ began' = began \cup {i}
                  /\ UNCHANGED cancelled

\* Mutant: the id is freed when the handler ends, before its result is sent.
FreeId(i) == table' = untrack(i)

\* The guard goes with the Evaluation to the completion.
KeepId(i) == UNCHANGED table

HandlerEnds(i, outcome) ==
    /\ stage[i] = "executing"
    /\ stage' = [stage EXCEPT ![i] = "completing"]
    /\ cancelled' = IF outcome \in {"timeout", "panic"} THEN cancelled \cup {i} ELSE cancelled
    /\ KeepId(i)
    /\ UNCHANGED <<run, session, callVars, tracking, permits, workerVars, began, delivered>>

\* Mutant: a duplicate's permit is kept.
PermitIfTracked(i) == IF i \in tracking THEN permits + 1 ELSE permits

\* drop(permit)
PermitBack(i) == permits + 1

\* complete_invocation, disarm, drop(tracking); a task's permit goes to join_next, or
\* nowhere if the JoinSet is gone.
Completes(i, ok) ==
    /\ stage[i] = "completing"
    /\ CanComplete(ok)
    /\ DropGuard(i, ok)
    /\ delivered' = IF ok THEN delivered \cup {i} ELSE delivered
    /\ IF owner[i] = "run" /\ run # "dropped"
       THEN /\ stage' = [stage EXCEPT ![i] = IF ok THEN "finished" ELSE "failed"]
            /\ UNCHANGED permits
       ELSE /\ stage' = [stage EXCEPT ![i] = "gone"]
            /\ permits' = PermitBack(i)
    /\ UNCHANGED <<run, session, callVars, workerVars, began>>

-----------------------------------------------------------------------------
(* dispatch.                                                               *)

\* A permit, or an overload permit for the OVERLOADED result, or session.close().
Dispatch(i, x) ==
    /\ Arrives(i, "dispatch", x)
    /\ \/ Spawn(i)
       \/ /\ permits = 0
          /\ IF Cardinality(Owned("dispatch", {"overload"})) < DeliveryCapacity
             THEN stage' = [stage EXCEPT ![i] = "overload"] /\ UNCHANGED session
             ELSE /\ stage' = [stage EXCEPT ![i] = "gone"]
                  /\ session' = IF session = "open" THEN "closing" ELSE session
          /\ UNCHANGED <<run, trackVars, permits, workerVars>>

OverloadEnds(i) ==
    /\ stage[i] = "overload"
    /\ stage' = [stage EXCEPT ![i] = "gone"]
    /\ UNCHANGED <<run, session, callVars, trackVars, permits, workerVars, began, delivered>>

\* Mutant: dispatch does not watch the session.
NeverSeen(i) == FALSE

\* session.wait_closed() in dispatch's select
SeesClosed(i) ==
    session = "closed" /\ owner[i] = "dispatch" /\ stage[i] \in {"spawned", "executing"}

\* The select drops the evaluation: its token is cancelled and its id untracked.
DispatchClosed(i) ==
    /\ SeesClosed(i)
    /\ stage' = [stage EXCEPT ![i] = "leaving"]
    /\ DropGuard(i, FALSE)
    /\ UNCHANGED <<run, session, callVars, permits, workerVars, began, delivered>>

\* Then cancel_all, with what the table has by now, and drop(permit).
DispatchLeaves(i) ==
    /\ stage[i] = "leaving"
    /\ stage' = [stage EXCEPT ![i] = "gone"]
    /\ CancelAll(table, cancelled)
    /\ permits' = permits + 1
    /\ UNCHANGED <<run, session, callVars, tracking, workerVars, began, delivered>>

\* The caller of dispatch drops its future at an await, before or during the
\* completion.
DispatchDropped(i) ==
    /\ owner[i] = "dispatch"
    /\ stage[i] \in Alive
    /\ stage' = [stage EXCEPT ![i] = "gone"]
    /\ DropGuard(i, FALSE)
    /\ permits' = permits + 1
    /\ UNCHANGED <<run, session, callVars, workerVars, began, delivered>>

\* The session task ends, asked to or by itself.
SessionCloses ==
    /\ session # "closed"
    /\ session' = "closed"
    /\ UNCHANGED <<run, stage, callVars, trackVars, permits, workerVars, began, delivered>>

-----------------------------------------------------------------------------
RunSees == RunSeesClosed \/ RunSeesWorker \/ \E i \in Invocations : RunJoins(i)
Stops == AbortAll \/ Returns \/ \E i \in Invocations : TaskAborted(i) \/ JoinsStopped(i)

\* The session refuses what is completed after its end.
CompletionFails(i) == session = "closed" /\ Completes(i, FALSE)

Next ==
    \/ RunSees \/ RunInputFails \/ Stops \/ RunDropped
    \/ WorkerTakes \/ WorkerEnds \/ SessionCloses
    \/ \E ok \in BOOLEAN : WorkerSent(ok)
    \/ \E i \in Invocations :
        \/ "run" \in Owners /\ \E x \in Ids : RunReceives(i, x)
        \/ "dispatch" \in Owners /\ \E x \in Ids : Dispatch(i, x)
        \/ \E outcome \in {"refused", "elapsed", "panic", "called"} : Poll(i, outcome)
        \/ \E outcome \in {"returned", "timeout", "panic"} : HandlerEnds(i, outcome)
        \/ \E ok \in BOOLEAN : Completes(i, ok)
        \/ OverloadEnds(i) \/ DispatchClosed(i) \/ DispatchLeaves(i) \/ DispatchDropped(i)

Spec == Init /\ [][Next]_vars

-----------------------------------------------------------------------------
(* Properties.                                                             *)

\* Type correctness; the queue of overloaded results stays within its capacity.
TypeOK ==
    /\ run \in {"running", "cancelled", "joining", "returned", "dropped"}
    /\ session \in {"open", "closing", "closed"}
    /\ stage \in [Invocations -> Stages]
    /\ owner \in [Invocations -> {"run", "dispatch", None}]
    /\ id \in [Invocations -> Ids \cup {None}]
    /\ table \in [Ids -> Invocations \cup {None}]
    /\ tracking \subseteq Invocations /\ cancelled \subseteq Invocations
    /\ began \subseteq Invocations /\ delivered \subseteq Invocations
    /\ permits \in 0 .. MaxConcurrency
    /\ queue \in Seq(Invocations) /\ Len(queue) <= DeliveryCapacity
    /\ worker \in {"idle", "sending", "failed", "ended"}

\* Every permit is free or in the hands of exactly one invocation, however it ends:
\* joined, aborted, dropped with its run or its dispatch, or refused as a duplicate.
PermitsConserved ==
    permits + Cardinality({i \in Invocations :
        stage[i] \in Alive \cup Unjoined \cup {"leaving"}}) = MaxConcurrency

\* "Disconnect cancels and aborts every handler still owned by this run": when run
\* has returned, no task of its is left.
ReturnsQuiet == run = "returned" => Owned("run", Alive \cup Unjoined) = {}

\* A handler whose result reached nobody, its work perhaps going on elsewhere, has
\* been told: its token is cancelled, even if it was tracked after cancel_all or
\* its run was dropped and cancel_all never called.
AbandonedIsCancelled ==
    \A i \in began : stage[i] \in Unjoined \cup {"leaving", "gone"} /\ i \notin delivered
                        => i \in cancelled

\* While nothing is being stopped, an id has at most one handler between its call
\* and the delivery of its result.
OneHandlerPerId ==
    run = "running" /\ session # "closed" =>
        \A i, j \in {k \in began : stage[k] \in {"executing", "completing"}} :
            id[i] = id[j] => i = j

\* Every id of the table belongs to a living guard: none is refused for ever.
TableIsTight == \A x \in Ids : table[x] # None => table[x] \in tracking

\* What the end of run and of a dispatch is about.
Closed == session = "closed"
Dropped == run = "dropped"
RunOver == run = "returned" \/ (run = "dropped" /\ Owned("run", Alive) = {})
DispatchLeft(i) == session = "closed" /\ owner[i] = "dispatch" /\ stage[i] # "gone"

-----------------------------------------------------------------------------
(* The inductive invariant.                                                *)

\* A taken invocation has an owner and an id; only run holds a failed completion.
Taken ==
    \A i \in Invocations : stage[i] # "unused" =>
        /\ owner[i] \in {"run", "dispatch"}
        /\ id[i] \in Ids
        /\ stage[i] = "held" => owner[i] = "run"

\* The overload queue has each of its invocations once.
Queued ==
    /\ \A k \in 1 .. Len(queue) : stage[queue[k]] = "queued"
    /\ \A j, k \in 1 .. Len(queue) : queue[j] = queue[k] => j = k

\* Guards live from the first poll to the completion, and a handler that was called
\* has one.
Guarded ==
    /\ \A i \in tracking : stage[i] \in {"executing", "completing"}
    /\ \A i \in began :
          /\ stage[i] \in {"executing", "completing", "leaving", "gone"} \cup Unjoined
          /\ stage[i] \in {"executing", "completing"} => i \in tracking

\* An id of the table is that of its guard; and until run stops or the session
\* closes, each guard has its id.  A dispatch is left for the end of the session.
Tabled ==
    /\ \A x \in Ids : table[x] # None => table[x] \in tracking /\ id[table[x]] = x
    /\ run = "running" /\ session # "closed" => \A i \in tracking : table[id[i]] = i
    /\ \A i \in Invocations : stage[i] = "leaving" => session = "closed"

RuntimeInv ==
    /\ TypeOK /\ Taken /\ Queued /\ Guarded /\ Tabled
    /\ PermitsConserved /\ ReturnsQuiet /\ AbandonedIsCancelled
=============================================================================
