------------------------ MODULE CommandRuntimeProofs ------------------------
(***************************************************************************)
(* Theorems about CommandRuntime, for every finite set of invocations, any *)
(* mix of run and dispatch, any ids and any number of permits.             *)
(***************************************************************************)
EXTENDS CommandRuntime, FiniteSetTheorems, TLAPS

-----------------------------------------------------------------------------
(* The inductive invariant.                                                *)

\* Which stages an invocation can be in depends on who carries it; a guard
\* belongs to a task under way, and an evaluation always has one.
Placed ==
    \A d \in Slots :
        /\ stage[d] = "unused" <=> via[d] = "none"
        /\ via[d] # "none" => id[d] \in Ids
        /\ via[d] \in {"run", "worker"} => d \notin Direct
        /\ via[d] \in {"dispatch", "spill", "refusal"} => d \in Direct
        /\ via[d] = "worker" => stage[d] \in {"queued", "gone"} \cup Delivering
        /\ via[d] \in {"spill", "refusal"} => stage[d] \in {"gone"} \cup Delivering
        /\ stage[d] = "queued" => via[d] = "worker"
        /\ stage[d] \in Finished => via[d] = "run"
        /\ stage[d] \in Sweeping => via[d] = "dispatch" /\ ended
        /\ guard[d] => via[d] \in {"run", "dispatch"} /\ stage[d] \in Evaluating \cup Delivering
        /\ stage[d] \in Evaluating => guard[d]

\* What the table tracks has a guard; an input is open only while it is tracked,
\* or until the cancel_all that took it closes it.
TableSound ==
    /\ \A i \in Ids : active[i] # None => guard[active[i]] /\ id[active[i]] = i
    /\ \A d \in Slots : ~shut[d] => (guard[d] /\ active[id[d]] = d) \/ Taken(d)

\* Only a cancel_all that is under way has something in hand.
TakenSound ==
    /\ taken[None] # {} => run = "cancelling"
    /\ \A d \in Slots : taken[d] # {} => stage[d] = "sweeping"

\* As long as nothing has emptied the table, every guard is tracked; where only run
\* is used, its id is its own to the end.
GuardsTracked ==
    /\ Undisturbed => \A d \in Slots : guard[d] => active[id[d]] = d
    /\ OnlyRun => \A d, e \in Slots : guard[d] /\ guard[e] /\ id[d] = id[e] => d = e

\* Once run has begun to stop, every task of it that is not yet over has been
\* cancelled, is about to be, or will see that the session has ended.
StopReached ==
    run \notin {"loop", "dropped"} =>
        \A d \in Slots :
            via[d] = "run" /\ guard[d] =>
                cancelled[d] \/ d \in taken[None] \/ (ended /\ ~OnlyRun)

\* The overload queue holds each result that waits for the worker once.
QueueSound ==
    /\ \A k \in 1 .. Len(overload) : via[overload[k]] = "worker" /\ stage[overload[k]] = "queued"
    /\ \A j, k \in 1 .. Len(overload) : overload[j] = overload[k] => j = k

\* The worker delivers one result at a time, and leaves nothing behind unless
\* run was dropped; it is ended by nobody while run is in its loop.
WorkerSound ==
    /\ \A d \in Slots : via[d] = "worker" /\ stage[d] \in Delivering => worker = "busy"
    /\ \A d, e \in Slots :
          /\ via[d] = "worker" /\ stage[d] \in Delivering
          /\ via[e] = "worker" /\ stage[e] \in Delivering
          => d = e
    /\ worker \in {"failed", "ended"} /\ run # "dropped" =>
          \A d \in Slots : via[d] = "worker" => stage[d] = "gone"
    /\ worker = "ended" => run # "loop"

\* run closes the session only after it has joined its tasks and its worker.
JoinSound ==
    /\ run \in {"closing", "done"} => AllJoined
    /\ run = "done" => closing
    /\ held => run \in {"cancelling", "joining", "closing"}

\* A completion is Ok only if it was acknowledged.
AckSound ==
    /\ \A d \in Slots : stage[d] = "ok" => acked[d]
    /\ NoResultLost

TasksInv == Placed /\ QueueSound /\ WorkerSound /\ JoinSound /\ AckSound

TableInv == TableSound /\ TakenSound /\ GuardsTracked /\ StopReached

RuntimeInv == TasksInv /\ TableInv

-----------------------------------------------------------------------------
(* The shapes of a step.                                                   *)

\* A step of evaluate_tracked: within the evaluation or out of it, at most
\* setting the task's own token, and into the handler only by way of the checks.
Moves(d) ==
    \E to \in Evaluating \cup {"deliver"}, c \in BOOLEAN :
        /\ stage[d] \in Evaluating
        /\ stage' = [stage EXCEPT ![d] = to]
        /\ cancelled[d] => c
        /\ cancelled' = [cancelled EXCEPT ![d] = c]
        /\ to = "entering" => stage[d] = "admitted" /\ ~cancelled[d] /\ ~Retired
        /\ to = "handler" => stage[d] = "entering"
        /\ UNCHANGED <<invVars, guard, overflowed, shut, acked, tableVars, permits, loopVars, sessionVars>>

\* A task learns the fate of its result.
Completes(d, ok) == stage[d] \in Delivering /\ ~Aborted(d) /\ Complete(d, ok)

\* run begins to stop for a reason that is not an invocation's.
Halt ==
    /\ BeginStop
    /\ UNCHANGED <<stage, invVars, tokenVars, acked, permits, overload, worker, held, sessionVars>>

\* Every step of an evaluation (evaluate_tracked) has the shape of Moves.
LEMMA EvaluateMoves ==
    ASSUME TypeOK, NEW d \in Slots, Evaluate(d)
    PROVE  Moves(d)
<1> USE DEF TypeOK, Evaluating, Moves, Poll, Step
<1>0. cancelled = [cancelled EXCEPT ![d] = cancelled[d]] /\ cancelled[d] \in BOOLEAN
  OBVIOUS
<1>1. CASE Refuse(d)
  BY <1>0, <1>1 DEF Refuse
<1>2. CASE Expired(d)
  BY <1>2 DEF Expired
<1>3. CASE EnterAdmission(d)
  BY <1>0, <1>3 DEF EnterAdmission
<1>4. CASE AdmissionRejects(d)
  BY <1>0, <1>4 DEF AdmissionRejects
<1>5. CASE AdmissionPasses(d)
  BY <1>0, <1>5 DEF AdmissionPasses
<1>6. CASE RejectEntry(d)
  BY <1>6 DEF RejectEntry
<1>7. CASE PassEntry(d)
  BY <1>0, <1>7 DEF PassEntry, EntryRejected
<1>8. CASE CallHandler(d)
  BY <1>0, <1>8 DEF CallHandler
<1>9. CASE HandlerReturns(d)
  BY <1>0, <1>9 DEF HandlerReturns
<1>10. CASE HandlerCancelled(d)
  BY <1>10 DEF HandlerCancelled
<1> QED
  BY <1>1, <1>2, <1>3, <1>4, <1>5, <1>6, <1>7, <1>8, <1>9, <1>10 DEF Evaluate

\* The steps of the runtime, by shape: run, dispatch, routing, evaluation,
\* completion, joining, stopping.
LEMMA NextCases ==
    ASSUME TypeOK, [Next]_vars
    PROVE  \/ \E d \in Slots, i \in Ids, dup \in BOOLEAN :
                 Spawn(d, i, dup) \/ Overload(d, i, dup) \/ Saturated(d, i, dup)
           \/ \E d \in Slots, i \in Ids :
                 \/ DispatchDuplex(d, i) \/ DispatchPermit(d, i)
                 \/ DispatchSpill(d, i) \/ DispatchSaturated(d, i)
           \/ \E i \in Ids : RouteCancel(i) \/ RouteOverflow(i)
           \/ \E d \in Slots :
                 \/ Moves(d) \/ HeartbeatFails(d) \/ SendResult(d)
                 \/ JoinNext(d) \/ JoinFailed(d)
                 \/ DropTask(d) \/ DrainFinished(d) \/ DispatchClosed(d)
                 \/ DispatchSweeps(d) \/ DispatchReturns(d)
           \/ \E c \in Cancellers, d \in Slots : CancelTaken(c, d)
           \/ \E d \in Slots, ok \in BOOLEAN : Completes(d, ok)
           \/ Halt \/ WorkerTakes \/ AbortAll \/ Joined \/ CloseSession
           \/ DropRun \/ DropWorker \/ DetachedWorkerEnds \/ SessionEnds
           \/ UNCHANGED vars
<1>1. ASSUME NEW d \in Slots, Acknowledge(d) \/ ResultFails(d)
      PROVE  \E ok \in BOOLEAN : Completes(d, ok)
  BY <1>1 DEF Acknowledge, ResultFails, Completes, Delivering
<1>2. ASSUME EventFails \/ WorkerEnds
      PROVE  Halt
  BY <1>2 DEF EventFails, WorkerEnds, Halt
<1> QED
  BY <1>1, <1>2, EvaluateMoves DEF Next, Deliver, Stop, Sweep

-----------------------------------------------------------------------------
(* The invariant is inductive.                                             *)

\* cancel_all leaves the table empty and has in hand what was in it.
LEMMA Takes ==
    ASSUME TypeOK, NEW c \in Cancellers, TakeTable(c)
    PROVE  /\ active' \in [Ids -> Slots \cup {None}]
           /\ \A i \in Ids : active'[i] = None
           /\ taken' \in [Cancellers -> SUBSET Slots]
           /\ \A d \in Slots : d \in taken'[c] <=> \E i \in Ids : active[i] = d
           /\ \A e \in Cancellers \ {c} : taken'[e] = taken[e]
           /\ \A d \in Slots : Taken(d) /\ taken[c] = {} => Taken(d)'
           /\ \A d \in Slots, i \in Ids : active[i] = d => Taken(d)'
<1> DEFINE T == {d \in Slots : \E i \in Ids : active[i] = d}
<1>1. taken \in [Cancellers -> SUBSET Slots] /\ T \in SUBSET Slots
  BY DEF TypeOK
<1>2. taken' = [taken EXCEPT ![c] = T] /\ active' = [i \in Ids |-> None]
  BY DEF TakeTable
<1>3. \A d \in Slots : d \in T <=> \E i \in Ids : active[i] = d
  OBVIOUS
<1> HIDE DEF T
<1>4. taken' \in [Cancellers -> SUBSET Slots] /\ taken'[c] = T
      /\ \A e \in Cancellers \ {c} : taken'[e] = taken[e]
  BY <1>1, <1>2
<1>5. \A d \in Slots : Taken(d) /\ taken[c] = {} => Taken(d)'
  BY <1>4 DEF Taken
<1>6. \A d \in Slots, i \in Ids : active[i] = d => Taken(d)'
  BY <1>3, <1>4 DEF Taken
<1> QED
  BY <1>2, <1>3, <1>4, <1>5, <1>6

\* run begins to stop: what its cancel_all has in hand.
LEMMA Stops ==
    ASSUME TypeOK, BeginStop
    PROVE  /\ run = "loop" /\ run' = "cancelling"
           /\ active' \in [Ids -> Slots \cup {None}]
           /\ \A i \in Ids : active'[i] = None
           /\ taken' \in [Slots \cup {None} -> SUBSET Slots]
           /\ \A e \in Slots \cup {None} : e # None => taken'[e] = taken[e]
           /\ \A d \in Slots, i \in Ids : active[i] = d => d \in taken'[None] /\ Taken(d)'
           /\ \A d \in Slots : Taken(d) /\ taken[None] = {} => Taken(d)'
BY Takes DEF BeginStop, Cancellers

\* A dispatch begins its cancel_all, at the end of the session.
LEMMA Sweeps ==
    ASSUME TypeOK, NEW c \in Slots, DispatchSweeps(c)
    PROVE  /\ stage[c] = "closed" /\ stage' = [stage EXCEPT ![c] = "sweeping"]
           /\ active' \in [Ids -> Slots \cup {None}]
           /\ \A i \in Ids : active'[i] = None
           /\ taken' \in [Slots \cup {None} -> SUBSET Slots]
           /\ \A e \in Slots \cup {None} : e # c => taken'[e] = taken[e]
           /\ \A d \in Slots, i \in Ids : active[i] = d => Taken(d)'
           /\ \A d \in Slots : Taken(d) /\ taken[c] = {} => Taken(d)'
           /\ UNCHANGED <<invVars, tokenVars, acked, permits, loopVars, sessionVars>>
<1>1. c \in Cancellers /\ TakeTable(c)
  BY DEF Cancellers, DispatchSweeps
<1> QED
  BY <1>1, Takes DEF DispatchSweeps, Cancellers

\* Every step keeps the types; a worker takes only what is in its queue.
LEMMA TypeStep ==
    ASSUME TypeOK, [Next]_vars
    PROVE  TypeOK'
<1> USE DEF TypeOK, Stages, Vias, tableVars, Cancellers, RunStates, Evaluating, Delivering, Finished, Sweeping
<1>1. ASSUME NEW d \in Slots, NEW i \in Ids, NEW dup \in BOOLEAN, Spawn(d, i, dup)
      PROVE  TypeOK'
  BY <1>1 DEF Spawn, Receive, Acquired, Track, Tracks, loopVars, sessionVars
<1>2. ASSUME NEW d \in Slots, NEW i \in Ids, NEW dup \in BOOLEAN, Overload(d, i, dup)
      PROVE  TypeOK'
  BY <1>2 DEF Overload, Receive, tokenVars, sessionVars
<1>3. ASSUME NEW d \in Slots, NEW i \in Ids, NEW dup \in BOOLEAN, Saturated(d, i, dup)
      PROVE  TypeOK'
  BY <1>3, Stops DEF Saturated, Receive, tokenVars, sessionVars
<1>4. ASSUME NEW d \in Slots, NEW i \in Ids, DispatchDuplex(d, i)
      PROVE  TypeOK'
  BY <1>4 DEF DispatchDuplex, Dispatch, tokenVars, loopVars, sessionVars
<1>5. ASSUME NEW d \in Slots, NEW i \in Ids, DispatchPermit(d, i)
      PROVE  TypeOK'
  BY <1>5 DEF DispatchPermit, Dispatch, Acquired, Track, Tracks, loopVars, sessionVars
<1>6. ASSUME NEW d \in Slots, NEW i \in Ids, DispatchSpill(d, i)
      PROVE  TypeOK'
  BY <1>6 DEF DispatchSpill, Dispatch, tokenVars, loopVars, sessionVars
<1>7. ASSUME NEW d \in Slots, NEW i \in Ids, DispatchSaturated(d, i)
      PROVE  TypeOK'
  BY <1>7 DEF DispatchSaturated, Dispatch, tokenVars, loopVars
<1>8. ASSUME NEW i \in Ids, RouteCancel(i)
      PROVE  TypeOK'
  BY <1>8 DEF RouteCancel, invVars, loopVars, sessionVars
<1>9. ASSUME NEW i \in Ids, RouteOverflow(i)
      PROVE  TypeOK'
  BY <1>9 DEF RouteOverflow, invVars, loopVars, sessionVars
<1>10. ASSUME NEW d \in Slots, Moves(d)
       PROVE  TypeOK'
  BY <1>10 DEF Moves, invVars, loopVars, sessionVars
<1>11. ASSUME NEW d \in Slots, HeartbeatFails(d)
       PROVE  TypeOK'
  BY <1>11 DEF HeartbeatFails, invVars, loopVars, sessionVars
<1>12. ASSUME NEW d \in Slots, SendResult(d)
       PROVE  TypeOK'
  BY <1>12 DEF SendResult, invVars, tokenVars, loopVars, sessionVars
<1>13. ASSUME NEW d \in Slots, NEW ok \in BOOLEAN, Completes(d, ok)
       PROVE  TypeOK'
  <2>1. permits' \in Nat /\ worker' \in {"idle", "busy", "failed", "ended"}
    BY <1>13 DEF Completes, Complete, WorkerAfter
  <2>2. overload' \in Seq(Slots)
    BY <1>13 DEF Completes, Complete
  <2>3. Untracked(d) \in [Ids -> Slots \cup {None}]
    BY DEF Untracked
  <2>4. stage' \in [Slots -> Stages]
    BY <1>13 DEF Completes, Complete
  <2> QED
    BY <1>13, <2>1, <2>2, <2>3, <2>4 DEF Completes, Complete, Untrack, invVars, sessionVars
<1>14. ASSUME NEW d \in Slots, JoinNext(d)
       PROVE  TypeOK'
  BY <1>14 DEF JoinNext, invVars, tokenVars, loopVars, sessionVars
<1>15. ASSUME NEW d \in Slots, JoinFailed(d)
       PROVE  TypeOK'
  BY <1>15, Stops DEF JoinFailed, invVars, tokenVars, sessionVars
<1>16. ASSUME NEW d \in Slots, DropTask(d)
       PROVE  TypeOK'
  <2>1. PermitsAfterDrop(d) \in Nat
    BY DEF PermitsAfterDrop
  <2>2. Untracked(d) \in [Ids -> Slots \cup {None}]
    BY DEF Untracked
  <2> QED
    BY <1>16, <2>1, <2>2 DEF DropTask, Untrack, invVars, loopVars, sessionVars
<1>17. ASSUME NEW d \in Slots, DrainFinished(d)
       PROVE  TypeOK'
  BY <1>17 DEF DrainFinished, Aborted, invVars, tokenVars, loopVars, sessionVars
<1>18. ASSUME NEW d \in Slots, DispatchClosed(d)
       PROVE  TypeOK'
  BY <1>18 DEF DispatchClosed, Untrack, Untracked, invVars, loopVars, sessionVars
<1>19. CASE Halt
  BY <1>19, Stops DEF Halt, invVars, tokenVars, sessionVars
<1>20. CASE WorkerTakes
  BY <1>20 DEF WorkerTakes, invVars, tokenVars, sessionVars
<1>21. CASE AbortAll
  BY <1>21 DEF AbortAll, invVars, tokenVars, sessionVars
<1>22. CASE Joined
  BY <1>22 DEF Joined, invVars, tokenVars, sessionVars
<1>23. CASE CloseSession
  <2>1. Returned \in Nat
    BY DEF Returned
  <2> QED
    BY <1>23, <2>1 DEF CloseSession, invVars, tokenVars
<1>24. CASE DropRun
  <2>1. Returned \in Nat
    BY DEF Returned
  <2> QED
    BY <1>24, <2>1 DEF DropRun, invVars, tokenVars, sessionVars
<1>25. CASE DropWorker
  BY <1>25 DEF DropWorker, invVars, tokenVars, sessionVars
<1>26. CASE DetachedWorkerEnds
  BY <1>26 DEF DetachedWorkerEnds, invVars, tokenVars, sessionVars
<1>27. CASE SessionEnds
  BY <1>27 DEF SessionEnds, invVars, tokenVars, loopVars
<1>28. CASE UNCHANGED vars
  BY <1>28 DEF vars, invVars, tokenVars, loopVars, sessionVars
<1>29. ASSUME NEW c \in Cancellers, NEW d \in Slots, CancelTaken(c, d)
       PROVE  TypeOK'
  BY <1>29 DEF CancelTaken, Cancellers, Taken, invVars, loopVars, sessionVars
<1>30. ASSUME NEW d \in Slots, DispatchSweeps(d)
       PROVE  TypeOK'
  BY <1>30, Sweeps DEF invVars, tokenVars, loopVars, sessionVars
<1>31. ASSUME NEW d \in Slots, DispatchReturns(d)
       PROVE  TypeOK'
  BY <1>31 DEF DispatchReturns, AllCancelled, Cancellers, Taken, invVars, tokenVars, loopVars, sessionVars
<1> HIDE DEF TypeOK, Stages, Vias, tableVars, Cancellers, RunStates, Evaluating, Delivering, Finished, Sweeping
<1> QED
  BY NextCases, <1>1, <1>2, <1>3, <1>4, <1>5, <1>6, <1>7, <1>8, <1>9, <1>10, <1>11,
     <1>12, <1>13, <1>14, <1>15, <1>16, <1>17, <1>18, <1>19, <1>20, <1>21, <1>22, <1>23,
     <1>24, <1>25, <1>26, <1>27, <1>28, <1>29, <1>30, <1>31

\* Every step of the runtime keeps what is said of its tasks: the queue and its
\* worker, the joins and the acknowledgements.
LEMMA TasksStep ==
    ASSUME TypeOK, TasksInv, [Next]_vars, TypeOK'
    PROVE  TasksInv'
<1> USE DEF TypeOK, TasksInv, Placed, QueueSound, WorkerSound, JoinSound, AllJoined, AckSound,
       NoResultLost, Aborted, tableVars, Evaluating, Delivering, Finished, Sweeping
<1>1. ASSUME NEW d \in Slots, NEW i \in Ids, NEW dup \in BOOLEAN, Spawn(d, i, dup)
      PROVE  TasksInv'
  <2>1. Placed'
    <3>1. CASE Tracks(i)
      <4>1. \A e \in Slots : e # d => /\ stage'[e] = stage[e] /\ via'[e] = via[e]
                                    /\ id'[e] = id[e] /\ guard'[e] = guard[e]
        BY <1>1 DEF Spawn, Receive, Acquired, Track, Tracks, loopVars, sessionVars
      <4>2. stage'[d] = "spawned" /\ via'[d] = "run" /\ id'[d] = i
        BY <1>1, <3>1 DEF Spawn, Receive
      <4>4. guard'[d]
        BY <1>1, <3>1 DEF Spawn, Track
      <4>3. d \notin Direct /\ ended' = ended
        BY <1>1 DEF Spawn, Receive, Acquired, Track, Tracks, loopVars, sessionVars
      <4> QED
        BY <4>1, <4>2, <4>3, <4>4
    <3>2. CASE ~Tracks(i)
      BY <1>1, <3>2 DEF Spawn, Receive, Acquired, Track, Tracks, loopVars, sessionVars
    <3> QED
      BY <3>1, <3>2
  <2>2. QueueSound' /\ WorkerSound'
    BY <1>1 DEF Spawn, Receive, Acquired, Track, Tracks, loopVars, sessionVars
  <2>3. JoinSound' /\ AckSound'
    BY <1>1 DEF Spawn, Receive, Acquired, Track, Tracks, loopVars, sessionVars
  <2> QED
    BY <2>1, <2>2, <2>3
<1>2. ASSUME NEW d \in Slots, NEW i \in Ids, NEW dup \in BOOLEAN, Overload(d, i, dup)
      PROVE  TasksInv'
  BY <1>2, SlotsAssumption DEF Overload, Receive, tokenVars, sessionVars
<1>3. ASSUME NEW d \in Slots, NEW i \in Ids, NEW dup \in BOOLEAN, Saturated(d, i, dup)
      PROVE  TasksInv'
  BY <1>3, SlotsAssumption, Stops DEF Saturated, Receive, tokenVars, sessionVars
<1>4. ASSUME NEW d \in Slots, NEW i \in Ids, DispatchDuplex(d, i)
      PROVE  TasksInv'
  <2> USE <1>4 DEF DispatchDuplex, Dispatch, tokenVars, loopVars, sessionVars
  <2>1. Placed'
    OBVIOUS
  <2>2. QueueSound' /\ WorkerSound'
    OBVIOUS
  <2>3. JoinSound' /\ AckSound'
    OBVIOUS
  <2> QED
    BY <2>1, <2>2, <2>3
<1>5. ASSUME NEW d \in Slots, NEW i \in Ids, DispatchPermit(d, i)
      PROVE  TasksInv'
  <2>1. Placed'
    <3>1. CASE Tracks(i)
      <4>1. \A e \in Slots : e # d => /\ stage'[e] = stage[e] /\ via'[e] = via[e]
                                    /\ id'[e] = id[e] /\ guard'[e] = guard[e]
        BY <1>5 DEF DispatchPermit, Dispatch, Acquired, Track, Tracks, loopVars, sessionVars
      <4>2. stage'[d] = "spawned" /\ via'[d] = "dispatch" /\ id'[d] = i
        BY <1>5, <3>1 DEF DispatchPermit, Dispatch
      <4>4. guard'[d]
        BY <1>5, <3>1 DEF DispatchPermit, Track
      <4>3. d \in Direct /\ ended' = ended
        BY <1>5 DEF DispatchPermit, Dispatch, Acquired, Track, Tracks, loopVars, sessionVars
      <4> QED
        BY <4>1, <4>2, <4>3, <4>4
    <3>2. CASE ~Tracks(i)
      BY <1>5, <3>2 DEF DispatchPermit, Dispatch, Acquired, Track, Tracks, loopVars, sessionVars
    <3> QED
      BY <3>1, <3>2
  <2>2. QueueSound' /\ WorkerSound'
    BY <1>5 DEF DispatchPermit, Dispatch, Acquired, Track, Tracks, loopVars, sessionVars
  <2>3. JoinSound' /\ AckSound'
    BY <1>5 DEF DispatchPermit, Dispatch, Acquired, Track, Tracks, loopVars, sessionVars
  <2> QED
    BY <2>1, <2>2, <2>3
<1>6. ASSUME NEW d \in Slots, NEW i \in Ids, DispatchSpill(d, i)
      PROVE  TasksInv'
  BY <1>6, SlotsAssumption DEF DispatchSpill, Dispatch, tokenVars, loopVars, sessionVars
<1>7. ASSUME NEW d \in Slots, NEW i \in Ids, DispatchSaturated(d, i)
      PROVE  TasksInv'
  BY <1>7, SlotsAssumption DEF DispatchSaturated, Dispatch, tokenVars, loopVars
<1>8. ASSUME NEW i \in Ids, RouteCancel(i)
      PROVE  TasksInv'
  BY <1>8, SlotsAssumption DEF RouteCancel, invVars, loopVars, sessionVars
<1>9. ASSUME NEW i \in Ids, RouteOverflow(i)
      PROVE  TasksInv'
  BY <1>9, SlotsAssumption DEF RouteOverflow, invVars, loopVars, sessionVars
<1>10. ASSUME NEW d \in Slots, Moves(d)
       PROVE  TasksInv'
  BY <1>10, SlotsAssumption DEF Moves, invVars, loopVars, sessionVars
<1>11. ASSUME NEW d \in Slots, HeartbeatFails(d)
       PROVE  TasksInv'
  BY <1>11, SlotsAssumption DEF HeartbeatFails, invVars, loopVars, sessionVars
<1>12. ASSUME NEW d \in Slots, SendResult(d)
       PROVE  TasksInv'
  BY <1>12, SlotsAssumption DEF SendResult, invVars, tokenVars, loopVars, sessionVars
<1>13. ASSUME NEW d \in Slots, NEW ok \in BOOLEAN, Completes(d, ok)
       PROVE  TasksInv'
  BY <1>13, SlotsAssumption DEF Completes, Complete, Untrack, Untracked, WorkerAfter,
     invVars, sessionVars
<1>14. ASSUME NEW d \in Slots, JoinNext(d)
       PROVE  TasksInv'
  BY <1>14, SlotsAssumption DEF JoinNext, invVars, tokenVars, loopVars, sessionVars
<1>15. ASSUME NEW d \in Slots, JoinFailed(d)
       PROVE  TasksInv'
  BY <1>15, SlotsAssumption, Stops DEF JoinFailed, invVars, tokenVars, sessionVars
<1>16. ASSUME NEW d \in Slots, DropTask(d)
       PROVE  TasksInv'
  BY <1>16, SlotsAssumption DEF DropTask, Untrack, Untracked, PermitsAfterDrop, invVars,
     loopVars, sessionVars
<1>17. ASSUME NEW d \in Slots, DrainFinished(d)
       PROVE  TasksInv'
  BY <1>17, SlotsAssumption DEF DrainFinished, invVars, tokenVars, loopVars, sessionVars
<1>18. ASSUME NEW d \in Slots, DispatchClosed(d)
       PROVE  TasksInv'
  BY <1>18, SlotsAssumption DEF DispatchClosed, Untrack, Untracked, invVars, loopVars,
     sessionVars
<1>19. CASE Halt
  BY <1>19, SlotsAssumption, Stops DEF Halt, invVars, tokenVars, sessionVars
<1>20. CASE WorkerTakes
  BY <1>20, SlotsAssumption DEF WorkerTakes, invVars, tokenVars, sessionVars
<1>21. CASE AbortAll
  BY <1>21, SlotsAssumption DEF AbortAll, invVars, tokenVars, sessionVars
<1>22. CASE Joined
  BY <1>22, SlotsAssumption DEF Joined, invVars, tokenVars, sessionVars
<1>23. CASE CloseSession
  BY <1>23, SlotsAssumption DEF CloseSession, Returned, invVars, tokenVars
<1>24. CASE DropRun
  BY <1>24, SlotsAssumption DEF DropRun, Returned, invVars, tokenVars, sessionVars
<1>25. CASE DropWorker
  BY <1>25, SlotsAssumption DEF DropWorker, invVars, tokenVars, sessionVars
<1>26. CASE DetachedWorkerEnds
  BY <1>26, SlotsAssumption DEF DetachedWorkerEnds, invVars, tokenVars, sessionVars
<1>27. CASE SessionEnds
  BY <1>27, SlotsAssumption DEF SessionEnds, invVars, tokenVars, loopVars
<1>28. CASE UNCHANGED vars
  BY <1>28, SlotsAssumption DEF vars, invVars, tokenVars, loopVars, sessionVars
<1>29. ASSUME NEW c \in Cancellers, NEW d \in Slots, CancelTaken(c, d)
       PROVE  TasksInv'
  BY <1>29, SlotsAssumption DEF CancelTaken, invVars, loopVars, sessionVars
<1>30. ASSUME NEW d \in Slots, DispatchSweeps(d)
       PROVE  TasksInv'
  BY <1>30 DEF DispatchSweeps, invVars, tokenVars, loopVars, sessionVars
<1>31. ASSUME NEW d \in Slots, DispatchReturns(d)
       PROVE  TasksInv'
  BY <1>31, SlotsAssumption DEF DispatchReturns, AllCancelled, invVars, tokenVars, loopVars,
     sessionVars
<1> HIDE DEF TypeOK, TasksInv, Placed, QueueSound, WorkerSound, JoinSound, AllJoined, AckSound,
       NoResultLost, Aborted, tableVars, Evaluating, Delivering, Finished, Sweeping
<1> QED
  BY NextCases, <1>1, <1>2, <1>3, <1>4, <1>5, <1>6, <1>7, <1>8, <1>9, <1>10, <1>11, <1>12,
     <1>13, <1>14, <1>15, <1>16, <1>17, <1>18, <1>19, <1>20, <1>21, <1>22, <1>23, <1>24, <1>25,
     <1>26, <1>27, <1>28, <1>29, <1>30, <1>31

\* ... and what is said of the table: through track, through the guards that remove
\* by id whatever they find, and through every step of a cancel_all.
LEMMA TableStep ==
    ASSUME TypeOK, TasksInv, TableInv, [Next]_vars, TypeOK'
    PROVE  TableInv'
<1> USE DEF TypeOK, Placed, tableVars, Cancellers, Evaluating, Delivering, Finished, Sweeping
<1>0. Placed /\ QueueSound /\ JoinSound /\ TableSound /\ TakenSound /\ GuardsTracked /\ StopReached
  BY DEF TasksInv, TableInv
<1>t. taken' = taken => \A d \in Slots : Taken(d)' <=> Taken(d)
  BY DEF Taken
<1>1. ASSUME NEW d \in Slots, NEW i \in Ids, NEW dup \in BOOLEAN, Spawn(d, i, dup)
      PROVE  TableInv'
  <2>1. TableSound'
    <3>1. CASE Tracks(i)
      <4>1. \A e \in Slots : e # d => /\ id'[e] = id[e] /\ guard'[e] = guard[e]
                                    /\ shut'[e] = shut[e]
        BY <1>1 DEF Spawn, Receive, Acquired, Track, Tracks, loopVars, sessionVars
      <4>2. id'[d] = i /\ ~guard[d]
        BY <1>0, <1>1 DEF Spawn, Receive
      <4>6. guard'[d]
        BY <1>1, <3>1 DEF Spawn, Track
      <4>3. \A j \in Ids : active'[j] = IF j = i THEN d ELSE active[j]
        BY <1>1, <3>1 DEF Spawn, Receive, Acquired, Track, Tracks, loopVars, sessionVars
      <4>4. active[i] = None /\ taken' = taken
        BY <1>1, <3>1 DEF Spawn, Receive, Acquired, Track, Tracks, loopVars, sessionVars
      <4>5. \A e \in Slots : guard[e] => id[e] \in Ids
        BY <1>0
      <4>7. ASSUME NEW j \in Ids, active'[j] # None
            PROVE  guard'[active'[j]] /\ id'[active'[j]] = j
        <5>1. CASE j = i
          BY <4>2, <4>3, <4>6, <5>1
        <5>2. CASE j # i
          <6>1. active[j] \in Slots /\ guard[active[j]] /\ id[active[j]] = j
            BY <1>0, <4>3, <4>7, <5>2 DEF TableSound
          <6>2. active[j] # d /\ active'[j] = active[j]
            BY <4>2, <4>3, <5>2, <6>1
          <6> QED
            BY <4>1, <6>1, <6>2
        <5> QED
          BY <5>1, <5>2
      <4>8. \A e \in Slots : e # d /\ ~shut'[e] =>
                (guard'[e] /\ active'[id'[e]] = e) \/ Taken(e)'
        BY <1>0, <1>t, <4>1, <4>3, <4>4, <4>5, SlotsAssumption DEF TableSound
      <4>9. active'[id'[d]] = d
        BY <4>2, <4>3
      <4> QED
        BY <4>6, <4>7, <4>8, <4>9 DEF TableSound
    <3>2. CASE ~Tracks(i)
      BY <1>0, <1>t, <1>1, <3>2, SlotsAssumption
         DEF Spawn, Receive, Acquired, Track, Tracks, loopVars, sessionVars, TableSound
    <3> QED
      BY <3>1, <3>2
  <2>2. TakenSound'
    BY <1>0, <1>t, <1>1, SlotsAssumption DEF Spawn, Receive, Acquired, Track, Tracks,
       loopVars, sessionVars, TakenSound
  <2>3. GuardsTracked'
    BY <1>0, <1>t, <1>1, SlotsAssumption DEF Spawn, Receive, Acquired, Track, Tracks,
       loopVars, sessionVars, GuardsTracked, Undisturbed, OnlyRun
  <2>4. StopReached'
    BY <1>0, <1>t, <1>1, SlotsAssumption DEF Spawn, Receive, Acquired, Track, Tracks,
       loopVars, sessionVars, GuardsTracked, StopReached, Undisturbed, OnlyRun
  <2> QED
    BY <2>1, <2>2, <2>3, <2>4 DEF TableInv
<1>2. ASSUME NEW d \in Slots, NEW i \in Ids, NEW dup \in BOOLEAN, Overload(d, i, dup)
      PROVE  TableInv'
  <2>1. TableSound'
    BY <1>0, <1>t, <1>2, SlotsAssumption DEF Overload, Receive, tokenVars, sessionVars,
       TableSound
  <2>2. TakenSound'
    BY <1>0, <1>t, <1>2, SlotsAssumption DEF Overload, Receive, tokenVars, sessionVars,
       TakenSound
  <2>3. GuardsTracked'
    BY <1>0, <1>t, <1>2, SlotsAssumption DEF Overload, Receive, tokenVars, sessionVars,
       GuardsTracked, Undisturbed, OnlyRun
  <2>4. StopReached'
    BY <1>0, <1>t, <1>2, SlotsAssumption DEF Overload, Receive, tokenVars, sessionVars,
       GuardsTracked, StopReached, Undisturbed, OnlyRun
  <2> QED
    BY <2>1, <2>2, <2>3, <2>4 DEF TableInv
<1>3. ASSUME NEW d \in Slots, NEW i \in Ids, NEW dup \in BOOLEAN, Saturated(d, i, dup)
      PROVE  TableInv'
  <2>1. TableSound'
    BY <1>0, <1>3, SlotsAssumption, Stops DEF Saturated, Receive, tokenVars, sessionVars,
       TableSound, TakenSound
  <2>2. TakenSound'
    BY <1>0, <1>3, SlotsAssumption, Stops DEF Saturated, Receive, tokenVars, sessionVars,
       TakenSound
  <2>3. GuardsTracked'
    BY <1>0, <1>3, SlotsAssumption, Stops DEF Saturated, Receive, tokenVars, sessionVars,
       GuardsTracked, Undisturbed, OnlyRun
  <2>4. StopReached'
    BY <1>0, <1>3, SlotsAssumption, Stops DEF Saturated, Receive, tokenVars, sessionVars,
       GuardsTracked, StopReached, Undisturbed, OnlyRun
  <2> QED
    BY <2>1, <2>2, <2>3, <2>4 DEF TableInv
<1>4. ASSUME NEW d \in Slots, NEW i \in Ids, DispatchDuplex(d, i)
      PROVE  TableInv'
  <2>1. TableSound'
    BY <1>0, <1>t, <1>4, SlotsAssumption DEF DispatchDuplex, Dispatch, tokenVars, loopVars,
       sessionVars, TableSound
  <2>2. TakenSound'
    BY <1>0, <1>t, <1>4, SlotsAssumption DEF DispatchDuplex, Dispatch, tokenVars, loopVars,
       sessionVars, TakenSound
  <2>3. GuardsTracked'
    BY <1>0, <1>t, <1>4, SlotsAssumption DEF DispatchDuplex, Dispatch, tokenVars, loopVars,
       sessionVars, GuardsTracked, Undisturbed, OnlyRun
  <2>4. StopReached'
    BY <1>0, <1>t, <1>4, SlotsAssumption DEF DispatchDuplex, Dispatch, tokenVars, loopVars,
       sessionVars, GuardsTracked, StopReached, Undisturbed, OnlyRun
  <2> QED
    BY <2>1, <2>2, <2>3, <2>4 DEF TableInv
<1>5. ASSUME NEW d \in Slots, NEW i \in Ids, DispatchPermit(d, i)
      PROVE  TableInv'
  <2>1. TableSound'
    <3>1. CASE Tracks(i)
      <4>1. \A e \in Slots : e # d => /\ id'[e] = id[e] /\ guard'[e] = guard[e]
                                    /\ shut'[e] = shut[e]
        BY <1>5 DEF DispatchPermit, Dispatch, Acquired, Track, Tracks, loopVars, sessionVars
      <4>2. id'[d] = i /\ ~guard[d]
        BY <1>0, <1>5 DEF DispatchPermit, Dispatch
      <4>6. guard'[d]
        BY <1>5, <3>1 DEF DispatchPermit, Track
      <4>3. \A j \in Ids : active'[j] = IF j = i THEN d ELSE active[j]
        BY <1>5, <3>1 DEF DispatchPermit, Dispatch, Acquired, Track, Tracks, loopVars, sessionVars
      <4>4. active[i] = None /\ taken' = taken
        BY <1>5, <3>1 DEF DispatchPermit, Dispatch, Acquired, Track, Tracks, loopVars, sessionVars
      <4>5. \A e \in Slots : guard[e] => id[e] \in Ids
        BY <1>0
      <4>7. ASSUME NEW j \in Ids, active'[j] # None
            PROVE  guard'[active'[j]] /\ id'[active'[j]] = j
        <5>1. CASE j = i
          BY <4>2, <4>3, <4>6, <5>1
        <5>2. CASE j # i
          <6>1. active[j] \in Slots /\ guard[active[j]] /\ id[active[j]] = j
            BY <1>0, <4>3, <4>7, <5>2 DEF TableSound
          <6>2. active[j] # d /\ active'[j] = active[j]
            BY <4>2, <4>3, <5>2, <6>1
          <6> QED
            BY <4>1, <6>1, <6>2
        <5> QED
          BY <5>1, <5>2
      <4>8. \A e \in Slots : e # d /\ ~shut'[e] =>
                (guard'[e] /\ active'[id'[e]] = e) \/ Taken(e)'
        BY <1>0, <1>t, <4>1, <4>3, <4>4, <4>5, SlotsAssumption DEF TableSound
      <4>9. active'[id'[d]] = d
        BY <4>2, <4>3
      <4> QED
        BY <4>6, <4>7, <4>8, <4>9 DEF TableSound
    <3>2. CASE ~Tracks(i)
      BY <1>0, <1>t, <1>5, <3>2, SlotsAssumption
         DEF DispatchPermit, Dispatch, Acquired, Track, Tracks, loopVars, sessionVars, TableSound
    <3> QED
      BY <3>1, <3>2
  <2>2. TakenSound'
    BY <1>0, <1>t, <1>5, SlotsAssumption DEF DispatchPermit, Dispatch, Acquired, Track,
       Tracks, loopVars, sessionVars, TakenSound
  <2>3. GuardsTracked'
    BY <1>0, <1>t, <1>5, SlotsAssumption DEF DispatchPermit, Dispatch, Acquired, Track,
       Tracks, loopVars, sessionVars, GuardsTracked, Undisturbed, OnlyRun
  <2>4. StopReached'
    BY <1>0, <1>t, <1>5, SlotsAssumption DEF DispatchPermit, Dispatch, Acquired, Track,
       Tracks, loopVars, sessionVars, GuardsTracked, StopReached, Undisturbed, OnlyRun
  <2> QED
    BY <2>1, <2>2, <2>3, <2>4 DEF TableInv
<1>6. ASSUME NEW d \in Slots, NEW i \in Ids, DispatchSpill(d, i)
      PROVE  TableInv'
  <2>1. TableSound'
    BY <1>0, <1>t, <1>6, SlotsAssumption DEF DispatchSpill, Dispatch, tokenVars, loopVars,
       sessionVars, TableSound
  <2>2. TakenSound'
    BY <1>0, <1>t, <1>6, SlotsAssumption DEF DispatchSpill, Dispatch, tokenVars, loopVars,
       sessionVars, TakenSound
  <2>3. GuardsTracked'
    BY <1>0, <1>t, <1>6, SlotsAssumption DEF DispatchSpill, Dispatch, tokenVars, loopVars,
       sessionVars, GuardsTracked, Undisturbed, OnlyRun
  <2>4. StopReached'
    BY <1>0, <1>t, <1>6, SlotsAssumption DEF DispatchSpill, Dispatch, tokenVars, loopVars,
       sessionVars, GuardsTracked, StopReached, Undisturbed, OnlyRun
  <2> QED
    BY <2>1, <2>2, <2>3, <2>4 DEF TableInv
<1>7. ASSUME NEW d \in Slots, NEW i \in Ids, DispatchSaturated(d, i)
      PROVE  TableInv'
  <2>1. TableSound'
    BY <1>0, <1>t, <1>7, SlotsAssumption DEF DispatchSaturated, Dispatch, tokenVars,
       loopVars, TableSound
  <2>2. TakenSound'
    BY <1>0, <1>t, <1>7, SlotsAssumption DEF DispatchSaturated, Dispatch, tokenVars,
       loopVars, TakenSound
  <2>3. GuardsTracked'
    BY <1>0, <1>t, <1>7, SlotsAssumption DEF DispatchSaturated, Dispatch, tokenVars,
       loopVars, GuardsTracked, Undisturbed, OnlyRun
  <2>4. StopReached'
    BY <1>0, <1>t, <1>7, SlotsAssumption DEF DispatchSaturated, Dispatch, tokenVars,
       loopVars, GuardsTracked, StopReached, Undisturbed, OnlyRun
  <2> QED
    BY <2>1, <2>2, <2>3, <2>4 DEF TableInv
<1>8. ASSUME NEW i \in Ids, RouteCancel(i)
      PROVE  TableInv'
  BY <1>0, <1>t, <1>8, SlotsAssumption DEF RouteCancel, invVars, loopVars, sessionVars,
     TableInv, TableSound, TakenSound, GuardsTracked, StopReached, Undisturbed, OnlyRun
<1>9. ASSUME NEW i \in Ids, RouteOverflow(i)
      PROVE  TableInv'
  <2>1. TableSound'
    BY <1>0, <1>t, <1>9, SlotsAssumption DEF RouteOverflow, invVars, loopVars, sessionVars,
       TableSound
  <2>2. TakenSound'
    BY <1>0, <1>t, <1>9, SlotsAssumption DEF RouteOverflow, invVars, loopVars, sessionVars,
       TakenSound
  <2>3. GuardsTracked'
    BY <1>0, <1>t, <1>9, SlotsAssumption DEF RouteOverflow, invVars, loopVars, sessionVars,
       GuardsTracked, Undisturbed, OnlyRun
  <2>4. StopReached'
    BY <1>0, <1>t, <1>9, SlotsAssumption DEF RouteOverflow, invVars, loopVars, sessionVars,
       GuardsTracked, StopReached, Undisturbed, OnlyRun
  <2> QED
    BY <2>1, <2>2, <2>3, <2>4 DEF TableInv
<1>10. ASSUME NEW d \in Slots, Moves(d)
       PROVE  TableInv'
  BY <1>0, <1>t, <1>10, SlotsAssumption DEF Moves, invVars, loopVars, sessionVars, TableInv,
     TableSound, TakenSound, GuardsTracked, StopReached, Undisturbed, OnlyRun
<1>11. ASSUME NEW d \in Slots, HeartbeatFails(d)
       PROVE  TableInv'
  BY <1>0, <1>t, <1>11, SlotsAssumption DEF HeartbeatFails, invVars, loopVars, sessionVars,
     TableInv, TableSound, TakenSound, GuardsTracked, StopReached, Undisturbed, OnlyRun
<1>12. ASSUME NEW d \in Slots, SendResult(d)
       PROVE  TableInv'
  BY <1>0, <1>t, <1>12, SlotsAssumption DEF SendResult, invVars, tokenVars, loopVars,
     sessionVars, TableInv, TableSound, TakenSound, GuardsTracked, StopReached, Undisturbed,
     OnlyRun
<1>13. ASSUME NEW d \in Slots, NEW ok \in BOOLEAN, Completes(d, ok)
       PROVE  TableInv'
  <2>1. TableSound'
    BY <1>0, <1>t, <1>13, SlotsAssumption DEF Completes, Complete, Untrack, Untracked,
       WorkerAfter, invVars, sessionVars, TableSound
  <2>2. TakenSound'
    BY <1>0, <1>t, <1>13, SlotsAssumption DEF Completes, Complete, Untrack, Untracked,
       WorkerAfter, invVars, sessionVars, TakenSound
  <2>3. GuardsTracked'
    BY <1>0, <1>t, <1>13, SlotsAssumption DEF Completes, Complete, Untrack, Untracked,
       WorkerAfter, invVars, sessionVars, GuardsTracked, Undisturbed, OnlyRun
  <2>4. StopReached'
    BY <1>0, <1>t, <1>13, SlotsAssumption DEF Completes, Complete, Untrack, Untracked,
       WorkerAfter, invVars, sessionVars, GuardsTracked, StopReached, Undisturbed, OnlyRun
  <2> QED
    BY <2>1, <2>2, <2>3, <2>4 DEF TableInv
<1>14. ASSUME NEW d \in Slots, JoinNext(d)
       PROVE  TableInv'
  BY <1>0, <1>t, <1>14, SlotsAssumption DEF JoinNext, invVars, tokenVars, loopVars,
     sessionVars, TableInv, TableSound, TakenSound, GuardsTracked, StopReached, Undisturbed,
     OnlyRun
<1>15. ASSUME NEW d \in Slots, JoinFailed(d)
       PROVE  TableInv'
  <2>1. TableSound'
    BY <1>0, <1>15, SlotsAssumption, Stops DEF JoinFailed, invVars, tokenVars, sessionVars,
       TableSound, TakenSound
  <2>2. TakenSound'
    BY <1>0, <1>15, SlotsAssumption, Stops DEF JoinFailed, invVars, tokenVars, sessionVars,
       TakenSound
  <2>3. GuardsTracked'
    BY <1>0, <1>15, SlotsAssumption, Stops DEF JoinFailed, invVars, tokenVars, sessionVars,
       GuardsTracked, Undisturbed, OnlyRun
  <2>4. StopReached'
    BY <1>0, <1>15, SlotsAssumption, Stops DEF JoinFailed, invVars, tokenVars, sessionVars,
       GuardsTracked, StopReached, Undisturbed, OnlyRun
  <2> QED
    BY <2>1, <2>2, <2>3, <2>4 DEF TableInv
<1>16. ASSUME NEW d \in Slots, DropTask(d)
       PROVE  TableInv'
  <2>1. TableSound'
    BY <1>0, <1>t, <1>16, SlotsAssumption DEF DropTask, Untrack, Untracked,
       PermitsAfterDrop, invVars, loopVars, sessionVars, TableSound
  <2>2. TakenSound'
    BY <1>0, <1>t, <1>16, SlotsAssumption DEF DropTask, Untrack, Untracked,
       PermitsAfterDrop, invVars, loopVars, sessionVars, TakenSound
  <2>3. GuardsTracked'
    BY <1>0, <1>t, <1>16, SlotsAssumption DEF DropTask, Untrack, Untracked,
       PermitsAfterDrop, invVars, loopVars, sessionVars, GuardsTracked, Undisturbed, OnlyRun
  <2>4. StopReached'
    BY <1>0, <1>t, <1>16, SlotsAssumption DEF DropTask, Untrack, Untracked,
       PermitsAfterDrop, invVars, loopVars, sessionVars, GuardsTracked, StopReached,
       Undisturbed, OnlyRun
  <2> QED
    BY <2>1, <2>2, <2>3, <2>4 DEF TableInv
<1>17. ASSUME NEW d \in Slots, DrainFinished(d)
       PROVE  TableInv'
  BY <1>0, <1>t, <1>17, SlotsAssumption DEF DrainFinished, invVars, tokenVars, loopVars,
     sessionVars, TableInv, TableSound, TakenSound, GuardsTracked, StopReached, Undisturbed,
     OnlyRun
<1>18. ASSUME NEW d \in Slots, DispatchClosed(d)
       PROVE  TableInv'
  <2>1. TableSound'
    BY <1>0, <1>t, <1>18, SlotsAssumption DEF DispatchClosed, Untrack, Untracked, invVars,
       loopVars, sessionVars, TableSound
  <2>2. TakenSound'
    BY <1>0, <1>t, <1>18, SlotsAssumption DEF DispatchClosed, Untrack, Untracked, invVars,
       loopVars, sessionVars, TakenSound
  <2>3. GuardsTracked'
    BY <1>0, <1>t, <1>18, SlotsAssumption DEF DispatchClosed, Untrack, Untracked, invVars,
       loopVars, sessionVars, GuardsTracked, Undisturbed, OnlyRun
  <2>4. StopReached'
    BY <1>0, <1>t, <1>18, SlotsAssumption DEF DispatchClosed, Untrack, Untracked, invVars,
       loopVars, sessionVars, GuardsTracked, StopReached, Undisturbed, OnlyRun
  <2> QED
    BY <2>1, <2>2, <2>3, <2>4 DEF TableInv
<1>19. CASE Halt
  <2>1. TableSound'
    BY <1>0, <1>19, SlotsAssumption, Stops DEF Halt, invVars, tokenVars, sessionVars,
       TableSound, TakenSound
  <2>2. TakenSound'
    BY <1>0, <1>19, SlotsAssumption, Stops DEF Halt, invVars, tokenVars, sessionVars,
       TakenSound
  <2>3. GuardsTracked'
    BY <1>0, <1>19, SlotsAssumption, Stops DEF Halt, invVars, tokenVars, sessionVars,
       GuardsTracked, Undisturbed, OnlyRun
  <2>4. StopReached'
    BY <1>0, <1>19, SlotsAssumption, Stops DEF Halt, invVars, tokenVars, sessionVars,
       GuardsTracked, StopReached, Undisturbed, OnlyRun
  <2> QED
    BY <2>1, <2>2, <2>3, <2>4 DEF TableInv
<1>20. CASE WorkerTakes
  <2>1. TableSound'
    BY <1>0, <1>t, <1>20, SlotsAssumption DEF WorkerTakes, invVars, tokenVars, sessionVars,
       TableSound
  <2>2. TakenSound'
    BY <1>0, <1>t, <1>20, SlotsAssumption DEF WorkerTakes, invVars, tokenVars, sessionVars,
       TakenSound, QueueSound
  <2>3. GuardsTracked'
    BY <1>0, <1>t, <1>20, SlotsAssumption DEF WorkerTakes, invVars, tokenVars, sessionVars,
       GuardsTracked, Undisturbed, OnlyRun
  <2>4. StopReached'
    BY <1>0, <1>t, <1>20, SlotsAssumption DEF WorkerTakes, invVars, tokenVars, sessionVars,
       GuardsTracked, StopReached, Undisturbed, OnlyRun, QueueSound
  <2> QED
    BY <2>1, <2>2, <2>3, <2>4 DEF TableInv
<1>21. CASE AbortAll
  <2>1. TableSound'
    BY <1>0, <1>t, <1>21, SlotsAssumption DEF AbortAll, AllCancelled, invVars, tokenVars,
       sessionVars, TableSound
  <2>2. TakenSound'
    BY <1>0, <1>t, <1>21, SlotsAssumption DEF AbortAll, AllCancelled, invVars, tokenVars,
       sessionVars, TakenSound
  <2>3. GuardsTracked'
    BY <1>0, <1>t, <1>21, SlotsAssumption DEF AbortAll, AllCancelled, invVars, tokenVars,
       sessionVars, GuardsTracked, Undisturbed, OnlyRun
  <2>4. StopReached'
    BY <1>0, <1>t, <1>21, SlotsAssumption DEF AbortAll, AllCancelled, invVars, tokenVars,
       sessionVars, GuardsTracked, StopReached, Undisturbed, OnlyRun
  <2> QED
    BY <2>1, <2>2, <2>3, <2>4 DEF TableInv
<1>22. CASE Joined
  BY <1>0, <1>t, <1>22, SlotsAssumption DEF Joined, invVars, tokenVars, sessionVars,
     TableInv, TableSound, TakenSound, GuardsTracked, StopReached, Undisturbed, OnlyRun
<1>23. CASE CloseSession
  BY <1>0, <1>t, <1>23, SlotsAssumption DEF CloseSession, Returned, invVars, tokenVars,
     TableInv, TableSound, TakenSound, GuardsTracked, StopReached, Undisturbed, OnlyRun
<1>24. CASE DropRun
  BY <1>0, <1>t, <1>24, SlotsAssumption DEF DropRun, Returned, invVars, tokenVars,
     sessionVars, TableInv, TableSound, TakenSound, GuardsTracked, StopReached, Undisturbed,
     OnlyRun
<1>25. CASE DropWorker
  <2>1. TableSound'
    BY <1>0, <1>t, <1>25, SlotsAssumption DEF DropWorker, invVars, tokenVars, sessionVars,
       TableSound
  <2>2. TakenSound'
    BY <1>0, <1>t, <1>25, SlotsAssumption DEF DropWorker, invVars, tokenVars, sessionVars,
       TakenSound
  <2>3. GuardsTracked'
    BY <1>0, <1>t, <1>25, SlotsAssumption DEF DropWorker, invVars, tokenVars, sessionVars,
       GuardsTracked, Undisturbed, OnlyRun
  <2>4. StopReached'
    BY <1>0, <1>t, <1>25, SlotsAssumption DEF DropWorker, invVars, tokenVars, sessionVars,
       GuardsTracked, StopReached, Undisturbed, OnlyRun
  <2> QED
    BY <2>1, <2>2, <2>3, <2>4 DEF TableInv
<1>26. CASE DetachedWorkerEnds
  BY <1>0, <1>t, <1>26, SlotsAssumption DEF DetachedWorkerEnds, invVars, tokenVars,
     sessionVars, TableInv, TableSound, TakenSound, GuardsTracked, StopReached, Undisturbed,
     OnlyRun
<1>27. CASE SessionEnds
  BY <1>0, <1>t, <1>27, SlotsAssumption DEF SessionEnds, invVars, tokenVars, loopVars,
     TableInv, TableSound, TakenSound, GuardsTracked, StopReached, Undisturbed, OnlyRun
<1>28. CASE UNCHANGED vars
  BY <1>0, <1>t, <1>28, SlotsAssumption DEF vars, invVars, tokenVars, loopVars, sessionVars,
     TableInv, TableSound, TakenSound, GuardsTracked, StopReached, Undisturbed, OnlyRun
<1>29. ASSUME NEW c \in Cancellers, NEW d \in Slots, CancelTaken(c, d)
       PROVE  TableInv'
  <2>0. \A e \in Slots : e # d => (Taken(e)' <=> Taken(e))
    BY <1>0, <1>29 DEF CancelTaken, Taken
  <2>1. TableSound'
    BY <1>0, <1>29, <2>0, SlotsAssumption DEF CancelTaken, invVars, loopVars, sessionVars,
       TableSound
  <2>2. TakenSound'
    BY <1>0, <1>29, <2>0, SlotsAssumption DEF CancelTaken, invVars, loopVars, sessionVars,
       TakenSound
  <2>3. GuardsTracked'
    BY <1>0, <1>29, <2>0, SlotsAssumption DEF CancelTaken, invVars, loopVars, sessionVars,
       GuardsTracked, Undisturbed, OnlyRun
  <2>4. StopReached'
    BY <1>0, <1>29, <2>0, SlotsAssumption DEF CancelTaken, invVars, loopVars, sessionVars,
       GuardsTracked, StopReached, Undisturbed, OnlyRun
  <2> QED
    BY <2>1, <2>2, <2>3, <2>4 DEF TableInv
<1>30. ASSUME NEW d \in Slots, DispatchSweeps(d)
       PROVE  TableInv'
  <2>a. /\ stage[d] = "closed" /\ stage' = [stage EXCEPT ![d] = "sweeping"]
        /\ \A i \in Ids : active'[i] = None
        /\ \A e \in Slots \cup {None} : e # d => taken'[e] = taken[e]
        /\ \A e \in Slots, i \in Ids : active[i] = e => Taken(e)'
        /\ \A e \in Slots : Taken(e) /\ taken[d] = {} => Taken(e)'
        /\ UNCHANGED <<shut, id, run>>
    BY <1>30, Sweeps DEF invVars, tokenVars, loopVars
  <2>b. taken[d] = {}
    BY <1>0, <2>a DEF TakenSound
  <2>1. TableSound'
    BY <1>0, <2>a, <2>b DEF TableSound
  <2>2. TakenSound'
    BY <1>0, <2>a, SlotsAssumption DEF TakenSound
  <2>0. ~OnlyRun /\ ended
    BY <1>0, <1>30 DEF DispatchSweeps, OnlyRun
  <2>3. GuardsTracked'
    BY <2>0, <1>30 DEF DispatchSweeps, invVars, sessionVars, GuardsTracked, Undisturbed, OnlyRun
  <2>4. StopReached'
    BY <2>0, <1>30 DEF DispatchSweeps, invVars, sessionVars, StopReached, OnlyRun
  <2> QED
    BY <2>1, <2>2, <2>3, <2>4 DEF TableInv
<1>31. ASSUME NEW d \in Slots, DispatchReturns(d)
       PROVE  TableInv'
  BY <1>0, <1>t, <1>31, SlotsAssumption DEF DispatchReturns, AllCancelled, invVars,
     tokenVars, loopVars, sessionVars, TableInv, TableSound, TakenSound, GuardsTracked,
     StopReached, Undisturbed, OnlyRun
<1> HIDE DEF TypeOK, Placed, tableVars, Cancellers, Evaluating, Delivering, Finished, Sweeping
<1> QED
  BY NextCases, <1>1, <1>2, <1>3, <1>4, <1>5, <1>6, <1>7, <1>8, <1>9, <1>10, <1>11, <1>12,
     <1>13, <1>14, <1>15, <1>16, <1>17, <1>18, <1>19, <1>20, <1>21, <1>22, <1>23, <1>24, <1>25,
     <1>26, <1>27, <1>28, <1>29, <1>30, <1>31

\* The invocations that own a permit, and the permits that none of them owns:
\* the free ones, and the one of a failed completion that run still holds.
Holders == {d \in Slots : HoldsPermit(d)}
Unowned == permits + (IF held THEN 1 ELSE 0)

\* A step takes a permit for one invocation, gives the permit of one back (or
\* holds it for run), or does neither.
Balanced ==
    \/ Holders' = Holders /\ Unowned' = Unowned
    \/ \E d \in Slots :
          /\ d \notin Holders /\ Holders' = Holders \cup {d}
          /\ Unowned' = Unowned - 1
    \/ \E d \in Slots :
          /\ d \in Holders /\ Holders' = Holders \ {d}
          /\ Unowned' = Unowned + 1

\* Every step of the runtime is balanced: aborts, dropped futures, failed
\* results and the return of run give back exactly the permit they own.
LEMMA BalancedStep ==
    ASSUME TypeOK, RuntimeInv, [Next]_vars, TypeOK'
    PROVE  Balanced
<1> USE DEF TypeOK, Holders, HoldsPermit, Unowned, Balanced, RuntimeInv, TasksInv, Placed,
       QueueSound, JoinSound, tableVars, Evaluating, Delivering, Finished, Sweeping
<1>1. ASSUME NEW d \in Slots, NEW i \in Ids, NEW dup \in BOOLEAN, Spawn(d, i, dup)
      PROVE  Balanced
  BY <1>1 DEF Spawn, Receive, Acquired, Track, Tracks, loopVars, sessionVars
<1>2. ASSUME NEW d \in Slots, NEW i \in Ids, NEW dup \in BOOLEAN, Overload(d, i, dup)
      PROVE  Balanced
  BY <1>2 DEF Overload, Receive, tokenVars, sessionVars
<1>3. ASSUME NEW d \in Slots, NEW i \in Ids, NEW dup \in BOOLEAN, Saturated(d, i, dup)
      PROVE  Balanced
  BY <1>3, Stops DEF Saturated, Receive, tokenVars, sessionVars
<1>4. ASSUME NEW d \in Slots, NEW i \in Ids, DispatchDuplex(d, i)
      PROVE  Balanced
  BY <1>4 DEF DispatchDuplex, Dispatch, tokenVars, loopVars, sessionVars
<1>5. ASSUME NEW d \in Slots, NEW i \in Ids, DispatchPermit(d, i)
      PROVE  Balanced
  BY <1>5 DEF DispatchPermit, Dispatch, Acquired, Track, Tracks, loopVars, sessionVars
<1>6. ASSUME NEW d \in Slots, NEW i \in Ids, DispatchSpill(d, i)
      PROVE  Balanced
  BY <1>6 DEF DispatchSpill, Dispatch, tokenVars, loopVars, sessionVars
<1>7. ASSUME NEW d \in Slots, NEW i \in Ids, DispatchSaturated(d, i)
      PROVE  Balanced
  BY <1>7 DEF DispatchSaturated, Dispatch, tokenVars, loopVars
<1>8. ASSUME NEW i \in Ids, RouteCancel(i)
      PROVE  Balanced
  BY <1>8 DEF RouteCancel, invVars, loopVars, sessionVars
<1>9. ASSUME NEW i \in Ids, RouteOverflow(i)
      PROVE  Balanced
  BY <1>9 DEF RouteOverflow, invVars, loopVars, sessionVars
<1>10. ASSUME NEW d \in Slots, Moves(d)
       PROVE  Balanced
  BY <1>10 DEF Moves, invVars, loopVars, sessionVars
<1>11. ASSUME NEW d \in Slots, HeartbeatFails(d)
       PROVE  Balanced
  BY <1>11 DEF HeartbeatFails, invVars, loopVars, sessionVars
<1>12. ASSUME NEW d \in Slots, SendResult(d)
       PROVE  Balanced
  BY <1>12 DEF SendResult, invVars, tokenVars, loopVars, sessionVars
<1>13. ASSUME NEW d \in Slots, NEW ok \in BOOLEAN, Completes(d, ok)
       PROVE  Balanced
  BY <1>13 DEF Completes, Complete, Untrack, Untracked, WorkerAfter, invVars,
     sessionVars
<1>14. ASSUME NEW d \in Slots, JoinNext(d)
       PROVE  Balanced
  BY <1>14 DEF JoinNext, invVars, tokenVars, loopVars, sessionVars
<1>15. ASSUME NEW d \in Slots, JoinFailed(d)
       PROVE  Balanced
  BY <1>15, Stops DEF JoinFailed, invVars, tokenVars, sessionVars
<1>16. ASSUME NEW d \in Slots, DropTask(d)
       PROVE  Balanced
  <2> USE <1>16 DEF DropTask, Untrack, PermitsAfterDrop, invVars, loopVars, sessionVars
  <2>1. CASE via[d] \in {"run", "dispatch"}
    <3>1. d \in Holders /\ Holders' = Holders \ {d}
      BY <2>1
    <3>2. Unowned' = Unowned + 1
      BY <2>1
    <3> QED
      BY <3>1, <3>2
  <2>2. CASE via[d] \notin {"run", "dispatch"}
    BY <2>2
  <2> QED
    BY <2>1, <2>2
<1>17. ASSUME NEW d \in Slots, DrainFinished(d)
       PROVE  Balanced
  BY <1>17 DEF DrainFinished, Aborted, invVars, tokenVars, loopVars, sessionVars
<1>18. ASSUME NEW d \in Slots, DispatchClosed(d)
       PROVE  Balanced
  BY <1>18 DEF DispatchClosed, Untrack, Untracked, invVars, loopVars, sessionVars
<1>19. CASE Halt
  BY <1>19, Stops DEF Halt, invVars, tokenVars, sessionVars
<1>20. CASE WorkerTakes
  BY <1>20 DEF WorkerTakes, invVars, tokenVars, sessionVars
<1>21. CASE AbortAll
  BY <1>21 DEF AbortAll, invVars, tokenVars, sessionVars
<1>22. CASE Joined
  BY <1>22 DEF Joined, invVars, tokenVars, sessionVars
<1>23. CASE CloseSession
  BY <1>23 DEF CloseSession, Returned, invVars, tokenVars
<1>24. CASE DropRun
  BY <1>24 DEF DropRun, Returned, invVars, tokenVars, sessionVars
<1>25. CASE DropWorker
  BY <1>25 DEF DropWorker, invVars, tokenVars, sessionVars
<1>26. CASE DetachedWorkerEnds
  BY <1>26 DEF DetachedWorkerEnds, invVars, tokenVars, sessionVars
<1>27. CASE SessionEnds
  BY <1>27 DEF SessionEnds, invVars, tokenVars, loopVars
<1>28. CASE UNCHANGED vars
  BY <1>28 DEF vars, invVars, tokenVars, loopVars, sessionVars
<1>29. ASSUME NEW c \in Cancellers, NEW d \in Slots, CancelTaken(c, d)
       PROVE  Balanced
  BY <1>29 DEF CancelTaken, Cancellers, Taken, invVars, loopVars, sessionVars
<1>30. ASSUME NEW d \in Slots, DispatchSweeps(d)
       PROVE  Balanced
  BY <1>30 DEF DispatchSweeps, invVars, tokenVars, loopVars, sessionVars
<1>31. ASSUME NEW d \in Slots, DispatchReturns(d)
       PROVE  Balanced
  BY <1>31 DEF DispatchReturns, AllCancelled, Cancellers, Taken, invVars, tokenVars, loopVars, sessionVars
<1> HIDE DEF TypeOK, Holders, HoldsPermit, Unowned, Balanced, RuntimeInv, TasksInv, Placed,
       QueueSound, JoinSound, tableVars, Evaluating, Delivering, Finished, Sweeping
<1> QED
  BY NextCases, <1>1, <1>2, <1>3, <1>4, <1>5, <1>6, <1>7, <1>8, <1>9, <1>10, <1>11,
     <1>12, <1>13, <1>14, <1>15, <1>16, <1>17, <1>18, <1>19, <1>20, <1>21, <1>22, <1>23,
     <1>24, <1>25, <1>26, <1>27, <1>28, <1>29, <1>30, <1>31

\* A balanced step conserves the permits.
LEMMA PermitsStep ==
    ASSUME TypeOK, RuntimeInv, [Next]_vars, TypeOK', PermitsConserved
    PROVE  PermitsConserved'
<1> DEFINE n == Cardinality(Holders)
           m == Cardinality(Holders')
<1>1. IsFiniteSet(Holders) /\ n \in Nat
  BY SlotsAssumption, FS_Subset, FS_CardinalityType DEF Holders
<1>2. Unowned \in Nat /\ Unowned' \in Nat
  <2>1. ASSUME NEW p \in Nat, NEW h
        PROVE  p + (IF h THEN 1 ELSE 0) \in Nat
    OBVIOUS
  <2>2. permits \in Nat /\ permits' \in Nat
    BY DEF TypeOK
  <2> QED
    BY <2>1, <2>2, Zenon DEF Unowned
<1>3. Unowned + n = MaxConcurrency
  BY <1>1 DEF PermitsConserved, Holders, Unowned, TypeOK
<1>4. \/ m = n /\ Unowned' = Unowned
      \/ m = n + 1 /\ Unowned' = Unowned - 1
      \/ m = n - 1 /\ Unowned' = Unowned + 1
  <2>1. CASE Holders' = Holders /\ Unowned' = Unowned
    BY <2>1
  <2>2. ASSUME NEW d \in Slots, d \notin Holders, Holders' = Holders \cup {d},
               Unowned' = Unowned - 1
        PROVE  m = n + 1
    BY <1>1, <2>2, FS_AddElement
  <2>3. ASSUME NEW d \in Slots, d \in Holders, Holders' = Holders \ {d},
               Unowned' = Unowned + 1
        PROVE  m = n - 1
    BY <1>1, <2>3, FS_RemoveElement
  <2> QED
    BY <2>1, <2>2, <2>3, BalancedStep DEF Balanced
<1>5. m \in Int
  BY <1>1, <1>4
<1> HIDE DEF n, m
<1>6. Unowned' + m = MaxConcurrency
  BY <1>1, <1>2, <1>3, <1>4, <1>5
<1> QED
  BY <1>5, <1>6 DEF m, PermitsConserved, Holders, Unowned, TypeOK

-----------------------------------------------------------------------------
(* The theorems.                                                           *)

\* The types, the invariant and the permits hold in every state of the runtime,
\* whatever run, dispatch, the Gateway and the handlers do.
THEOREM RuntimeInvariant == Spec => [](TypeOK /\ RuntimeInv /\ PermitsConserved)
<1> USE DEF Init, Stages, Vias, RunStates, Cancellers, Evaluating, Delivering, Finished, Sweeping
<1>0. Init => TypeOK
  <2> SUFFICES ASSUME Init PROVE TypeOK
    OBVIOUS
  <2>1. permits \in Nat /\ overload \in Seq(Slots)
    BY MaxConcurrencyAssumption
  <2> QED
    BY <2>1 DEF TypeOK
<1>1. Init => RuntimeInv
  BY SlotsAssumption
     DEF RuntimeInv, TasksInv, TableInv, Placed, TableSound, TakenSound, GuardsTracked, Undisturbed, OnlyRun,
         StopReached, Taken, Cancellers, QueueSound, WorkerSound, JoinSound, AllJoined, AckSound, NoResultLost
<1>2. Init => PermitsConserved
  <2> SUFFICES ASSUME Init PROVE PermitsConserved
    OBVIOUS
  <2>1. {d \in Slots : HoldsPermit(d)} = {}
    BY DEF Init, HoldsPermit
  <2>2. Cardinality({d \in Slots : HoldsPermit(d)}) = 0
    BY <2>1, FS_EmptySet
  <2> QED
    BY <2>2, MaxConcurrencyAssumption DEF Init, PermitsConserved
<1>3. TypeOK /\ RuntimeInv /\ PermitsConserved /\ [Next]_vars
          => (TypeOK /\ RuntimeInv /\ PermitsConserved)'
  BY TypeStep, TasksStep, TableStep, PermitsStep DEF RuntimeInv
<1> QED
  BY <1>0, <1>1, <1>2, <1>3, PTL DEF Spec

\* No execution permit is lost or forged by an abort, a dropped future, a failed
\* result or the return of run, in any mix of run and dispatch.
THEOREM PermitsAreConserved == Spec => []PermitsConserved
BY RuntimeInvariant, PTL

\* The table of active invocations is exact through track, the guards that remove
\* by id, and every cancel_all, of run or of a dispatch, that is under way.
THEOREM TableStaysExact == Spec => []TableIsExact
<1>1. TypeOK /\ RuntimeInv => CleanedUp
  BY DEF TypeOK, RuntimeInv, TableInv, TableSound, CleanedUp
<1>2. TypeOK /\ RuntimeInv /\ Undisturbed => HandlerIsReachable
  BY DEF TypeOK, RuntimeInv, TasksInv, TableInv, Placed, GuardsTracked, Evaluating, HandlerIsReachable
<1>3. TypeOK /\ RuntimeInv /\ OnlyRun => HandlerIsReachable
  <2> SUFFICES ASSUME TypeOK, RuntimeInv, OnlyRun, ~Undisturbed, NEW d \in Slots,
                      stage[d] = "handler", ~cancelled[d]
               PROVE  Taken(d)
    BY <1>2 DEF HandlerIsReachable
  <2>1. guard[d] /\ via[d] = "run"
    BY DEF RuntimeInv, TasksInv, Placed, Evaluating, OnlyRun
  <2>2. run \notin {"loop", "dropped"}
    BY DEF Undisturbed
  <2> QED
    BY <2>1, <2>2 DEF RuntimeInv, TableInv, StopReached, Taken, Cancellers
<1>4. TypeOK /\ RuntimeInv => TableIsExact
  BY <1>1, <1>2, <1>3 DEF TableIsExact
<1> QED
  BY <1>4, RuntimeInvariant, PTL

\* As long as no invocation was evaluated by dispatch, two deliveries with one id
\* never execute together; with dispatch beside run they can (run duplicate_ids).
THEOREM ExecutionIsUniqueForRun == Spec => [](OnlyRun => UniqueExecution)
<1>1. TypeOK /\ RuntimeInv => (OnlyRun => UniqueExecution)
  BY DEF TypeOK, RuntimeInv, TasksInv, TableInv, Placed, GuardsTracked, Evaluating, UniqueExecution
<1> QED
  BY <1>1, RuntimeInvariant, PTL

\* When run returns, its tasks and its worker are over and the session is being
\* closed, although dispatch goes on beside it.
THEOREM RunReturnsQuiet == Spec => []ReturnsQuiet
<1>1. TypeOK /\ RuntimeInv => ReturnsQuiet
  BY DEF TypeOK, RuntimeInv, TasksInv, WorkerSound, JoinSound, AllJoined, ReturnsQuiet
<1> QED
  BY <1>1, RuntimeInvariant, PTL

\* While run is in its loop and its worker has not failed, every invocation that
\* is gone had its result acknowledged by the Gateway.
THEOREM NoResultIsLost == Spec => []NoResultLost
<1>1. RuntimeInv => NoResultLost
  BY DEF RuntimeInv, TasksInv, AckSound
<1> QED
  BY <1>1, RuntimeInvariant, PTL

\* Only a step of the invocation's own evaluation takes it past the checks at
\* handler entry, or into its handler.
LEMMA EntersByMoves ==
    ASSUME TypeOK, RuntimeInv, [Next]_vars, NEW d \in Slots, stage'[d] # stage[d],
           stage'[d] \in {"entering", "handler"}
    PROVE  Moves(d)
<1> USE DEF TypeOK, Evaluating, Delivering, Finished, Sweeping
<1>1. PICK e \in Slots : Moves(e)
  <2> SUFFICES ASSUME ~ \E e \in Slots : Moves(e)
               PROVE  stage'[d] = stage[d] \/ stage'[d] \notin {"entering", "handler"}
    OBVIOUS
  <2>1. CASE \E e \in Slots, i \in Ids, dup \in BOOLEAN :
                Spawn(e, i, dup) \/ Overload(e, i, dup) \/ Saturated(e, i, dup)
    BY <2>1 DEF Spawn, Overload, Saturated, Receive
  <2>2. CASE \E e \in Slots, i \in Ids :
                \/ DispatchDuplex(e, i) \/ DispatchPermit(e, i)
                \/ DispatchSpill(e, i) \/ DispatchSaturated(e, i)
    <3>1. CASE \E e \in Slots, i \in Ids : DispatchDuplex(e, i) \/ DispatchPermit(e, i)
      BY <3>1 DEF DispatchDuplex, DispatchPermit, Dispatch
    <3>2. CASE \E e \in Slots, i \in Ids : DispatchSpill(e, i) \/ DispatchSaturated(e, i)
      BY <3>2 DEF DispatchSpill, DispatchSaturated, Dispatch
    <3> QED
      BY <2>2, <3>1, <3>2
  <2>3. CASE \E i \in Ids : RouteCancel(i) \/ RouteOverflow(i)
    BY <2>3 DEF RouteCancel, RouteOverflow
  <2>4. CASE \E e \in Slots : HeartbeatFails(e) \/ SendResult(e) \/ JoinNext(e) \/ JoinFailed(e)
    BY <2>4 DEF HeartbeatFails, SendResult, JoinNext, JoinFailed
  <2>5. CASE \E e \in Slots : DropTask(e) \/ DrainFinished(e) \/ DispatchClosed(e)
                               \/ DispatchSweeps(e) \/ DispatchReturns(e)
    BY <2>5 DEF DropTask, DrainFinished, DispatchClosed, DispatchSweeps, DispatchReturns
  <2>6. CASE \E e \in Slots, ok \in BOOLEAN : Completes(e, ok)
    BY <2>6 DEF Completes, Complete
  <2>7. CASE Halt \/ WorkerTakes \/ AbortAll \/ Joined \/ CloseSession
    BY <2>7 DEF Halt, WorkerTakes, AbortAll, Joined, CloseSession, RuntimeInv, TasksInv, QueueSound
  <2>8. CASE DropRun \/ DropWorker \/ DetachedWorkerEnds \/ SessionEnds \/ UNCHANGED vars
    BY <2>8 DEF DropRun, DropWorker, DetachedWorkerEnds, SessionEnds, vars
  <2>9. CASE \E c \in Cancellers, e \in Slots : CancelTaken(c, e)
    BY <2>9 DEF CancelTaken
  <2> HIDE DEF TypeOK, Evaluating, Delivering, Finished, Sweeping
  <2> QED
    BY <2>1, <2>2, <2>3, <2>4, <2>5, <2>6, <2>7, <2>8, <2>9, NextCases
<1> QED
  BY <1>1 DEF Moves

\* Once run has begun to stop, none of its invocations passes the checks at handler
\* entry but one that cancel_all is about to cancel; and a handler that is called
\* all the same, because the stop fell between the checks and the call, finds its
\* token cancelled or about to be, or its session ended.
THEOREM NothingStartsAfterStop == Spec => NoStartAfterStop
<1>1. ASSUME TypeOK, RuntimeInv, [Next]_vars, NEW d \in Slots, via[d] = "run",
             run \notin {"loop", "dropped"}, stage'[d] # stage[d]
      PROVE  /\ stage'[d] = "entering" => d \in taken[None]
             /\ stage'[d] = "handler" => cancelled[d] \/ d \in taken[None] \/ ended
  <2> SUFFICES ASSUME stage'[d] \in {"entering", "handler"}
               PROVE  /\ stage'[d] = "entering" => d \in taken[None]
                      /\ stage'[d] = "handler" => cancelled[d] \/ d \in taken[None] \/ ended
    OBVIOUS
  <2>1. Moves(d)
    BY <1>1, EntersByMoves
  <2>2. stage[d] \in Evaluating /\ guard[d]
    BY <1>1, <2>1 DEF Moves, RuntimeInv, TasksInv, Placed
  <2>3. cancelled[d] \/ d \in taken[None] \/ ended
    BY <1>1, <2>2 DEF RuntimeInv, TableInv, StopReached
  <2>4. stage'[d] = "entering" => ~cancelled[d] /\ ~ended
    BY <1>1, <2>1 DEF Moves, TypeOK, Retired
  <2> QED
    BY <2>3, <2>4
<1>2. TypeOK /\ RuntimeInv /\ [Next]_vars
          => [\A d \in Slots :
                 via[d] = "run" /\ run \notin {"loop", "dropped"} /\ stage'[d] # stage[d] =>
                     /\ stage'[d] = "entering" => d \in taken[None]
                     /\ stage'[d] = "handler" => cancelled[d] \/ d \in taken[None] \/ ended]_vars
  BY <1>1
<1> QED
  BY <1>2, RuntimeInvariant, PTL DEF Spec, NoStartAfterStop
=============================================================================
