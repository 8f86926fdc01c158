--------------------------- MODULE GatewaySession ---------------------------
(***************************************************************************)
(* Correlated requests of a connected Gateway session                      *)
(* (crates/openclaw-gateway-client/src/session.rs): the callers of         *)
(* request_inner, the bounded command channel and the session task         *)
(* run_session, up to the end of the session.                              *)
(*                                                                         *)
(* Each request is made once by a caller of its own.  Time is abstracted   *)
(* to expired[r]: the deadline of r has passed, for its caller and for the *)
(* session task alike.  Event frames are the subject of EventHub: here a   *)
(* frame that answers no request only lets the loop go round.              *)
(***************************************************************************)
EXTENDS Naturals, Sequences, FiniteSets

CONSTANTS
    Requests,
    MaxInFlight     \* GatewayClientConfig::max_in_flight, raised to 1 if it is 0

ASSUME RequestsAssumption == IsFiniteSet(Requests)
ASSUME MaxInFlightAssumption == MaxInFlight \in Nat

VARIABLES
    pc,         \* pc[r]: where the caller of r is in request_inner
    result,     \* result[r]: what request_inner returned
    expired,    \* expired[r]: the deadline of r has passed
    flag,       \* flag[r]: RequestCancellation's shared `cancelled`
    reply,      \* reply[r]: the oneshot channel of r
    permits,    \* free permits of in_flight
    commands,   \* the command channel
    task,       \* where run_session is
    writing,    \* the request being written to the socket, at most one
    pending,    \* requests on the wire that await a response
    wire,       \* requests the Gateway may answer
    closing,    \* close() was called, or the last handle was dropped
    cause       \* the close cause has been sent (closed_tx)

callerVars == <<pc, result, expired>>
taskVars == <<task, writing, pending, wire>>
vars == <<callerVars, flag, reply, permits, commands, taskVars, closing, cause>>

max_in_flight == IF MaxInFlight > 0 THEN MaxInFlight ELSE 1

Request(r) == [kind |-> "request", r |-> r]
CancelRequest(r) == [kind |-> "cancel", r |-> r]
Queued == {commands[i].r : i \in {j \in 1 .. Len(commands) : commands[j].kind = "request"}}

Init ==
    /\ pc = [r \in Requests |-> "acquiring"]
    /\ result = [r \in Requests |-> "none"]
    /\ expired = [r \in Requests |-> FALSE]
    /\ flag = [r \in Requests |-> FALSE]
    /\ reply = [r \in Requests |-> "none"]
    /\ permits = max_in_flight
    /\ commands = <<>>
    /\ task = "top"
    /\ writing = {}
    /\ pending = {}
    /\ wire = {}
    /\ closing = FALSE
    /\ cause = FALSE

-----------------------------------------------------------------------------
(* request_inner.                                                          *)

DeadlinePasses(r) ==
    /\ ~expired[r]
    /\ pc[r] # "done"
    /\ expired' = [expired EXCEPT ![r] = TRUE]
    /\ UNCHANGED <<pc, result, flag, reply, permits, commands, taskVars, closing, cause>>

Return(r, outcome) ==
    /\ pc' = [pc EXCEPT ![r] = "done"]
    /\ result' = [result EXCEPT ![r] = outcome]
    /\ UNCHANGED expired

Acquire(r) ==
    /\ pc[r] = "acquiring"
    /\ permits > 0
    /\ permits' = permits - 1
    /\ pc' = [pc EXCEPT ![r] = "sending"]
    /\ UNCHANGED <<result, expired, flag, reply, commands, taskVars, closing, cause>>

\* Mutant: the channel takes one command too many.
HasRoomLate == Len(commands) <= max_in_flight

\* The capacity of the command channel is max_in_flight as well.
HasRoom == Len(commands) < max_in_flight

Enqueue(r) ==
    /\ pc[r] = "sending"
    /\ task # "ended"
    /\ HasRoom
    /\ commands' = Append(commands, Request(r))
    /\ pc' = [pc EXCEPT ![r] = "waiting"]
    /\ UNCHANGED <<result, expired, flag, reply, permits, taskVars, closing, cause>>

\* closed_error: the cause, or a generic error when none was sent.
ClosedError == IF cause THEN "closed" ELSE "unknown"

\* The channel is gone: the command comes back and its permit is dropped.
EnqueueClosed(r) ==
    /\ pc[r] = "sending"
    /\ task = "ended"
    /\ Return(r, ClosedError)
    /\ permits' = permits + 1
    /\ UNCHANGED <<flag, reply, commands, taskVars, closing, cause>>

\* Timeout, or a dropped caller, before the command is in the channel.
GiveUpEarly(r) ==
    /\ pc[r] \in {"acquiring", "sending"}
    /\ Return(r, IF expired[r] THEN "timeout" ELSE "dropped")
    /\ permits' = IF pc[r] = "sending" THEN permits + 1 ELSE permits
    /\ UNCHANGED <<flag, reply, commands, taskVars, closing, cause>>

\* The reply arrived, or its sender was dropped; the guard is disarmed.
TakeReply(r) ==
    /\ pc[r] = "waiting"
    /\ reply[r] # "none"
    /\ Return(r, IF reply[r] = "lost" THEN ClosedError ELSE reply[r])
    /\ UNCHANGED <<flag, reply, permits, commands, taskVars, closing, cause>>

\* Timeout, or a dropped caller, later: the guard sets the flag first ...
Abandon(r) ==
    /\ pc[r] = "waiting"
    /\ flag' = [flag EXCEPT ![r] = TRUE]
    /\ pc' = [pc EXCEPT ![r] = "cancelling"]
    /\ result' = [result EXCEPT ![r] = IF expired[r] /\ reply[r] = "none"
                                       THEN "timeout" ELSE "dropped"]
    /\ UNCHANGED <<expired, reply, permits, commands, taskVars, closing, cause>>

\* ... and then tries to queue a CancelRequest, which a full channel refuses.
SendCancel(r) ==
    /\ pc[r] = "cancelling"
    /\ commands' = IF HasRoom /\ task # "ended"
                   THEN Append(commands, CancelRequest(r)) ELSE commands
    /\ pc' = [pc EXCEPT ![r] = "done"]
    /\ UNCHANGED <<result, expired, flag, reply, permits, taskVars, closing, cause>>

Close ==
    /\ ~closing
    /\ closing' = TRUE
    /\ UNCHANGED <<callerVars, flag, reply, permits, commands, taskVars, cause>>

-----------------------------------------------------------------------------
(* run_session.                                                            *)

\* Mutants: the permits stay behind; the callers hear nothing.
SettleKeepsPermits(rs, answer) ==
    /\ reply' = [r \in Requests |-> IF r \in rs THEN answer ELSE reply[r]]
    /\ UNCHANGED permits
SettleSilently(rs, answer) ==
    /\ UNCHANGED reply
    /\ permits' = permits + Cardinality(rs)

\* Answer the requests of a set and drop their permits with them.
Settle(rs, answer) ==
    /\ reply' = [r \in Requests |-> IF r \in rs THEN answer ELSE reply[r]]
    /\ permits' = permits + Cardinality(rs)

Move(from, to) == task = from /\ task' = to

\* Mutant: only CancelRequest removes an abandoned request.
NothingPurged == {}

\* Pending requests whose caller has gone.
Purged == {r \in pending : flag[r]}

\* Top of the loop.
Purge ==
    /\ Move("top", "select")
    /\ pending' = pending \ Purged
    /\ Settle(Purged, "lost")
    /\ UNCHANGED <<callerVars, flag, commands, writing, wire, closing, cause>>

\* The deadline arm answers every expired request.
ExpirePending ==
    LET late == {r \in pending : expired[r]} IN
    /\ Move("select", "top")
    /\ late # {}
    /\ pending' = pending \ late
    /\ Settle(late, "timeout")
    /\ UNCHANGED <<callerVars, flag, commands, writing, wire, closing, cause>>

\* The command arm: a request that is not wanted any more.
SkipRequest(r) ==
    /\ Move("select", "top")
    /\ commands # <<>> /\ Head(commands) = Request(r)
    /\ commands' = Tail(commands)
    /\ flag[r] \/ expired[r]
    /\ Settle({r}, IF flag[r] THEN "lost" ELSE "timeout")
    /\ UNCHANGED <<callerVars, flag, writing, pending, wire, closing, cause>>

BeginWrite(r) ==
    /\ Move("select", "writing")
    /\ commands # <<>> /\ Head(commands) = Request(r)
    /\ commands' = Tail(commands)
    /\ ~flag[r] /\ ~expired[r]
    /\ writing' = {r}
    /\ UNCHANGED <<callerVars, flag, reply, permits, pending, wire, closing, cause>>

WriteDone(r) ==
    /\ r \in writing
    /\ Move("writing", "top")
    /\ writing' = {}
    /\ pending' = pending \cup {r}
    /\ wire' = wire \cup {r}
    /\ UNCHANGED <<callerVars, flag, reply, permits, commands, closing, cause>>

\* The dispatch guard refuses the request before it is written.
DispatchRejected(r) ==
    /\ r \in writing
    /\ Move("writing", "top")
    /\ writing' = {}
    /\ Settle({r}, "rejected")
    /\ UNCHANGED <<callerVars, flag, commands, pending, wire, closing, cause>>

\* The write timed out (by the request's own deadline or the write timeout) or
\* failed; part of the frame may have left.  The session ends.
WriteFails(r) ==
    /\ r \in writing
    /\ Move("writing", "draining")
    /\ writing' = {}
    /\ Settle({r}, IF expired[r] THEN "timeout" ELSE "closed")
    /\ UNCHANGED <<callerVars, flag, commands, pending, wire, closing, cause>>

\* The command arm: CancelRequest.
CancelPending(r) ==
    /\ Move("select", "top")
    /\ commands # <<>> /\ Head(commands) = CancelRequest(r)
    /\ commands' = Tail(commands)
    /\ pending' = pending \ {r}
    /\ Settle(pending \cap {r}, "lost")
    /\ UNCHANGED <<callerVars, flag, writing, wire, closing, cause>>

\* The socket arm: a response, to a request that may be known or not any more.
Respond(r) ==
    /\ Move("select", "top")
    /\ r \in wire
    /\ pending' = pending \ {r}
    /\ Settle(pending \cap {r}, "response")
    /\ UNCHANGED <<callerVars, flag, commands, writing, wire, closing, cause>>

\* The socket arm: an event, a ping, a binary frame.
OtherFrame ==
    /\ Move("select", "top")
    /\ UNCHANGED <<callerVars, flag, reply, permits, commands, writing, pending, wire,
                   closing, cause>>

\* The socket fails, ends or sends a frame that does not parse.
SocketFails ==
    /\ Move("select", "draining")
    /\ UNCHANGED <<callerVars, flag, reply, permits, commands, writing, pending, wire,
                   closing, cause>>

SeeClose ==
    /\ Move("select", "draining")
    /\ closing
    /\ UNCHANGED <<callerVars, flag, reply, permits, commands, writing, pending, wire,
                   closing, cause>>

\* Mutant: expired requests are left to the deadline arm, which runs no more.
DrainedInTime == {r \in pending : ~expired[r]}

\* pending.drain()
Drained == pending

\* After the loop: every pending request fails with the cause ...
DrainPending ==
    /\ Move("draining", "drained")
    /\ pending' = pending \ Drained
    /\ Settle(Drained, "closed")
    /\ UNCHANGED <<callerVars, flag, commands, writing, wire, closing, cause>>

\* ... the cause is published ...
PublishCause ==
    /\ Move("drained", "closed")
    /\ cause' = TRUE
    /\ UNCHANGED <<callerVars, flag, reply, permits, commands, writing, pending, wire, closing>>

\* Mutant: the receiver goes away before the cause is published.
DropsEarly == Move("drained", "ended")

DropsLast == Move("closed", "ended")

\* ... and the receiver is dropped with the requests still in it.
DropCommands ==
    /\ DropsLast
    /\ commands' = <<>>
    /\ Settle(Queued, "lost")
    /\ UNCHANGED <<callerVars, flag, writing, pending, wire, closing, cause>>

-----------------------------------------------------------------------------
Caller(r) ==
    \/ Acquire(r) \/ Enqueue(r) \/ EnqueueClosed(r) \/ GiveUpEarly(r)
    \/ TakeReply(r) \/ Abandon(r) \/ SendCancel(r)

Command(r) == SkipRequest(r) \/ BeginWrite(r) \/ CancelPending(r)
Write(r) == WriteDone(r) \/ DispatchRejected(r) \/ WriteFails(r)
Finish == DrainPending \/ PublishCause \/ DropCommands

Next ==
    \/ \E r \in Requests :
          DeadlinePasses(r) \/ Caller(r) \/ Command(r) \/ Write(r) \/ Respond(r)
    \/ Close \/ Purge \/ ExpirePending
    \/ OtherFrame \/ SocketFails \/ SeeClose \/ Finish

Spec == Init /\ [][Next]_vars

(* Deadlines pass; a caller acts on a reply or on its deadline; a write is *)
(* bounded by the write timeout; the select arms that are ready are served *)
(* in random order, so each is chosen infinitely often if it stays ready.  *)
Fairness ==
    /\ \A r \in Requests :
          /\ WF_vars(DeadlinePasses(r))
          /\ WF_vars(EnqueueClosed(r))
          /\ WF_vars(expired[r] /\ (GiveUpEarly(r) \/ Abandon(r)))
          /\ WF_vars(TakeReply(r))
          /\ WF_vars(SendCancel(r))
          /\ SF_vars(Command(r))
          /\ WF_vars(Write(r))
    /\ WF_vars(Purge)
    /\ SF_vars(SeeClose)
    /\ WF_vars(Finish)

FairSpec == Spec /\ Fairness

-----------------------------------------------------------------------------
(* Properties.                                                             *)

\* Type invariant; the channel stays within its capacity.
TypeOK ==
    /\ pc \in [Requests -> {"acquiring", "sending", "waiting", "cancelling", "done"}]
    /\ result \in [Requests -> {"none", "response", "rejected", "timeout", "dropped",
                                "closed", "unknown"}]
    /\ expired \in [Requests -> BOOLEAN]
    /\ flag \in [Requests -> BOOLEAN]
    /\ reply \in [Requests -> {"none", "response", "rejected", "timeout", "closed", "lost"}]
    /\ permits \in Nat
    /\ commands \in Seq([kind : {"request", "cancel"}, r : Requests])
    /\ task \in {"top", "select", "writing", "draining", "drained", "closed", "ended"}
    /\ writing \subseteq Requests
    /\ pending \subseteq Requests
    /\ wire \subseteq Requests
    /\ closing \in BOOLEAN
    /\ cause \in BOOLEAN

\* A request carries its permit through channel, write and pending table: what
\* is queued or pending never exceeds max_in_flight, even for callers that are
\* gone, no permit is lost, and the command channel, which also carries
\* cancellations, stays within its capacity.
InFlightBounded ==
    /\ permits + Cardinality({r \in Requests : pc[r] = "sending"})
               + Cardinality(Queued) + Cardinality(writing) + Cardinality(pending)
        = max_in_flight
    /\ Len(commands) <= max_in_flight

\* A caller that loses its request to the end of the session is told why.
CauseIsKnown == \A r \in Requests : result[r] # "unknown"

\* A caller still waiting has not been forgotten: its request is queued, being
\* written or pending, or its reply is there.
NoCallerForgotten ==
    \A r \in Requests :
        pc[r] = "waiting" =>
            r \in Queued \cup writing \cup pending \/ reply[r] # "none"

\* Every request comes back, and an abandoned one gives up its permit although
\* its CancelRequest may not have fitted into the channel.
RequestsResolve ==
    \A r \in Requests :
        /\ <>(pc[r] = "done")
        /\ flag[r] ~> (r \notin Queued \cup writing \cup pending)

\* close() ends the session task, whatever it is doing, and nothing keeps a
\* permit after that.
CloseCompletes == closing ~> (task = "ended" /\ permits = max_in_flight)
=============================================================================
