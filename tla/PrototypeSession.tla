-------------------------- MODULE PrototypeSession --------------------------
(***************************************************************************)
(* The session of the root openclaw-node crate (src/client.rs): the         *)
(* NodeSession handles, whose requests wait for a permit, for room in the   *)
(* command queue and for a reply, and run_session, which owns the socket,   *)
(* the table of pending replies and the senders of two broadcast channels.  *)
(*                                                                          *)
(* Unlike the gateway client's session, a permit belongs to the caller, a   *)
(* write has no deadline, and the cancellation of a timed-out request has a *)
(* channel of its own and may overtake its request.                         *)
(***************************************************************************)
EXTENDS Naturals, Sequences, FiniteSets

CONSTANTS
    Callers,      \* tasks that use the session
    MaxInFlight,  \* config.max_in_flight
    MaxRequests   \* bound: requests of all callers together

VARIABLES
    caller,    \* caller[c]: where c's request or close is
    id,        \* id[c]: the id of c's request, 0 for none
    outcome,   \* outcome[c]: how c's request ended, none while it has not
    begun,     \* requests begun so far
    next_id,   \* next_request_id
    permits,   \* free permits of in_flight
    queue,     \* the command channel; 0 stands for SessionCommand::Close
    cancels,   \* the cancellation channel
    pending,   \* run_session's table of replies
    replied,   \* ids whose reply was sent
    task,      \* run_session: loop, writing, pong, closing, breaking, closed or dropped
    writing,   \* the id being written
    event,     \* next_event: idle or waiting
    invocation,\* next_invocation: idle or waiting
    arrived    \* what the two broadcast channels hold for their readers

callerVars == <<caller, id, outcome, begun, next_id, permits>>
readerVars == <<event, invocation, arrived>>
taskVars == <<queue, cancels, pending, replied, task, writing>>
vars == <<callerVars, taskVars, readerVars>>

Close == 0
Kinds == {"event", "invocation"}

Init ==
    /\ caller = [c \in Callers |-> "idle"]
    /\ id = [c \in Callers |-> 0]
    /\ outcome = [c \in Callers |-> "none"]
    /\ begun = 0
    /\ next_id = 1
    /\ permits = MaxInFlight
    /\ queue = <<>>
    /\ cancels = {}
    /\ pending = {}
    /\ replied = {}
    /\ task = "loop"
    /\ writing = 0
    /\ event = "idle"
    /\ invocation = "idle"
    /\ arrived = [k \in Kinds |-> FALSE]

\* closed_rx holds the cause once run_session has published it.
CauseKnown == task \in {"closed", "dropped"}

\* Mutant: the command channel is dropped before the cause is published.
DroppedEarly == task \in {"breaking", "closed", "dropped"}

\* run_session has returned: the command queue is gone with its replies, and so
\* are run_session's broadcast senders.
ChannelsDropped == task = "dropped"

-----------------------------------------------------------------------------
(* NodeSession::request and close.                                         *)

Begin(c) ==
    /\ caller[c] = "idle"
    /\ begun < MaxRequests
    /\ begun' = begun + 1
    /\ caller' = [caller EXCEPT ![c] = "acquiring"]
    /\ outcome' = [outcome EXCEPT ![c] = "none"]
    /\ UNCHANGED <<id, next_id, permits, taskVars, readerVars>>

\* acquire_owned, then the next id
Acquire(c) ==
    /\ caller[c] = "acquiring"
    /\ permits > 0
    /\ permits' = permits - 1
    /\ id' = [id EXCEPT ![c] = next_id]
    /\ next_id' = next_id + 1
    /\ caller' = [caller EXCEPT ![c] = "sending"]
    /\ UNCHANGED <<outcome, begun, taskVars, readerVars>>

\* Mutant: a request gives its permit back only when it was answered.
KeepsPermit(c, how) ==
    /\ caller' = [caller EXCEPT ![c] = "idle"]
    /\ outcome' = [outcome EXCEPT ![c] = how]
    /\ id' = [id EXCEPT ![c] = 0]
    /\ permits' = IF how = "reply" THEN permits + 1 ELSE permits
    /\ UNCHANGED <<begun, next_id>>

\* The request is over: its permit is dropped.
Return(c, how) ==
    /\ caller' = [caller EXCEPT ![c] = "idle"]
    /\ outcome' = [outcome EXCEPT ![c] = how]
    /\ id' = [id EXCEPT ![c] = 0]
    /\ permits' = permits + 1
    /\ UNCHANGED <<begun, next_id>>

HasRoom == ~ChannelsDropped /\ Len(queue) < MaxInFlight

Enqueue(c) ==
    /\ caller[c] = "sending"
    /\ HasRoom
    /\ queue' = Append(queue, id[c])
    /\ caller' = [caller EXCEPT ![c] = "waiting"]
    /\ UNCHANGED <<id, outcome, begun, next_id, permits, cancels, pending, replied, task, writing,
                   readerVars>>

\* The closed error carries the cause if it has been published.
ClosedError == IF CauseKnown THEN "closed" ELSE "session task ended"

EnqueueFails(c) ==
    /\ caller[c] = "sending"
    /\ ChannelsDropped
    /\ Return(c, ClosedError)
    /\ UNCHANGED <<taskVars, readerVars>>

TakeReply(c) ==
    /\ caller[c] = "waiting"
    /\ id[c] \in replied
    /\ Return(c, "reply")
    /\ UNCHANGED <<taskVars, readerVars>>

\* The reply's sender was dropped with the queue.
ReplyDropped(c) ==
    /\ caller[c] = "waiting"
    /\ id[c] \notin replied
    /\ ChannelsDropped
    /\ Return(c, ClosedError)
    /\ UNCHANGED <<taskVars, readerVars>>

\* Mutant: the timer starts when the request has been written.
OnceWritten(c) == id[c] \in pending

\* tokio::time::timeout(self.request_timeout, reply_rx)
TimerRuns(c) == id[c] \notin replied

TimesOut(c) ==
    /\ caller[c] = "waiting"
    /\ TimerRuns(c)
    /\ cancels' = IF ChannelsDropped THEN cancels ELSE cancels \cup {id[c]}
    /\ Return(c, "timeout")
    /\ UNCHANGED <<queue, pending, replied, task, writing, readerVars>>

\* close waits for room in the queue like a request, without a permit.
BeginClose(c) ==
    /\ caller[c] = "idle"
    /\ ~ChannelsDropped
    /\ caller' = [caller EXCEPT ![c] = "closing"]
    /\ UNCHANGED <<id, outcome, begun, next_id, permits, taskVars, readerVars>>

EnqueueClose(c) ==
    /\ caller[c] = "closing"
    /\ HasRoom \/ ChannelsDropped
    /\ queue' = IF ChannelsDropped THEN queue ELSE Append(queue, Close)
    /\ caller' = [caller EXCEPT ![c] = "idle"]
    /\ UNCHANGED <<id, outcome, begun, next_id, permits, cancels, pending, replied, task, writing,
                   readerVars>>

\* Mutant: the permit of a dropped request is lost.
PermitLost(c) == permits

\* The permit of a dropped request, if it had one, is dropped with it.
PermitFreed(c) == IF caller[c] \in {"sending", "waiting"} THEN permits + 1 ELSE permits

\* The future of c's request or close is dropped at an await, as abort_all does with
\* that of a handler task.  Its command stays in the queue and its reply in the
\* table: nobody is asked to cancel it.
RequestDropped(c) ==
    /\ caller[c] # "idle"
    /\ caller' = [caller EXCEPT ![c] = "idle"]
    /\ outcome' = [outcome EXCEPT ![c] = "none"]
    /\ id' = [id EXCEPT ![c] = 0]
    /\ permits' = PermitFreed(c)
    /\ UNCHANGED <<begun, next_id, taskVars, readerVars>>

-----------------------------------------------------------------------------
(* run_session.                                                            *)

TakeCancel ==
    /\ task = "loop"
    /\ \E i \in cancels :
          /\ cancels' = cancels \ {i}
          /\ pending' = pending \ {i}
    /\ UNCHANGED <<callerVars, queue, replied, task, writing, readerVars>>

TakeRequest ==
    /\ task = "loop"
    /\ queue # <<>>
    /\ Head(queue) # Close
    /\ queue' = Tail(queue)
    /\ writing' = Head(queue)
    /\ task' = "writing"
    /\ UNCHANGED <<callerVars, cancels, pending, replied, readerVars>>

\* The write ends: the request is pending, or its caller is told.  A failed write
\* does not end the session.
WriteEnds ==
    /\ task = "writing"
    /\ task' = "loop"
    /\ writing' = 0
    /\ \/ pending' = pending \cup {writing} /\ UNCHANGED replied
       \/ replied' = replied \cup {writing} /\ UNCHANGED pending
    /\ UNCHANGED <<callerVars, queue, cancels, readerVars>>

TakeClose ==
    /\ task = "loop"
    /\ queue # <<>>
    /\ Head(queue) = Close
    /\ queue' = Tail(queue)
    /\ task' = "closing"
    /\ UNCHANGED <<callerVars, cancels, pending, replied, writing, readerVars>>

Respond ==
    /\ task = "loop"
    /\ \E i \in pending :
          /\ pending' = pending \ {i}
          /\ replied' = replied \cup {i}
    /\ UNCHANGED <<callerVars, queue, cancels, task, writing, readerVars>>

\* An event goes to the event channel; an invocation to both.
Publish(k) ==
    /\ task = "loop"
    /\ arrived' = IF k = "invocation" THEN [j \in Kinds |-> TRUE] ELSE [arrived EXCEPT ![k] = TRUE]
    /\ UNCHANGED <<callerVars, taskVars, event, invocation>>

\* A ping is answered before anything else happens, however long the write takes.
TakePing ==
    /\ task = "loop"
    /\ task' = "pong"
    /\ UNCHANGED <<callerVars, queue, cancels, pending, replied, writing, readerVars>>

PongEnds ==
    /\ task = "pong"
    /\ task' \in {"loop", "breaking"}
    /\ UNCHANGED <<callerVars, queue, cancels, pending, replied, writing, readerVars>>

\* The stream ends or a frame is invalid; or the socket was closed on request.
Break ==
    /\ task \in {"loop", "closing"}
    /\ task' = "breaking"
    /\ UNCHANGED <<callerVars, queue, cancels, pending, replied, writing, readerVars>>

\* Every pending request is failed, then the cause is published.
FailPending ==
    /\ task = "breaking"
    /\ replied' = replied \cup pending
    /\ pending' = {}
    /\ task' = "closed"
    /\ UNCHANGED <<callerVars, queue, cancels, writing, readerVars>>

DropChannels ==
    /\ task = "closed"
    /\ task' = "dropped"
    /\ queue' = <<>>
    /\ cancels' = {}
    /\ UNCHANGED <<callerVars, pending, replied, writing, readerVars>>

-----------------------------------------------------------------------------
(* The two readers.                                                        *)

\* Every sender of the event channel is dropped: never, since each NodeSession
\* keeps one, which is what subscribe() needs.
EventsClosed == FALSE

\* Mutant: the session keeps a sender of the invocation channel too.
StaysOpen == FALSE

\* run_session owns the only sender of the invocation channel.
InvocationsClosed == ChannelsDropped

CallNextEvent ==
    /\ event = "idle"
    /\ event' = "waiting"
    /\ UNCHANGED <<callerVars, taskVars, invocation, arrived>>

\* An event, a lag, or the closed-session error.
NextEventReturns ==
    /\ event = "waiting"
    /\ arrived["event"] \/ EventsClosed
    /\ event' = "idle"
    /\ arrived' = [arrived EXCEPT !["event"] = FALSE]
    /\ UNCHANGED <<callerVars, taskVars, invocation>>

CallNextInvocation ==
    /\ invocation = "idle"
    /\ invocation' = "waiting"
    /\ UNCHANGED <<callerVars, taskVars, event, arrived>>

NextInvocationReturns ==
    /\ invocation = "waiting"
    /\ arrived["invocation"] \/ InvocationsClosed
    /\ invocation' = "idle"
    /\ arrived' = [arrived EXCEPT !["invocation"] = FALSE]
    /\ UNCHANGED <<callerVars, taskVars, event>>

-----------------------------------------------------------------------------
CallerStep(c) ==
    Acquire(c) \/ Enqueue(c) \/ EnqueueFails(c) \/ TakeReply(c) \/ ReplyDropped(c)
        \/ TimesOut(c) \/ EnqueueClose(c)

\* The task is back at its select and takes what a caller left for it.
TakeFromCallers == TakeCancel \/ TakeRequest \/ TakeClose

Next ==
    \/ \E c \in Callers : Begin(c)
    \/ \E c \in Callers : CallerStep(c)
    \/ \E c \in Callers : BeginClose(c)
    \/ \E c \in Callers : RequestDropped(c)
    \/ TakeCancel \/ TakeRequest \/ WriteEnds \/ TakeClose \/ Respond
    \/ \E k \in Kinds : Publish(k)
    \/ TakePing \/ PongEnds \/ Break \/ FailPending \/ DropChannels
    \/ CallNextEvent \/ NextEventReturns \/ CallNextInvocation \/ NextInvocationReturns

Spec == Init /\ [][Next]_vars

-----------------------------------------------------------------------------
(* Properties.                                                             *)

\* Type invariant: permits are conserved, whichever way a request ends.
TypeOK ==
    /\ permits = MaxInFlight - Cardinality({c \in Callers : caller[c] \in {"sending", "waiting"}})
    /\ permits \in 0 .. MaxInFlight
    /\ queue \in Seq(0 .. MaxRequests) /\ Len(queue) <= MaxInFlight
    /\ pending \cup replied \cup cancels \subseteq 1 .. MaxRequests
    /\ pending \cap replied = {}
    /\ task \in {"loop", "writing", "pong", "closing", "breaking", "closed", "dropped"}

\* "fails pending work on disconnect": a caller that is told of the end of the
\* session is told why; nobody falls between the two ways of being told.
ClosedMeansCauseKnown == \A c \in Callers : outcome[c] # "session task ended"

\* What the end of a request and of a reader is about.
Waits(c) == caller[c] = "waiting"
ReaderLeft == ChannelsDropped /\ invocation = "waiting"

-----------------------------------------------------------------------------
(* The inductive invariant.                                                *)

CallersTyped ==
    /\ caller \in [Callers -> {"idle", "acquiring", "sending", "waiting", "closing"}]
    /\ id \in [Callers -> Nat]
    /\ outcome \in [Callers -> {"none", "reply", "timeout", "closed"}]
    /\ permits \in Nat

\* An id is given to a request that was begun, and to one only; one that is dropped
\* before it has a permit has none.
IdsCounted ==
    /\ begun \in 0 .. MaxRequests
    /\ next_id \in Nat \ {0}
    /\ next_id + Cardinality({c \in Callers : caller[c] = "acquiring"}) <= begun + 1

Given == 1 .. next_id - 1

IdsKnown ==
    /\ \A c \in Callers : caller[c] = "sending" \/ caller[c] = "waiting" => id[c] \in Given
    /\ queue \in Seq(Given \cup {Close})
    /\ pending \subseteq Given /\ replied \subseteq Given /\ cancels \subseteq Given
    /\ task = "writing" => writing \in Given

\* A request is at one place on its way: its sender, the queue, the write, the table
\* or its reply.
OnePlace ==
    /\ \A c, d \in Callers : caller[c] = "sending" /\ caller[d] = "sending" /\ id[c] = id[d] => c = d
    /\ \A c \in Callers : caller[c] = "sending" =>
          /\ \A k \in 1 .. Len(queue) : queue[k] # id[c]
          /\ task = "writing" => writing # id[c]
          /\ id[c] \notin pending /\ id[c] \notin replied
    /\ \A j, k \in 1 .. Len(queue) : queue[j] = queue[k] /\ queue[j] # Close => j = k
    /\ \A k \in 1 .. Len(queue) :
          /\ task = "writing" => writing # queue[k]
          /\ queue[k] \notin pending /\ queue[k] \notin replied
    /\ task = "writing" => writing \notin pending /\ writing \notin replied
    /\ pending \cap replied = {}

SessionInv ==
    /\ CallersTyped /\ IdsCounted /\ IdsKnown /\ OnePlace
    /\ permits + Cardinality({c \in Callers : caller[c] \in {"sending", "waiting"}}) = MaxInFlight
    /\ Len(queue) <= MaxInFlight
    /\ task \in {"loop", "writing", "pong", "closing", "breaking", "closed", "dropped"}
=============================================================================
