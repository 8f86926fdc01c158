---------------------------- MODULE DuplexInput -----------------------------
(***************************************************************************)
(* The input side of one duplex invocation: InputBuffer and its receivers  *)
(* (crates/openclaw-node-host/src/duplex.rs), the routing of input and     *)
(* cancel events and the select of execute_handler (runtime.rs).           *)
(*                                                                         *)
(* The router (the run loop) and the handler task are on different         *)
(* threads of the tokio runtime, so their steps interleave; a step is what *)
(* happens under one lock or at one token.  InvocationIo can be cloned:    *)
(* Main is the receiver the handler itself polls, the others belong to     *)
(* tasks it spawned.  A payload is abstracted to its sequence number and   *)
(* its length.                                                             *)
(***************************************************************************)
EXTENDS Naturals, Sequences, FiniteSets

CONSTANTS
    MaximumBytes,   \* DEFAULT_PENDING_INPUT_BYTES
    Sizes,          \* payload lengths
    Seqs,           \* the sequence numbers the Gateway may use
    SeqMax,         \* u64::MAX, where saturating_add stops
    Receivers,
    Main,
    MaxPushes       \* bound: input frames accepted

ASSUME SizesAssumption == MaximumBytes \in Nat /\ Sizes \subseteq Nat
ASSUME SeqsAssumption == SeqMax \in Nat /\ Seqs \subseteq 0 .. SeqMax
ASSUME MainAssumption == Main \in Receivers
ASSUME MaxPushesAssumption == MaxPushes \in Nat

VARIABLES
    next_seq,        \* InputState.next_seq
    queue,           \* InputState.queue
    buffered_bytes,  \* InputState.buffered_bytes
    closed,          \* InputState.closed
    permit,          \* Notify: a stored notify_one
    rpc,             \* rpc[r]: where receiver r is in recv
    woken,           \* woken[r]: its Notified future has fired
    router,          \* the run loop, inside route_invocation_control
    input_overflow,  \* the overflow token
    cancelled,       \* the invocation's CancellationToken
    handler,         \* the handler future: polled, pending or finished
    outcome,         \* what execute_handler returned
    pushes,          \* history: number of frames accepted
    taken,           \* history: sequence numbers handed to receivers, in order
    overran,         \* history: the buffer was closed by an overflow
    truncated        \* history: Main was told end-of-input because of that

bufferVars == <<next_seq, queue, buffered_bytes, closed, pushes, overran>>
notifyVars == <<permit, rpc, woken>>
handlerVars == <<handler, outcome, truncated>>
vars == <<bufferVars, notifyVars, router, input_overflow, cancelled, handlerVars, taken>>

Init ==
    /\ next_seq = 0
    /\ queue = <<>>
    /\ buffered_bytes = 0
    /\ closed = FALSE
    /\ permit = FALSE
    /\ rpc = [r \in Receivers |-> "idle"]
    /\ woken = [r \in Receivers |-> FALSE]
    /\ router = "idle"
    /\ input_overflow = FALSE
    /\ cancelled = FALSE
    /\ handler = "pending"
    /\ outcome = "none"
    /\ pushes = 0
    /\ taken = <<>>
    /\ overran = FALSE
    /\ truncated = FALSE

-----------------------------------------------------------------------------
(* tokio::sync::Notify.                                                    *)

Parked == {r \in Receivers : rpc[r] = "parked" /\ ~woken[r]}

\* Wake one registered waiter, or store one permit for the next.
NotifyOne ==
    \/ /\ Parked = {}
       /\ permit' = TRUE
       /\ UNCHANGED woken
    \/ \E r \in Parked :
          /\ woken' = [woken EXCEPT ![r] = TRUE]
          /\ UNCHANGED permit

\* Wake every future that exists, registered or not; store nothing.
NotifyWaiters ==
    /\ woken' = [r \in Receivers |-> woken[r] \/ rpc[r] # "idle"]
    /\ UNCHANGED permit

-----------------------------------------------------------------------------
(* The router.  An input event the buffer ignores (closed, or a sequence   *)
(* number already passed) changes nothing and is a stuttering step.        *)

\* Mutant: only the frame received last counts as a duplicate.
AcceptsAllButLast(seq) == seq + 1 # next_seq

\* push takes gaps, but never a number below next_seq.
Accepts(seq) == seq >= next_seq

\* seq.saturating_add(1)
NextSeq(seq) == IF seq < SeqMax THEN seq + 1 ELSE SeqMax

\* Mutant: the frame that fills the buffer may exceed it.
FitsLate(len) == buffered_bytes < MaximumBytes

\* checked_add never fails below u64::MAX bytes; the limit is what counts.
Fits(len) == buffered_bytes + len <= MaximumBytes

PushAccepted(seq, len) ==
    /\ router = "idle"
    /\ outcome = "none"
    /\ pushes < MaxPushes
    /\ ~closed
    /\ Accepts(seq)
    /\ Fits(len)
    /\ next_seq' = NextSeq(seq)
    /\ buffered_bytes' = buffered_bytes + len
    /\ queue' = Append(queue, [seq |-> seq, len |-> len])
    /\ NotifyOne
    /\ pushes' = pushes + 1
    /\ UNCHANGED <<closed, overran, rpc, router, input_overflow, cancelled, handlerVars, taken>>

\* Mutant: a close wakes nobody.
CloseQuietly ==
    /\ closed' = TRUE
    /\ queue' = <<>>
    /\ buffered_bytes' = 0
    /\ UNCHANGED <<permit, woken>>

\* close_locked: drop what is queued and wake everyone.
CloseLocked ==
    /\ closed' = TRUE
    /\ queue' = <<>>
    /\ buffered_bytes' = 0
    /\ NotifyWaiters

\* push closes the buffer under its lock; the flag is set afterwards.
PushOverflow(seq, len) ==
    /\ router = "idle"
    /\ outcome = "none"
    /\ ~closed
    /\ Accepts(seq)
    /\ ~Fits(len)
    /\ next_seq' = NextSeq(seq)
    /\ CloseLocked
    /\ overran' = TRUE
    /\ router' = "overflow"
    /\ UNCHANGED <<pushes, rpc, input_overflow, cancelled, handlerVars, taken>>

\* ActiveInvocations::input, after push returned Overflow.
FlagOverflow ==
    /\ router = "overflow"
    /\ input_overflow' = TRUE
    /\ router' = "cancel"
    /\ UNCHANGED <<bufferVars, notifyVars, cancelled, handlerVars, taken>>

\* active.cancel(id): after an overflow, or for node.invoke.cancel.
RouteCancel ==
    /\ router = "cancel" \/ (router = "idle" /\ outcome = "none" /\ ~cancelled)
    /\ router' = "idle"
    /\ cancelled' = TRUE
    /\ CloseLocked
    /\ UNCHANGED <<next_seq, pushes, overran, rpc, input_overflow, handlerVars, taken>>

-----------------------------------------------------------------------------
(* recv.                                                                   *)

\* Main makes progress only while the handler future is being polled.
Runs(r) == IF r = Main THEN handler = "polled" ELSE outcome = "none"

\* Top of the loop: create the Notified future.
Arm(r) ==
    /\ Runs(r)
    /\ rpc[r] = "idle" \/ (rpc[r] = "parked" /\ woken[r])
    /\ rpc' = [rpc EXCEPT ![r] = "armed"]
    /\ woken' = [woken EXCEPT ![r] = FALSE]
    /\ UNCHANGED <<bufferVars, permit, router, input_overflow, cancelled, handlerVars, taken>>

\* A payload is queued: return it.
Take(r) ==
    /\ Runs(r)
    /\ rpc[r] = "armed"
    /\ queue # <<>>
    /\ taken' = Append(taken, Head(queue).seq)
    /\ buffered_bytes' = buffered_bytes - Head(queue).len
    /\ queue' = Tail(queue)
    /\ rpc' = [rpc EXCEPT ![r] = "idle"]
    /\ UNCHANGED <<next_seq, closed, pushes, overran, permit, woken, router,
                   input_overflow, cancelled, handlerVars>>

\* Closed and drained: return None.
SeeEnd(r) ==
    /\ Runs(r)
    /\ rpc[r] = "armed"
    /\ queue = <<>>
    /\ closed
    /\ rpc' = [rpc EXCEPT ![r] = "idle"]
    /\ truncated' = (truncated \/ (r = Main /\ overran))
    /\ UNCHANGED <<bufferVars, permit, woken, router, input_overflow, cancelled,
                   handler, outcome, taken>>

\* Open and empty: go and await the future.
SeeEmpty(r) ==
    /\ Runs(r)
    /\ rpc[r] = "armed"
    /\ queue = <<>>
    /\ ~closed
    /\ rpc' = [rpc EXCEPT ![r] = "checked"]
    /\ UNCHANGED <<bufferVars, permit, woken, router, input_overflow, cancelled,
                   handlerVars, taken>>

\* The first poll of the future finds that it fired, or takes the stored permit.
ReadyAtOnce(r) == woken[r] \/ permit

Await(r) ==
    /\ Runs(r)
    /\ rpc[r] = "checked"
    /\ IF ReadyAtOnce(r)
       THEN /\ permit' = (permit /\ woken[r])
            /\ rpc' = [rpc EXCEPT ![r] = "armed"]
            /\ woken' = [woken EXCEPT ![r] = FALSE]
            /\ UNCHANGED handler
       ELSE /\ rpc' = [rpc EXCEPT ![r] = "parked"]
            /\ handler' = IF r = Main THEN "pending" ELSE handler
            /\ UNCHANGED <<permit, woken>>
    /\ UNCHANGED <<bufferVars, router, input_overflow, cancelled, outcome, truncated, taken>>

Recv(r) == Arm(r) \/ Take(r) \/ SeeEnd(r) \/ SeeEmpty(r) \/ Await(r)

-----------------------------------------------------------------------------
(* execute_handler for a duplex command.                                   *)

Wakeable == rpc[Main] = "parked" => woken[Main] \/ input_overflow

\* The select is biased: the overflow token is looked at before the handler.
PollOverflow ==
    /\ handler = "pending"
    /\ input_overflow
    /\ handler' = "finished"
    /\ outcome' = "overflow"
    /\ cancelled' = TRUE
    /\ UNCHANGED <<bufferVars, notifyVars, router, input_overflow, truncated, taken>>

PollHandler ==
    /\ handler = "pending"
    /\ ~input_overflow
    /\ Wakeable
    /\ handler' = "polled"
    /\ UNCHANGED <<bufferVars, notifyVars, router, input_overflow, cancelled,
                   outcome, truncated, taken>>

\* The handler waits for something other than input.
HandlerPends ==
    /\ handler = "polled"
    /\ rpc[Main] = "idle"
    /\ handler' = "pending"
    /\ UNCHANGED <<bufferVars, notifyVars, router, input_overflow, cancelled,
                   outcome, truncated, taken>>

\* The handler future is ready.
HandlerReturns ==
    /\ handler = "polled"
    /\ rpc[Main] = "idle"
    /\ handler' = "finished"
    /\ outcome' = "returned"
    /\ UNCHANGED <<bufferVars, notifyVars, router, input_overflow, cancelled, truncated, taken>>

\* The deadline passes (looked at after the overflow token).
HandlerTimeout ==
    /\ handler = "pending"
    /\ ~input_overflow
    /\ handler' = "finished"
    /\ outcome' = "timeout"
    /\ cancelled' = TRUE
    /\ UNCHANGED <<bufferVars, notifyVars, router, input_overflow, truncated, taken>>

Next ==
    \/ \E seq \in Seqs, len \in Sizes : PushAccepted(seq, len) \/ PushOverflow(seq, len)
    \/ FlagOverflow \/ RouteCancel
    \/ \E r \in Receivers : Recv(r)
    \/ PollOverflow \/ PollHandler \/ HandlerPends \/ HandlerReturns \/ HandlerTimeout

Spec == Init /\ [][Next]_vars

\* tokio polls a task whose waker has fired, and the router does not stop
\* half-way through an event.
FairSpec ==
    /\ Spec
    /\ WF_vars(FlagOverflow)
    /\ WF_vars(router = "cancel" /\ RouteCancel)
    /\ WF_vars(PollOverflow)
    /\ WF_vars(rpc[Main] # "idle" /\ PollHandler)
    /\ \A r \in Receivers : WF_vars(rpc[r] # "idle" /\ Recv(r))

-----------------------------------------------------------------------------
(* Properties.                                                             *)

\* Type invariant.
TypeOK ==
    /\ next_seq \in 0 .. SeqMax
    /\ queue \in Seq([seq : Seqs, len : Sizes])
    /\ buffered_bytes \in Nat
    /\ closed \in BOOLEAN
    /\ permit \in BOOLEAN
    /\ rpc \in [Receivers -> {"idle", "armed", "checked", "parked"}]
    /\ woken \in [Receivers -> BOOLEAN]
    /\ router \in {"idle", "overflow", "cancel"}
    /\ input_overflow \in BOOLEAN
    /\ cancelled \in BOOLEAN
    /\ handler \in {"pending", "polled", "finished"}
    /\ outcome \in {"none", "returned", "overflow", "timeout"}
    /\ pushes \in 0 .. MaxPushes
    /\ taken \in Seq(Seqs)
    /\ overran \in BOOLEAN
    /\ truncated \in BOOLEAN

\* The bytes waiting for the handler never exceed the limit, and a closed
\* buffer holds none.
InputBounded ==
    /\ buffered_bytes <= MaximumBytes
    /\ closed => queue = <<>> /\ buffered_bytes = 0
    /\ queue = <<>> => buffered_bytes = 0

\* Whatever the Gateway repeats or reorders, payloads are handed out in the
\* order of their sequence numbers and none twice, over all receivers; only at
\* u64::MAX, where next_seq saturates, can a number repeat.
InputInOrder ==
    \A i, j \in 1 .. Len(taken) :
        i < j => taken[i] < taken[j] \/ taken[i] = SeqMax

\* No wake-up is lost: a receiver does not wait for ever beside a payload that
\* is queued, nor in a closed buffer, while the invocation goes on.
ReceiverIsWoken ==
    \A r \in Receivers :
        []<>~ (rpc[r] = "parked" /\ (queue # <<>> \/ closed) /\ outcome = "none")

\* An input overflow forces a failure: a handler whose input was cut short by
\* an overflow does not get its own result reported.
OverflowForcesFailure == outcome = "returned" => ~truncated
=============================================================================
