------------------------- MODULE InvocationProgress -------------------------
(***************************************************************************)
(* The output side of one duplex invocation: InvocationProgress            *)
(* (crates/openclaw-node-host/src/duplex.rs), shared by the handler, the   *)
(* heartbeat task that InvocationDuplex::start spawns (runtime.rs) and a   *)
(* clone of the InvocationIo that the handler gave to a task of its own,   *)
(* up to the terminal node.invoke.result and beyond it: nobody joins such  *)
(* a task.                                                                 *)
(*                                                                         *)
(* A send checks the invocation, waits for an async mutex, checks again,   *)
(* hands a numbered frame to the session and waits for its reply; it can   *)
(* fail before the frame is handed over (no request slot in time) or after *)
(* (no reply in time, or a Gateway error).  What a frame says is left out. *)
(***************************************************************************)
EXTENDS Naturals, Sequences

CONSTANT MaxFrames   \* bound: progress frames of one invocation

VARIABLES
    spc,        \* spc[s]: where sender s is
    mutex,      \* who holds ProgressInner.state
    seq,        \* ProgressState.seq
    stopped,    \* ProgressInner.stopped
    cancelled,  \* the invocation's CancellationToken
    phase,      \* the task that evaluates the invocation
    wire        \* what the session handed to the Gateway, in order

vars == <<spc, mutex, seq, stopped, cancelled, phase, wire>>

Senders == {"handler", "heartbeat", "clone"}
Result == [kind |-> "result", by |-> "handler", seq |-> 0]
Frame(s, n) == [kind |-> "progress", by |-> s, seq |-> n]

(* calling: the heartbeat runs and the registered handler is being called;     *)
(* handler: its future is polled;  stopping: it is over;  panicked: the call   *)
(* panicked;  dropped: the whole task was;  done, over: the result is handed   *)
(* over, after a handler and after a panic.                                    *)
Phases == {"calling", "handler", "stopping", "panicked", "dropped", "done", "over"}

Init ==
    /\ spc = [s \in Senders |-> "idle"]
    /\ mutex = "free"
    /\ seq = 0
    /\ stopped = FALSE
    /\ cancelled = FALSE
    /\ phase = "calling"
    /\ wire = <<>>

Inactive == stopped \/ cancelled

\* The handler sends while its future is alive, the heartbeat while its task is;
\* a clone outlives them all.
Alive(s) == s = "handler" => phase = "handler"

\* A failed heartbeat cancels the invocation and ends its task.
After(s) == IF s = "heartbeat" THEN "gone" ELSE "idle"

\* The mutex guard is dropped with the send.
Released(s) == IF mutex = s THEN "free" ELSE mutex

\* send returns an error to s, whatever it had reached.
Fail(s) ==
    /\ spc' = [spc EXCEPT ![s] = After(s)]
    /\ mutex' = Released(s)
    /\ cancelled' = (cancelled \/ s = "heartbeat")
    /\ UNCHANGED <<seq, stopped, phase, wire>>

\* The checks before the mutex.
BeginSend(s) ==
    /\ Alive(s)
    /\ spc[s] = "idle"
    /\ ~Inactive
    /\ spc' = [spc EXCEPT ![s] = "waiting"]
    /\ UNCHANGED <<mutex, seq, stopped, cancelled, phase, wire>>

RefuseSend(s) ==
    /\ Alive(s)
    /\ spc[s] \in {"idle", "waiting"}
    /\ Inactive
    /\ mutex = "free" \/ spc[s] = "idle"
    /\ Fail(s)

\* Mutant: the mutex does not exclude the other sender.
NoExclusion == TRUE

MutexFree == mutex = "free"

\* The mutex is free and the second check passes.
Acquire(s) ==
    /\ Alive(s)
    /\ spc[s] = "waiting"
    /\ MutexFree
    /\ ~Inactive
    /\ mutex' = s
    /\ spc' = [spc EXCEPT ![s] = "requesting"]
    /\ UNCHANGED <<seq, stopped, cancelled, phase, wire>>

\* The session takes the request.
HandOver(s) ==
    /\ Alive(s)
    /\ spc[s] = "requesting"
    /\ Len(wire) < MaxFrames
    /\ wire' = Append(wire, Frame(s, seq))
    /\ spc' = [spc EXCEPT ![s] = "sent"]
    /\ UNCHANGED <<mutex, seq, stopped, cancelled, phase>>

\* The Gateway accepts the frame: only now is its number used up.
Accepted(s) ==
    /\ Alive(s)
    /\ spc[s] = "sent"
    /\ seq' = seq + 1
    /\ mutex' = Released(s)
    /\ spc' = [spc EXCEPT ![s] = "idle"]
    /\ UNCHANGED <<stopped, cancelled, phase, wire>>

SendFails(s) ==
    /\ Alive(s)
    /\ spc[s] \in {"requesting", "sent"}
    /\ Fail(s)

\* The heartbeat loop sees the cancelled token while it sleeps.
HeartbeatEnds ==
    /\ spc["heartbeat"] = "idle"
    /\ cancelled
    /\ spc' = [spc EXCEPT !["heartbeat"] = "gone"]
    /\ UNCHANGED <<mutex, seq, stopped, cancelled, phase, wire>>

\* node.invoke.cancel, an overflow or a disconnect.
Cancel ==
    /\ phase \in {"calling", "handler"}
    /\ ~cancelled
    /\ cancelled' = TRUE
    /\ UNCHANGED <<spc, mutex, seq, stopped, phase, wire>>

-----------------------------------------------------------------------------
\* The registered handler returns its future.
CallReturns ==
    /\ phase = "calling"
    /\ phase' = "handler"
    /\ UNCHANGED <<spc, mutex, seq, stopped, cancelled, wire>>

\* execute_handler is over: the handler returned, timed out or was overrun.
\* Its future is dropped with whatever it was sending, then stop() is called.
HandlerOver ==
    /\ phase = "handler"
    /\ spc' = [spc EXCEPT !["handler"] = "gone"]
    /\ mutex' = Released("handler")
    /\ \/ spc["handler"] = "idle" /\ UNCHANGED cancelled
       \/ cancelled' = TRUE
    /\ stopped' = TRUE
    /\ phase' = "stopping"
    /\ UNCHANGED <<seq, wire>>

\* The registered handler panics before it returns a future: the duplex state is
\* dropped, which detaches the heartbeat, even in the middle of a send, and the
\* token is set.
HandlerPanics ==
    /\ phase = "calling"
    /\ spc' = [spc EXCEPT !["handler"] = "gone"]
    /\ cancelled' = TRUE
    /\ phase' = "panicked"
    /\ UNCHANGED <<mutex, seq, stopped, wire>>

\* The whole task is aborted: no result follows, the heartbeat is detached, and
\* dropping the ActiveInvocation sets the token.
TaskDropped ==
    /\ phase \in {"handler", "stopping"}
    /\ spc' = [spc EXCEPT !["handler"] = "gone"]
    /\ mutex' = Released("handler")
    /\ cancelled' = TRUE
    /\ phase' = "dropped"
    /\ UNCHANGED <<seq, stopped, wire>>

\* heartbeat_task.abort() takes effect at an await point.
AbortHeartbeat ==
    /\ phase = "stopping"
    /\ spc["heartbeat"] # "gone"
    /\ spc' = [spc EXCEPT !["heartbeat"] = "gone"]
    /\ mutex' = Released("heartbeat")
    /\ UNCHANGED <<seq, stopped, cancelled, phase, wire>>

\* Mutant: the heartbeat task is aborted but not awaited.
HeartbeatIgnored == TRUE

\* heartbeat_task.await
HeartbeatJoined == spc["heartbeat"] = "gone"

\* complete_invocation hands over the terminal result.
SendResult ==
    /\ \/ phase = "stopping" /\ HeartbeatJoined /\ phase' = "done"
       \/ phase = "panicked" /\ phase' = "over"
    /\ wire' = Append(wire, Result)
    /\ UNCHANGED <<spc, mutex, seq, stopped, cancelled>>

Send(s) ==
    \/ BeginSend(s) \/ RefuseSend(s) \/ Acquire(s) \/ HandOver(s)
    \/ Accepted(s) \/ SendFails(s)

Next ==
    \/ \E s \in Senders : Send(s)
    \/ HeartbeatEnds \/ Cancel
    \/ CallReturns \/ HandlerOver \/ HandlerPanics \/ TaskDropped \/ AbortHeartbeat \/ SendResult

Spec == Init /\ [][Next]_vars

-----------------------------------------------------------------------------
(* Properties.                                                             *)

\* Type invariant; whoever holds the mutex is inside its request.
TypeOK ==
    /\ spc \in [Senders -> {"idle", "waiting", "requesting", "sent", "gone"}]
    /\ mutex \in Senders \cup {"free"}
    /\ mutex \in Senders => spc[mutex] \in {"requesting", "sent"}
    /\ seq \in Nat
    /\ stopped \in BOOLEAN
    /\ cancelled \in BOOLEAN
    /\ phase \in Phases
    /\ wire \in Seq([kind : {"progress", "result"}, by : Senders, seq : Nat])

IsFrame(i) == wire[i].kind = "progress"

\* The frames of one invocation reach the Gateway numbered 0, 1, 2, ... without
\* a gap and never backwards, although several tasks send them and a send may
\* fail before or after its frame has left; a failed one may repeat its number.
ProgressOrdered ==
    \A i \in 1 .. Len(wire) : IsFrame(i) =>
        /\ wire[i].seq = 0 \/ \E j \in 1 .. i - 1 : IsFrame(j) /\ wire[j].seq + 1 = wire[i].seq
        /\ \A j \in 1 .. i - 1 : IsFrame(j) => wire[j].seq <= wire[i].seq

\* Nothing of the handler follows the terminal result, and no heartbeat, unless
\* the call of the handler panicked.  Of the tasks that nobody joins at most one
\* frame does: the one already past the checks when the invocation ended.
ResultEndsOutput ==
    \A i \in 1 .. Len(wire) : wire[i].kind = "result" =>
        /\ Len(wire) <= i + 1
        /\ \A j \in i + 1 .. Len(wire) :
              /\ wire[j].by # "handler"
              /\ wire[j].by = "heartbeat" => phase = "over"

-----------------------------------------------------------------------------
(* The inductive invariant.                                                *)

\* Only the holder of the mutex is inside a request.
Exclusive == \A s \in Senders : spc[s] \in {"requesting", "sent"} => mutex = s

\* Who can still send in which phase.
SendersOver ==
    /\ phase = "calling" => spc["handler"] = "idle"
    /\ phase \notin {"calling", "handler"} => spc["handler"] = "gone" /\ Inactive
    /\ phase = "done" => spc["heartbeat"] = "gone"

\* The result comes with the end; if a frame has followed it, no other is on its
\* way.
ResultAtEnd ==
    \A i \in 1 .. Len(wire) : wire[i].kind = "result" =>
        /\ phase \in {"done", "over"}
        /\ Len(wire) > i => \A s \in Senders : spc[s] # "requesting"

\* The counter is above every number that was accepted, and the number of the
\* frame whose answer is awaited.
Numbered ==
    /\ \A i \in 1 .. Len(wire) : IsFrame(i) => wire[i].seq <= seq
    /\ seq > 0 => \E i \in 1 .. Len(wire) : IsFrame(i) /\ wire[i].seq + 1 = seq
    /\ \A s \in Senders : spc[s] = "sent" =>
          \E i \in 1 .. Len(wire) : IsFrame(i) /\ wire[i].seq = seq

ProgressInv ==
    /\ TypeOK /\ Exclusive /\ SendersOver
    /\ ResultAtEnd /\ ResultEndsOutput /\ Numbered /\ ProgressOrdered
=============================================================================
