------------------------------ MODULE EventHub ------------------------------
(***************************************************************************)
(* The retained-event hub of a Gateway session                             *)
(* (crates/openclaw-gateway-client/src/session.rs).  The session task      *)
(* publishes raw event frames into a buffer bounded in frames and in       *)
(* bytes; independent subscriptions read it with a private cursor.         *)
(*                                                                         *)
(* A frame is abstracted to its index and its length.  The hub's mutex is  *)
(* explicit (`publishing`), so that the eviction loop of publish is one    *)
(* step per popped frame while nobody else can look at the state.  A recv  *)
(* is several steps: create the Notified future, examine the state under   *)
(* the mutex, release it, and, when there was nothing to return, sleep     *)
(* until a notify_waiters that came after the future was created.          *)
(***************************************************************************)
EXTENDS Naturals, Sequences

CONSTANTS
    EventCapacity,   \* GatewayClientConfig::event_capacity
    MaxBufferBytes,  \* GatewayClientConfig::max_event_buffer_bytes
    Readers,         \* every subscription that is ever made
    Initial,         \* the subscription made with the hub
    FrameSizes,      \* the lengths of the frames the Gateway may send
    MaxEvents        \* bound: frames published in one session

ASSUME EventCapacityAssumption == EventCapacity \in Nat
ASSUME MaxBufferBytesAssumption == MaxBufferBytes \in Nat
ASSUME InitialAssumption == Initial \in Readers
ASSUME FrameSizesAssumption == FrameSizes \subseteq Nat
ASSUME MaxEventsAssumption == MaxEvents \in Nat

VARIABLES
    frames,          \* EventHubState.frames, oldest first
    next_index,      \* EventHubState.next_index
    retained_bytes,  \* EventHubState.retained_bytes
    closed,          \* EventHubState.closed
    cause,           \* the session's close cause has been sent (closed_tx)
    publishing,      \* the frame a publish that holds the mutex is placing
    cursor,          \* cursor[r]: EventSubscription.cursor
    pc,              \* pc[r]: where subscription r is
    notified,        \* notified[r]: the Notified future of r has fired
    accepted,        \* history: bytes of all frames ever retained
    delivered,       \* history: delivered[r], the indices recv returned, in order
    lagged,          \* history: lagged[r], the sum of r's EventLagged reports
    first,           \* history: first[r], the cursor r started with
    ending           \* history: ending[r], what r learned about the session's end

hubVars == <<frames, next_index, retained_bytes, closed, cause, publishing, accepted>>
readerVars == <<cursor, pc, notified, delivered, lagged, first, ending>>
vars == <<hubVars, readerVars>>

Frame == [index : Nat, len : Nat, at : Nat]
NoFrame == [index |-> 0, len |-> 0, busy |-> FALSE]

-----------------------------------------------------------------------------
\* EventHub::new raises both limits to at least one.
capacity == IF EventCapacity > 0 THEN EventCapacity ELSE 1
max_bytes == IF MaxBufferBytes > 0 THEN MaxBufferBytes ELSE 1

Unlocked == publishing = NoFrame

\* Notify::notify_waiters: fires every future that exists at this moment.
NotifyWaiters ==
    notified' = [r \in Readers |-> notified[r] \/ pc[r] \in {"armed", "checked", "parked"}]

Init ==
    /\ frames = <<>>
    /\ next_index = 0
    /\ retained_bytes = 0
    /\ closed = FALSE
    /\ cause = FALSE
    /\ publishing = NoFrame
    /\ accepted = 0
    /\ cursor = [r \in Readers |-> 0]
    /\ pc = [r \in Readers |-> IF r = Initial THEN "idle" ELSE "none"]
    /\ notified = [r \in Readers |-> FALSE]
    /\ delivered = [r \in Readers |-> <<>>]
    /\ lagged = [r \in Readers |-> 0]
    /\ first = [r \in Readers |-> 0]
    /\ ending = [r \in Readers |-> "none"]

\* Mutant: a later subscription replays what is still retained.
OldestRetained == IF frames = <<>> THEN next_index ELSE frames[1].index

\* subscribe: a later subscription starts at the current end of the stream.
SubscriptionStart == next_index

Subscribe(r) ==
    /\ Unlocked
    /\ pc[r] = "none"
    /\ pc' = [pc EXCEPT ![r] = "idle"]
    /\ cursor' = [cursor EXCEPT ![r] = SubscriptionStart]
    /\ first' = [first EXCEPT ![r] = SubscriptionStart]
    /\ UNCHANGED <<hubVars, notified, delivered, lagged, ending>>

-----------------------------------------------------------------------------
(* publish, called by the session task for each event frame.               *)

\* A frame larger than the whole buffer uses up its index and is not retained.
PublishOversized(len) ==
    /\ Unlocked
    /\ ~cause
    /\ next_index < MaxEvents
    /\ len > max_bytes
    /\ next_index' = next_index + 1
    /\ NotifyWaiters
    /\ UNCHANGED <<frames, retained_bytes, closed, cause, publishing, accepted,
                   cursor, pc, delivered, lagged, first, ending>>

\* Take the mutex and the index; the eviction loop follows.
PublishBegin(len) ==
    /\ Unlocked
    /\ ~cause
    /\ next_index < MaxEvents
    /\ len <= max_bytes
    /\ publishing' = [index |-> next_index, len |-> len, busy |-> TRUE]
    /\ next_index' = next_index + 1
    /\ UNCHANGED <<frames, retained_bytes, closed, cause, accepted, readerVars>>

\* Mutant: off by one in the frame limit.
MustEvictLate ==
    \/ Len(frames) > capacity
    \/ retained_bytes + publishing.len > max_bytes

\* The condition of the eviction loop.
MustEvict ==
    \/ Len(frames) >= capacity
    \/ retained_bytes + publishing.len > max_bytes

\* One round of the loop: pop_front and give its bytes back (saturating_sub).
EvictFront ==
    /\ publishing.busy
    /\ MustEvict
    /\ frames # <<>>
    /\ retained_bytes' = IF retained_bytes >= Head(frames).len
                         THEN retained_bytes - Head(frames).len ELSE 0
    /\ frames' = Tail(frames)
    /\ UNCHANGED <<next_index, closed, cause, publishing, accepted, readerVars>>

\* The loop has ended: retain the frame, release the mutex, wake the readers.
PublishRetain ==
    /\ publishing.busy
    /\ ~MustEvict \/ frames = <<>>
    /\ retained_bytes' = retained_bytes + publishing.len
    /\ frames' = Append(frames, [index |-> publishing.index,
                                 len |-> publishing.len, at |-> accepted])
    /\ accepted' = accepted + publishing.len
    /\ publishing' = NoFrame
    /\ NotifyWaiters
    /\ UNCHANGED <<next_index, closed, cause,
                   cursor, pc, delivered, lagged, first, ending>>

\* End of run_session: the cause is sent first, then the hub is closed.
SendCause ==
    /\ Unlocked
    /\ ~cause
    /\ cause' = TRUE
    /\ UNCHANGED <<frames, next_index, retained_bytes, closed, publishing, accepted, readerVars>>

Close ==
    /\ Unlocked
    /\ cause
    /\ ~closed
    /\ closed' = TRUE
    /\ NotifyWaiters
    /\ UNCHANGED <<frames, next_index, retained_bytes, cause, publishing, accepted,
                   cursor, pc, delivered, lagged, first, ending>>

-----------------------------------------------------------------------------
(* recv.                                                                   *)

\* Top of the loop: the Notified future is created before the state is read.
Arm(r) ==
    /\ \/ pc[r] = "idle"
       \/ pc[r] \in {"checked", "parked"} /\ notified[r]
    /\ pc' = [pc EXCEPT ![r] = "armed"]
    /\ notified' = [notified EXCEPT ![r] = FALSE]
    /\ UNCHANGED <<hubVars, cursor, delivered, lagged, first, ending>>

\* The retained frames at or after the reader's cursor, as positions in frames.
Ahead(r) == {i \in 1 .. Len(frames) : frames[i].index >= cursor[r]}

\* Mutant: the newest retained frame instead of the oldest one ahead.
IsNewest(r, i) == i \in Ahead(r) /\ \A j \in Ahead(r) : j <= i

\* frames.iter().find(|frame| frame.index >= cursor)
IsNext(r, i) == i \in Ahead(r) /\ \A j \in Ahead(r) : i <= j

\* Mutant: the cursor stays on the event that was returned.
NotPast(index) == index

\* Where the cursor goes when the event at index has been returned.
Past(index) == index + 1

\* The first retained frame ahead is the one at the cursor: return it.
Deliver(r) ==
    /\ Unlocked
    /\ pc[r] = "armed"
    /\ \E i \in 1 .. Len(frames) : IsNext(r, i) /\ frames[i].index = cursor[r]
    /\ delivered' = [delivered EXCEPT ![r] = Append(@, cursor[r])]
    /\ cursor' = [cursor EXCEPT ![r] = Past(@)]
    /\ pc' = [pc EXCEPT ![r] = "idle"]
    /\ UNCHANGED <<hubVars, notified, lagged, first, ending>>

\* Where a reader that lost events resumes: the first retained frame ahead of
\* it, or the end of the stream when there is none.
ResumeAt(r, n) ==
    \/ \E i \in 1 .. Len(frames) : IsNext(r, i) /\ frames[i].index = n
    \/ Ahead(r) = {} /\ n = next_index

\* Mutant: one event not counted.
SkippedOffByOne(r, n) == n - cursor[r] - 1

\* The count that EventLagged carries.
Skipped(r, n) == n - cursor[r]

\* Return EventLagged with the number of events skipped.
Lag(r) ==
    /\ Unlocked
    /\ pc[r] = "armed"
    /\ \E n \in 0 .. next_index :
          /\ ResumeAt(r, n)
          /\ n > cursor[r]
          /\ lagged' = [lagged EXCEPT ![r] = @ + Skipped(r, n)]
          /\ cursor' = [cursor EXCEPT ![r] = n]
    /\ pc' = [pc EXCEPT ![r] = "idle"]
    /\ UNCHANGED <<hubVars, notified, delivered, first, ending>>

\* Mutant: events that were never retained are forgotten.
NothingRetained(r) == Ahead(r) = {}

\* Nothing is left for the reader.
Exhausted(r) == Ahead(r) = {} /\ cursor[r] >= next_index

\* closed_event_error: the close cause, or a generic error when none was sent.
Terminal(r) ==
    /\ Unlocked
    /\ pc[r] = "armed"
    /\ Exhausted(r)
    /\ closed
    /\ ending' = [ending EXCEPT ![r] = IF cause THEN "cause" ELSE "unknown"]
    /\ pc' = [pc EXCEPT ![r] = "idle"]
    /\ UNCHANGED <<hubVars, cursor, notified, delivered, lagged, first>>

\* Nothing to return yet: release the mutex ...
FindNothing(r) ==
    /\ Unlocked
    /\ pc[r] = "armed"
    /\ Exhausted(r)
    /\ ~closed
    /\ pc' = [pc EXCEPT ![r] = "checked"]
    /\ UNCHANGED <<hubVars, cursor, notified, delivered, lagged, first, ending>>

\* Mutant: the future is created only where it is awaited.
ParkAfresh(r) ==
    /\ pc[r] = "checked"
    /\ pc' = [pc EXCEPT ![r] = "parked"]
    /\ notified' = [notified EXCEPT ![r] = FALSE]
    /\ UNCHANGED <<hubVars, cursor, delivered, lagged, first, ending>>

\* ... and await the future, which may have fired in the meantime.
Park(r) ==
    /\ pc[r] = "checked"
    /\ ~notified[r]
    /\ pc' = [pc EXCEPT ![r] = "parked"]
    /\ UNCHANGED <<hubVars, cursor, notified, delivered, lagged, first, ending>>

\* The caller drops a waiting recv (it is a branch of select! in the runtime).
Abandon(r) ==
    /\ pc[r] = "parked"
    /\ pc' = [pc EXCEPT ![r] = "idle"]
    /\ UNCHANGED <<hubVars, cursor, notified, delivered, lagged, first, ending>>

Recv(r) == Arm(r) \/ Deliver(r) \/ Lag(r) \/ Terminal(r) \/ FindNothing(r) \/ Park(r)

Next ==
    \/ \E len \in FrameSizes : PublishOversized(len) \/ PublishBegin(len)
    \/ EvictFront
    \/ PublishRetain
    \/ SendCause
    \/ Close
    \/ \E r \in Readers : Subscribe(r) \/ Recv(r) \/ Abandon(r)

Spec == Init /\ [][Next]_vars

\* The session task finishes a publish and a close that it has begun, and a
\* consumer keeps calling recv.
Fairness ==
    /\ WF_vars(EvictFront)
    /\ WF_vars(PublishRetain)
    /\ WF_vars(Close)
    /\ \A r \in Readers : WF_vars(Recv(r))

FairSpec == Spec /\ Fairness

-----------------------------------------------------------------------------
(* Properties.                                                             *)

\* Type invariant of the hub and its subscriptions.
TypeOK ==
    /\ frames \in Seq(Frame)
    /\ next_index \in Nat
    /\ retained_bytes \in Nat
    /\ closed \in BOOLEAN
    /\ cause \in BOOLEAN
    /\ publishing \in [index : Nat, len : Nat, busy : BOOLEAN]
    /\ accepted \in Nat
    /\ cursor \in [Readers -> Nat]
    /\ pc \in [Readers -> {"none", "idle", "armed", "checked", "parked"}]
    /\ notified \in [Readers -> BOOLEAN]
    /\ delivered \in [Readers -> Seq(Nat)]
    /\ lagged \in [Readers -> Nat]
    /\ first \in [Readers -> Nat]
    /\ ending \in [Readers -> {"none", "cause", "unknown"}]

\* Whenever the mutex is free, publish has kept the buffer within both limits,
\* and retained_bytes is exactly what the retained frames occupy, through every
\* eviction: the bytes accepted since the oldest retained frame was.
BufferBounded ==
    Unlocked =>
        /\ Len(frames) <= capacity
        /\ retained_bytes <= max_bytes
        /\ retained_bytes = IF frames = <<>> THEN 0 ELSE accepted - frames[1].at

\* No event is lost silently: recv has either returned every event between a
\* reader's first cursor and its current one, or counted it in an EventLagged.
NoSilentLoss ==
    \A r \in Readers : Len(delivered[r]) + lagged[r] + first[r] = cursor[r]

\* recv returns events in the order they were published and none twice, to
\* every subscription, whatever was evicted between two calls.
DeliveredInOrder ==
    \A r \in Readers :
        \A i \in 1 .. Len(delivered[r]) :
            /\ first[r] <= delivered[r][i] /\ delivered[r][i] < cursor[r]
            /\ \A j \in 1 .. Len(delivered[r]) :
                  i < j => delivered[r][i] < delivered[r][j]

\* A reader told that the session ended has already accounted for every event
\* of the session, and was told the cause that run_session recorded.
EndingIsComplete ==
    \A r \in Readers :
        ending[r] # "none" => ending[r] = "cause" /\ cursor[r] = next_index

\* EventLagged never covers an event that the hub still retains.
LagSkipsOnlyLost ==
    [][\A r \in Readers :
          lagged'[r] # lagged[r] =>
              \A i \in 1 .. Len(frames) :
                  ~ (cursor[r] <= frames[i].index /\ frames[i].index < cursor'[r])]_vars

\* No wake-up is lost: a consumer that keeps calling recv gets past every
\* published event, and once the session has closed it is told so.
ReadersCatchUp ==
    \A r \in Readers :
        /\ \A n \in 0 .. MaxEvents - 1 :
              (pc[r] # "none" /\ next_index > n) ~> (cursor[r] > n)
        /\ (closed /\ pc[r] # "none") ~> (ending[r] # "none")

-----------------------------------------------------------------------------
(* The hub implements the abstract log of EventLog.                        *)

Log == INSTANCE EventLog WITH
          size <- next_index,
          ended <- closed,
          open <- {r \in Readers : pc[r] # "none"},
          pos <- cursor,
          got <- [r \in Readers |-> {delivered[r][i] : i \in 1 .. Len(delivered[r])}],
          missed <- lagged,
          told <- {r \in Readers : ending[r] # "none"}

\* Every step of the hub is a step of the abstract event log or a stutter.
ImplementsLog == Log!LogSpec
=============================================================================
