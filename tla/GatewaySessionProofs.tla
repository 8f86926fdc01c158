----------------------- MODULE GatewaySessionProofs -------------------------
(***************************************************************************)
(* Proofs about GatewaySession for any finite set of requests and any      *)
(* max_in_flight.                                                          *)
(***************************************************************************)
EXTENDS GatewaySession, FiniteSetTheorems, TLAPS

-----------------------------------------------------------------------------
(* The inductive invariant.                                                *)

\* A request is in one place only, and its caller has let go of it.
OnePlace ==
    /\ Queued \cap writing = {} /\ Queued \cap pending = {} /\ writing \cap pending = {}
    /\ \A r \in Queued \cup writing \cup pending : pc[r] \notin {"acquiring", "sending"}

\* The channel carries a request once.
QueuedOnce ==
    \A i, j \in 1 .. Len(commands) :
        commands[i] = commands[j] /\ commands[i].kind = "request" => i = j

\* Something is being written exactly while the task is writing, one at a time.
OneWrite == IF task = "writing" THEN \E r \in Requests : writing = {r} ELSE writing = {}

\* A cancellation is only queued once the flag is up, which a caller that has
\* stopped waiting, and no other, puts up first.
CancelsFlagged ==
    /\ \A i \in 1 .. Len(commands) : commands[i].kind = "cancel" => flag[commands[i].r]
    /\ \A r \in Requests :
          /\ flag[r] => pc[r] \in {"cancelling", "done"}
          /\ pc[r] = "cancelling" => flag[r]

\* A reply is only dropped unsent when its caller has gone or the cause is
\* known, and the cause is known before the channel is gone.
LossExplained ==
    /\ \A r \in Requests : reply[r] = "lost" => cause \/ flag[r]
    /\ task \in {"closed", "ended"} => cause

SessionInv ==
    /\ OnePlace
    /\ QueuedOnce
    /\ OneWrite
    /\ CancelsFlagged
    /\ LossExplained
    /\ CauseIsKnown
    /\ NoCallerForgotten

USE RequestsAssumption, MaxInFlightAssumption

-----------------------------------------------------------------------------
(* The command channel.                                                    *)

GatewayCommand == [kind : {"request", "cancel"}, r : Requests]

\* The requests in a channel, and that each is in it once.
InChannel(c) == {r \in Requests : \E i \in 1 .. Len(c) : c[i] = Request(r)}
Once(c) == \A i, j \in 1 .. Len(c) : c[i] = c[j] /\ c[i].kind = "request" => i = j

\* A command is a request or a cancellation of what it names.
LEMMA CommandForm ==
    ASSUME NEW x \in GatewayCommand
    PROVE  /\ x.r \in Requests
           /\ x.kind = "request" => x = Request(x.r)
           /\ x.kind = "cancel" => x = CancelRequest(x.r)
           /\ x.kind \in {"request", "cancel"}
    BY DEF GatewayCommand, Request, CancelRequest

\* Requests and cancellations differ, and name what they are made of.
LEMMA CommandsDiffer ==
    ASSUME NEW r \in Requests, NEW q \in Requests
    PROVE  /\ Request(r) # CancelRequest(q)
           /\ Request(r) = Request(q) => r = q
           /\ Request(r) \in GatewayCommand /\ CancelRequest(r) \in GatewayCommand
           /\ Request(r).kind = "request" /\ Request(r).r = r
           /\ CancelRequest(r).kind = "cancel" /\ CancelRequest(r).r = r
<1>1. Request(r).kind = "request" /\ CancelRequest(q).kind = "cancel"
    BY DEF Request, CancelRequest
<1>2. Request(r).r = r /\ Request(q).r = q
    BY DEF Request
<1>3. Request(r) \in GatewayCommand /\ CancelRequest(r) \in GatewayCommand
    BY DEF Request, CancelRequest, GatewayCommand
<1>4. CancelRequest(r).kind = "cancel" /\ CancelRequest(r).r = r
    BY DEF CancelRequest
<1> QED
    BY <1>1, <1>2, <1>3, <1>4

\* Queued, with the requests bound by a quantifier.
LEMMA QueuedIsInChannel ==
    ASSUME NEW c \in Seq(GatewayCommand)
    PROVE  {c[i].r : i \in {j \in 1 .. Len(c) : c[j].kind = "request"}} = InChannel(c)
<1> DEFINE queued == {c[i].r : i \in {j \in 1 .. Len(c) : c[j].kind = "request"}}
<1>1. \A i \in 1 .. Len(c) : c[i] \in GatewayCommand
    OBVIOUS
<1>2. ASSUME NEW q \in queued PROVE q \in InChannel(c)
  <2>1. PICK i \in 1 .. Len(c) : c[i].kind = "request" /\ q = c[i].r
    BY <1>2
  <2> QED
    BY <1>1, <2>1, CommandForm DEF InChannel
<1>3. ASSUME NEW q \in InChannel(c) PROVE q \in queued
  <2>1. PICK i \in 1 .. Len(c) : c[i] = Request(q) /\ q \in Requests
    BY <1>3 DEF InChannel
  <2>2. c[i].kind = "request" /\ c[i].r = q
    BY <2>1, CommandsDiffer
  <2> QED
    BY <2>1, <2>2
<1> QED
    BY <1>2, <1>3

\* send appends a request that was not there, or a cancellation.
LEMMA ChannelSend ==
    ASSUME NEW c \in Seq(GatewayCommand), NEW x \in GatewayCommand
    PROVE  /\ Append(c, x) \in Seq(GatewayCommand)
           /\ Len(Append(c, x)) = Len(c) + 1
           /\ \A r \in Requests : x = Request(r) =>
                 /\ InChannel(Append(c, x)) = InChannel(c) \cup {r}
                 /\ r \notin InChannel(c) /\ Once(c) => Once(Append(c, x))
           /\ \A r \in Requests : x = CancelRequest(r) =>
                 /\ InChannel(Append(c, x)) = InChannel(c)
                 /\ Once(c) => Once(Append(c, x))
<1> DEFINE d == Append(c, x)
           n == Len(c)
<1>1. /\ n \in Nat /\ Len(d) = n + 1 /\ d \in Seq(GatewayCommand)
      /\ \A i \in 1 .. n : d[i] = c[i] /\ c[i] \in GatewayCommand
      /\ d[n + 1] = x
    OBVIOUS
<1>2. \A i \in 1 .. n + 1 : i \in 1 .. n \/ i = n + 1
    BY <1>1
<1>3. \A i \in 1 .. n : i \in 1 .. n + 1
    BY <1>1
<1>4. n + 1 \in 1 .. n + 1
    BY <1>1
<1> HIDE DEF d
<1>5. ASSUME NEW r \in Requests, x = Request(r)
      PROVE  /\ InChannel(d) = InChannel(c) \cup {r}
             /\ r \notin InChannel(c) /\ Once(c) => Once(d)
  <2>1. InChannel(d) = InChannel(c) \cup {r}
    <3> HIDE DEF n
    <3>1. \A q \in Requests : q \in InChannel(d) <=> q \in InChannel(c) \/ q = r
      BY <1>1, <1>2, <1>3, <1>4, <1>5, CommandsDiffer DEF InChannel, n
    <3> QED
      BY <3>1 DEF InChannel
  <2>2. ASSUME r \notin InChannel(c), Once(c) PROVE Once(d)
    <3>1. \A i \in 1 .. n : c[i] # x
      BY <1>5, <2>2 DEF InChannel
    <3> QED
      BY <1>1, <1>2, <2>2, <3>1 DEF Once
  <2> QED
    BY <2>1, <2>2
<1>6. ASSUME NEW r \in Requests, x = CancelRequest(r)
      PROVE  /\ InChannel(d) = InChannel(c)
             /\ Once(c) => Once(d)
  <2>1. InChannel(d) = InChannel(c)
    <3> HIDE DEF n
    <3>1. \A q \in Requests : q \in InChannel(d) <=> q \in InChannel(c)
      BY <1>1, <1>2, <1>3, <1>4, <1>6, CommandsDiffer DEF InChannel, n
    <3> QED
      BY <3>1 DEF InChannel
  <2>2. x.kind # "request"
    BY <1>6, CommandsDiffer
  <2>3. ASSUME Once(c) PROVE Once(d)
    BY <1>1, <1>2, <2>2, <2>3 DEF Once
  <2> QED
    BY <2>1, <2>3
<1> QED
    BY <1>1, <1>5, <1>6 DEF d

\* recv takes the first command off: a request that is then in it no more.
LEMMA ChannelRecv ==
    ASSUME NEW c \in Seq(GatewayCommand), c # <<>>, Once(c)
    PROVE  /\ Tail(c) \in Seq(GatewayCommand)
           /\ Len(Tail(c)) = Len(c) - 1
           /\ \A i \in 1 .. Len(c) - 1 : Tail(c)[i] = c[i + 1]
           /\ Once(Tail(c))
           /\ \A r \in Requests : Head(c) = Request(r) =>
                 r \in InChannel(c) /\ InChannel(Tail(c)) = InChannel(c) \ {r}
           /\ \A r \in Requests : Head(c) = CancelRequest(r) =>
                 InChannel(Tail(c)) = InChannel(c)
<1> DEFINE d == Tail(c)
           n == Len(c)
<1>1. /\ n \in Nat \ {0} /\ Len(d) = n - 1 /\ d \in Seq(GatewayCommand)
      /\ \A i \in 1 .. n - 1 : d[i] = c[i + 1] /\ i + 1 \in 1 .. n
      /\ \A i \in 2 .. n : i - 1 \in 1 .. n - 1 /\ c[i] = d[i - 1]
      /\ Head(c) = c[1] /\ c[1] \in GatewayCommand
    OBVIOUS
<1>2. 1 \in 1 .. n /\ \A i \in 1 .. n : i = 1 \/ i \in 2 .. n
    BY <1>1
<1> HIDE DEF d
<1>3. Once(d)
  <2> SUFFICES ASSUME NEW i \in 1 .. n - 1, NEW j \in 1 .. n - 1,
                      d[i] = d[j], d[i].kind = "request"
               PROVE  i = j
    BY <1>1 DEF Once
  <2>1. i + 1 = j + 1
    BY <1>1 DEF Once
  <2> QED
    BY <2>1
<1>4. ASSUME NEW r \in Requests, Head(c) = Request(r)
      PROVE  r \in InChannel(c) /\ InChannel(d) = InChannel(c) \ {r}
  <2>1. r \in InChannel(c)
    BY <1>1, <1>2, <1>4 DEF InChannel
  <2>2. \A i \in 1 .. n - 1 : d[i] # Request(r)
    <3> SUFFICES ASSUME NEW i \in 1 .. n - 1, d[i] = Request(r) PROVE FALSE
      OBVIOUS
    <3>1. c[i + 1] = c[1] /\ c[i + 1].kind = "request"
      BY <1>1, <1>4, CommandsDiffer
    <3>2. i + 1 = 1
      BY <1>1, <1>2, <3>1 DEF Once
    <3> QED
      BY <3>2
  <2>3. \A q \in Requests : q \in InChannel(d) <=> q \in InChannel(c) /\ q # r
    BY <1>1, <1>2, <1>4, <2>2, CommandsDiffer DEF InChannel
  <2> QED
    BY <2>1, <2>3 DEF InChannel
<1>5. ASSUME NEW r \in Requests, Head(c) = CancelRequest(r)
      PROVE  InChannel(d) = InChannel(c)
  <2>1. \A q \in Requests : c[1] # Request(q)
    BY <1>1, <1>5, CommandsDiffer
  <2>2. \A q \in Requests : q \in InChannel(d) => q \in InChannel(c)
    BY <1>1 DEF InChannel
  <2>3. \A q \in Requests : q \in InChannel(c) => q \in InChannel(d)
    BY <1>1, <1>2, <2>1 DEF InChannel
  <2> QED
    BY <2>2, <2>3 DEF InChannel
<1> QED
    BY <1>1, <1>3, <1>4, <1>5 DEF d

-----------------------------------------------------------------------------
(* What a step does to the channel.                                        *)

\* commands is a channel of commands.
LEMMA ChannelTyped ==
    ASSUME TypeOK
    PROVE  commands \in Seq(GatewayCommand)
    BY DEF TypeOK, GatewayCommand

\* Queued and the other facts about the channel after each kind of operation on
\* it: a request enters, a cancellation enters, one of them leaves, or the
\* channel is left alone or dropped.
RequestEnters(r) == commands' = Append(commands, Request(r))
CancelEnters(r) == commands' = Append(commands, CancelRequest(r))
RequestLeaves(r) == commands # <<>> /\ Head(commands) = Request(r) /\ commands' = Tail(commands)
CancelLeaves(r) ==
    commands # <<>> /\ Head(commands) = CancelRequest(r) /\ commands' = Tail(commands)

\* A request enters the channel, which did not hold it.
LEMMA RequestEnterEffect ==
    ASSUME TypeOK, QueuedOnce, NEW r \in Requests, r \notin Queued, RequestEnters(r)
    PROVE  /\ commands' \in Seq(GatewayCommand)
           /\ Queued' = Queued \cup {r} /\ QueuedOnce'
           /\ \A i \in 1 .. Len(commands') : commands'[i].kind = "cancel" =>
                 \E j \in 1 .. Len(commands) : commands'[i] = commands[j]
<1>1. commands \in Seq(GatewayCommand) /\ Request(r) \in GatewayCommand
    BY ChannelTyped, CommandsDiffer
<1>2. commands' \in Seq(GatewayCommand) /\ Len(commands') = Len(commands) + 1
    BY <1>1, ChannelSend DEF RequestEnters
<1>3. Queued = InChannel(commands) /\ Queued' = InChannel(commands')
    BY <1>1, <1>2, QueuedIsInChannel DEF Queued
<1>4. Once(commands)
    BY DEF Once, QueuedOnce
<1>5. InChannel(commands') = InChannel(commands) \cup {r} /\ Once(commands')
    BY <1>1, <1>3, <1>4, ChannelSend DEF RequestEnters
<1>6. Request(r).kind = "request"
    BY CommandsDiffer
<1>7. \A i \in 1 .. Len(commands') : commands'[i].kind = "cancel" =>
         i \in 1 .. Len(commands) /\ commands'[i] = commands[i]
    BY <1>1, <1>2, <1>6 DEF RequestEnters
<1> QED
    BY <1>2, <1>3, <1>5, <1>7 DEF Once, QueuedOnce

\* A cancellation enters the channel.
LEMMA CancelEnterEffect ==
    ASSUME TypeOK, QueuedOnce, NEW r \in Requests, CancelEnters(r)
    PROVE  /\ commands' \in Seq(GatewayCommand)
           /\ Queued' = Queued /\ QueuedOnce'
           /\ \A i \in 1 .. Len(commands') :
                 \/ \E j \in 1 .. Len(commands) : commands'[i] = commands[j]
                 \/ commands'[i].r = r
<1>1. commands \in Seq(GatewayCommand) /\ CancelRequest(r) \in GatewayCommand
    BY ChannelTyped, CommandsDiffer
<1>2. commands' \in Seq(GatewayCommand) /\ Len(commands') = Len(commands) + 1
    BY <1>1, ChannelSend DEF CancelEnters
<1>3. Queued = InChannel(commands) /\ Queued' = InChannel(commands')
    BY <1>1, <1>2, QueuedIsInChannel DEF Queued
<1>4. Once(commands)
    BY DEF Once, QueuedOnce
<1>5. InChannel(commands') = InChannel(commands) /\ Once(commands')
    BY <1>1, <1>4, ChannelSend DEF CancelEnters
<1>6. CancelRequest(r).r = r
    BY CommandsDiffer
<1>7. \A i \in 1 .. Len(commands') :
         (i \in 1 .. Len(commands) /\ commands'[i] = commands[i]) \/ commands'[i].r = r
    BY <1>1, <1>2, <1>6 DEF CancelEnters
<1> QED
    BY <1>2, <1>3, <1>5, <1>7 DEF Once, QueuedOnce

\* The first command leaves the channel.
LEMMA LeaveEffect ==
    ASSUME TypeOK, QueuedOnce, NEW r \in Requests, RequestLeaves(r) \/ CancelLeaves(r)
    PROVE  /\ commands' \in Seq(GatewayCommand)
           /\ QueuedOnce'
           /\ RequestLeaves(r) => r \in Queued /\ Queued' = Queued \ {r}
           /\ CancelLeaves(r) => /\ Queued' = Queued
                                 /\ 1 \in 1 .. Len(commands)
                                 /\ commands[1].kind = "cancel" /\ commands[1].r = r
           /\ \A i \in 1 .. Len(commands') :
                 \E j \in 1 .. Len(commands) : commands'[i] = commands[j]
           /\ Len(commands') <= Len(commands)
<1>1. commands \in Seq(GatewayCommand) /\ commands # <<>> /\ commands' = Tail(commands)
    BY ChannelTyped DEF RequestLeaves, CancelLeaves
<1>2. Once(commands)
    BY DEF Once, QueuedOnce
<1>3. /\ commands' \in Seq(GatewayCommand) /\ Len(commands') = Len(commands) - 1
      /\ Once(commands')
      /\ \A i \in 1 .. Len(commands) - 1 : commands'[i] = commands[i + 1]
    BY <1>1, <1>2, ChannelRecv
<1>4. Queued = InChannel(commands) /\ Queued' = InChannel(commands')
    BY <1>1, <1>3, QueuedIsInChannel DEF Queued
<1>5. RequestLeaves(r) => r \in Queued /\ Queued' = Queued \ {r}
    BY <1>1, <1>2, <1>4, ChannelRecv DEF RequestLeaves
<1>6. Len(commands) \in Nat \ {0} /\ Head(commands) = commands[1]
    BY <1>1
<1>7. CancelLeaves(r) => Queued' = Queued
    BY <1>1, <1>2, <1>4, ChannelRecv DEF CancelLeaves
<1>8. CancelLeaves(r) => commands[1].kind = "cancel" /\ commands[1].r = r
    BY <1>6, CommandsDiffer DEF CancelLeaves
<1>9. \A i \in 1 .. Len(commands') :
         i + 1 \in 1 .. Len(commands) /\ commands'[i] = commands[i + 1]
    BY <1>3, <1>6
<1>10. QueuedOnce'
    BY <1>3 DEF Once, QueuedOnce
<1> QED
    BY <1>3, <1>5, <1>6, <1>7, <1>8, <1>9, <1>10

-----------------------------------------------------------------------------
(* Types and invariant.                                                    *)

\* The disjuncts of Next, as the steps below take them up one by one.
LEMMA NextCases ==
    ASSUME Next
    PROVE  \/ \E r \in Requests : DeadlinePasses(r)
           \/ \E r \in Requests : Acquire(r)
           \/ \E r \in Requests : Enqueue(r)
           \/ \E r \in Requests : EnqueueClosed(r)
           \/ \E r \in Requests : GiveUpEarly(r)
           \/ \E r \in Requests : TakeReply(r)
           \/ \E r \in Requests : Abandon(r)
           \/ \E r \in Requests : SendCancel(r)
           \/ \E r \in Requests : SkipRequest(r)
           \/ \E r \in Requests : BeginWrite(r)
           \/ \E r \in Requests : CancelPending(r)
           \/ \E r \in Requests : WriteDone(r)
           \/ \E r \in Requests : DispatchRejected(r)
           \/ \E r \in Requests : WriteFails(r)
           \/ \E r \in Requests : Respond(r)
           \/ Close \/ Purge \/ ExpirePending \/ OtherFrame \/ SocketFails \/ SeeClose
           \/ DrainPending \/ PublishCause \/ DropCommands
    BY DEF Next, Caller, Command, Write, Finish

\* A set of requests can be counted.
LEMMA RequestsCount ==
    ASSUME NEW S \in SUBSET Requests
    PROVE  IsFiniteSet(S) /\ Cardinality(S) \in Nat
    BY FS_Subset, FS_CardinalityType

\* A command channel that is left alone.
LEMMA QueuedUnchanged ==
    ASSUME UNCHANGED commands
    PROVE  Queued' = Queued /\ (QueuedOnce => QueuedOnce')
    BY DEF Queued, QueuedOnce

\* What each action that touches the channel does to it.
LEMMA ActionEffect ==
    ASSUME TypeOK, SessionInv, NEW r \in Requests
    PROVE  /\ Enqueue(r) => r \notin Queued /\ RequestEnters(r)
           /\ SendCancel(r) => CancelEnters(r) \/ UNCHANGED commands
           /\ SkipRequest(r) => RequestLeaves(r)
           /\ BeginWrite(r) => RequestLeaves(r)
           /\ CancelPending(r) => CancelLeaves(r)
    BY DEF Enqueue, SendCancel, SkipRequest, BeginWrite, CancelPending, RequestEnters,
           CancelEnters, RequestLeaves, CancelLeaves, SessionInv, OnePlace

\* Queued names requests.
LEMMA QueuedTyped ==
    ASSUME TypeOK
    PROVE  Queued \subseteq Requests
<1>1. Queued = InChannel(commands)
    BY ChannelTyped, QueuedIsInChannel DEF Queued
<1> QED
    BY <1>1 DEF InChannel

\* Every step keeps the types.
LEMMA TypeStep ==
    ASSUME TypeOK, SessionInv, [Next]_vars
    PROVE  TypeOK'
<1> USE DEF TypeOK, callerVars, taskVars
<1>0. SessionInv => QueuedOnce
    BY DEF SessionInv
<1>1. ASSUME NEW r \in Requests, DeadlinePasses(r) PROVE TypeOK'
    BY <1>1 DEF DeadlinePasses
<1>2. ASSUME NEW r \in Requests, Acquire(r) PROVE TypeOK'
    BY <1>2 DEF Acquire
<1>3. ASSUME NEW r \in Requests, Enqueue(r) PROVE TypeOK'
  <2>1. commands' \in Seq([kind : {"request", "cancel"}, r : Requests])
    BY <1>0, <1>3, ActionEffect, RequestEnterEffect DEF GatewayCommand
  <2> QED
    BY <1>3, <2>1 DEF Enqueue
<1>4. ASSUME NEW r \in Requests, EnqueueClosed(r) PROVE TypeOK'
    BY <1>4 DEF EnqueueClosed, Return, ClosedError
<1>5. ASSUME NEW r \in Requests, GiveUpEarly(r) PROVE TypeOK'
    BY <1>5 DEF GiveUpEarly, Return
<1>6. ASSUME NEW r \in Requests, TakeReply(r) PROVE TypeOK'
    BY <1>6 DEF TakeReply, Return, ClosedError
<1>7. ASSUME NEW r \in Requests, Abandon(r) PROVE TypeOK'
    BY <1>7 DEF Abandon
<1>8. ASSUME NEW r \in Requests, SendCancel(r) PROVE TypeOK'
  <2>1. commands' \in Seq([kind : {"request", "cancel"}, r : Requests])
    BY <1>0, <1>8, ActionEffect, CancelEnterEffect DEF GatewayCommand
  <2> QED
    BY <1>8, <2>1 DEF SendCancel
<1>9. ASSUME NEW r \in Requests, SkipRequest(r) PROVE TypeOK'
  <2>1. commands' \in Seq([kind : {"request", "cancel"}, r : Requests])
    BY <1>0, <1>9, ActionEffect, LeaveEffect DEF GatewayCommand
  <2>2. Cardinality({r}) \in Nat
    BY RequestsCount
  <2> QED
    BY <1>9, <2>1, <2>2 DEF SkipRequest, Settle, Move
<1>10. ASSUME NEW r \in Requests, BeginWrite(r) PROVE TypeOK'
  <2>1. commands' \in Seq([kind : {"request", "cancel"}, r : Requests])
    BY <1>0, <1>10, ActionEffect, LeaveEffect DEF GatewayCommand
  <2> QED
    BY <1>10, <2>1 DEF BeginWrite, Move
<1>11. ASSUME NEW r \in Requests, CancelPending(r) PROVE TypeOK'
  <2>1. commands' \in Seq([kind : {"request", "cancel"}, r : Requests])
    BY <1>0, <1>11, ActionEffect, LeaveEffect DEF GatewayCommand
  <2>2. Cardinality(pending \cap {r}) \in Nat
    BY RequestsCount
  <2> QED
    BY <1>11, <2>1, <2>2 DEF CancelPending, Settle, Move
<1>12. ASSUME NEW r \in Requests, WriteDone(r) PROVE TypeOK'
    BY <1>12 DEF WriteDone, Move
<1>13. ASSUME NEW r \in Requests, DispatchRejected(r) PROVE TypeOK'
  <2>1. Cardinality({r}) \in Nat
    BY RequestsCount
  <2> QED
    BY <1>13, <2>1 DEF DispatchRejected, Settle, Move
<1>14. ASSUME NEW r \in Requests, WriteFails(r) PROVE TypeOK'
  <2>1. Cardinality({r}) \in Nat
    BY RequestsCount
  <2> QED
    BY <1>14, <2>1 DEF WriteFails, Settle, Move
<1>15. ASSUME NEW r \in Requests, Respond(r) PROVE TypeOK'
  <2>1. Cardinality(pending \cap {r}) \in Nat
    BY RequestsCount
  <2> QED
    BY <1>15, <2>1 DEF Respond, Settle, Move
<1>16. ASSUME Close PROVE TypeOK'
    BY <1>16 DEF Close
<1>17. ASSUME Purge PROVE TypeOK'
  <2>1. Cardinality(Purged) \in Nat
    BY RequestsCount DEF Purged
  <2> QED
    BY <1>17, <2>1 DEF Purge, Settle, Move, Purged
<1>18. ASSUME ExpirePending PROVE TypeOK'
  <2>1. Cardinality({r \in pending : expired[r]}) \in Nat
    BY RequestsCount
  <2> QED
    BY <1>18, <2>1 DEF ExpirePending, Settle, Move
<1>19. ASSUME OtherFrame PROVE TypeOK'
    BY <1>19 DEF OtherFrame, Move
<1>20. ASSUME SocketFails PROVE TypeOK'
    BY <1>20 DEF SocketFails, Move
<1>21. ASSUME SeeClose PROVE TypeOK'
    BY <1>21 DEF SeeClose, Move
<1>22. ASSUME DrainPending PROVE TypeOK'
  <2>1. Cardinality(pending) \in Nat
    BY RequestsCount
  <2> QED
    BY <1>22, <2>1 DEF DrainPending, Settle, Move, Drained
<1>23. ASSUME PublishCause PROVE TypeOK'
    BY <1>23 DEF PublishCause, Move
<1>24. ASSUME DropCommands PROVE TypeOK'
  <2>1. Cardinality(Queued) \in Nat
    BY RequestsCount, QueuedTyped
  <2> QED
    BY <1>24, <2>1 DEF DropCommands, Settle, Move, DropsLast
<1>25. ASSUME UNCHANGED vars PROVE TypeOK'
    BY <1>25 DEF vars
<1> HIDE DEF TypeOK
<1> QED
    BY <1>1, <1>2, <1>3, <1>4, <1>5, <1>6, <1>7, <1>8, <1>9, <1>10, <1>11, <1>12, <1>13,
       <1>14, <1>15, <1>16, <1>17, <1>18, <1>19, <1>20, <1>21, <1>22, <1>23, <1>24,
       <1>25, NextCases

\* Every step keeps the invariant.
LEMMA InvariantStep ==
    ASSUME TypeOK, SessionInv, [Next]_vars, TypeOK'
    PROVE  SessionInv'
<1>0. SessionInv => QueuedOnce
    BY DEF SessionInv
<1> USE QueuedTyped DEF TypeOK, SessionInv, OnePlace, OneWrite, CancelsFlagged, LossExplained,
        CauseIsKnown, NoCallerForgotten, callerVars, taskVars
<1>1. ASSUME NEW r \in Requests, DeadlinePasses(r) PROVE SessionInv'
    BY <1>1, QueuedUnchanged DEF DeadlinePasses
<1>2. ASSUME NEW r \in Requests, Acquire(r) PROVE SessionInv'
    BY <1>2, QueuedUnchanged DEF Acquire
<1>3. ASSUME NEW r \in Requests, Enqueue(r) PROVE SessionInv'
  <2>1. /\ Queued' = Queued \cup {r} /\ QueuedOnce'
        /\ \A i \in 1 .. Len(commands') : commands'[i].kind = "cancel" =>
              \E j \in 1 .. Len(commands) : commands'[i] = commands[j]
    BY <1>0, <1>3, ActionEffect, RequestEnterEffect
  <2>2. CancelsFlagged'
    BY <1>3, <2>1 DEF Enqueue
  <2> HIDE DEF CancelsFlagged
  <2> QED
    BY <1>3, <2>1, <2>2 DEF Enqueue
<1>4. ASSUME NEW r \in Requests, EnqueueClosed(r) PROVE SessionInv'
    BY <1>4, QueuedUnchanged DEF EnqueueClosed, Return, ClosedError
<1>5. ASSUME NEW r \in Requests, GiveUpEarly(r) PROVE SessionInv'
    BY <1>5, QueuedUnchanged DEF GiveUpEarly, Return
<1>6. ASSUME NEW r \in Requests, TakeReply(r) PROVE SessionInv'
    BY <1>6, QueuedUnchanged DEF TakeReply, Return, ClosedError
<1>7. ASSUME NEW r \in Requests, Abandon(r) PROVE SessionInv'
    BY <1>7, QueuedUnchanged DEF Abandon
<1>8. ASSUME NEW r \in Requests, SendCancel(r) PROVE SessionInv'
  <2>1. /\ Queued' = Queued /\ QueuedOnce'
        /\ \A i \in 1 .. Len(commands') :
              \/ \E j \in 1 .. Len(commands) : commands'[i] = commands[j]
              \/ commands'[i].r = r
    BY <1>0, <1>8, ActionEffect, CancelEnterEffect, QueuedUnchanged
  <2> QED
    BY <1>8, <2>1 DEF SendCancel
<1>9. ASSUME NEW r \in Requests, SkipRequest(r) PROVE SessionInv'
  <2>1. /\ r \in Queued /\ Queued' = Queued \ {r} /\ QueuedOnce'
        /\ \A i \in 1 .. Len(commands') :
              \E j \in 1 .. Len(commands) : commands'[i] = commands[j]
    BY <1>0, <1>9, ActionEffect, LeaveEffect
  <2> QED
    BY <1>9, <2>1 DEF SkipRequest, Settle, Move
<1>10. ASSUME NEW r \in Requests, BeginWrite(r) PROVE SessionInv'
  <2>1. /\ r \in Queued /\ Queued' = Queued \ {r} /\ QueuedOnce'
        /\ \A i \in 1 .. Len(commands') :
              \E j \in 1 .. Len(commands) : commands'[i] = commands[j]
    BY <1>0, <1>10, ActionEffect, LeaveEffect
  <2> QED
    BY <1>10, <2>1 DEF BeginWrite, Move
<1>11. ASSUME NEW r \in Requests, CancelPending(r) PROVE SessionInv'
  <2>1. /\ Queued' = Queued /\ QueuedOnce' /\ flag[r]
        /\ \A i \in 1 .. Len(commands') :
              \E j \in 1 .. Len(commands) : commands'[i] = commands[j]
    BY <1>0, <1>11, ActionEffect, LeaveEffect
  <2> QED
    BY <1>11, <2>1 DEF CancelPending, Settle, Move
<1>12. ASSUME NEW r \in Requests, WriteDone(r) PROVE SessionInv'
    BY <1>12, QueuedUnchanged DEF WriteDone, Move
<1>13. ASSUME NEW r \in Requests, DispatchRejected(r) PROVE SessionInv'
    BY <1>13, QueuedUnchanged DEF DispatchRejected, Settle, Move
<1>14. ASSUME NEW r \in Requests, WriteFails(r) PROVE SessionInv'
    BY <1>14, QueuedUnchanged DEF WriteFails, Settle, Move
<1>15. ASSUME NEW r \in Requests, Respond(r) PROVE SessionInv'
    BY <1>15, QueuedUnchanged DEF Respond, Settle, Move
<1>16. ASSUME Close PROVE SessionInv'
    BY <1>16, QueuedUnchanged DEF Close
<1>17. ASSUME Purge PROVE SessionInv'
    BY <1>17, QueuedUnchanged DEF Purge, Settle, Move, Purged
<1>18. ASSUME ExpirePending PROVE SessionInv'
    BY <1>18, QueuedUnchanged DEF ExpirePending, Settle, Move
<1>19. ASSUME OtherFrame PROVE SessionInv'
    BY <1>19, QueuedUnchanged DEF OtherFrame, Move
<1>20. ASSUME SocketFails PROVE SessionInv'
    BY <1>20, QueuedUnchanged DEF SocketFails, Move
<1>21. ASSUME SeeClose PROVE SessionInv'
    BY <1>21, QueuedUnchanged DEF SeeClose, Move
<1>22. ASSUME DrainPending PROVE SessionInv'
    BY <1>22, QueuedUnchanged DEF DrainPending, Settle, Move, Drained
<1>23. ASSUME PublishCause PROVE SessionInv'
    BY <1>23, QueuedUnchanged DEF PublishCause, Move
<1>24. ASSUME DropCommands PROVE SessionInv'
  <2>1. Queued' = {} /\ QueuedOnce' /\ Len(commands') = 0
    BY <1>24 DEF DropCommands, Queued, QueuedOnce
  <2> QED
    BY <1>24, <2>1 DEF DropCommands, Settle, Move, DropsLast
<1>25. ASSUME UNCHANGED vars PROVE SessionInv'
    BY <1>25, QueuedUnchanged DEF vars
<1> HIDE DEF TypeOK, SessionInv
<1> QED
    BY <1>1, <1>2, <1>3, <1>4, <1>5, <1>6, <1>7, <1>8, <1>9, <1>10, <1>11, <1>12, <1>13,
       <1>14, <1>15, <1>16, <1>17, <1>18, <1>19, <1>20, <1>21, <1>22, <1>23, <1>24,
       <1>25, NextCases

-----------------------------------------------------------------------------
(* The permits.                                                            *)

\* The requests that hold a permit, in the caller or in the session.
Sending == {r \in Requests : pc[r] = "sending"}
Held == Sending \cup Queued \cup writing \cup pending

\* A step moves permits and holders together: it leaves both alone, gives one
\* permit to a request that had none, or takes those of a set of holders back.
Balanced ==
    \/ Held' = Held /\ permits' = permits
    \/ \E r \in Requests :
          r \notin Held /\ Held' = Held \cup {r} /\ permits > 0 /\ permits' = permits - 1
    \/ \E S \in SUBSET Held : Held' = Held \ S /\ permits' = permits + Cardinality(S)

\* Every step is balanced.
LEMMA BalancedStep ==
    ASSUME TypeOK, SessionInv, [Next]_vars
    PROVE  Balanced
<1>0. SessionInv => QueuedOnce
    BY DEF SessionInv
<1> USE QueuedTyped DEF TypeOK, SessionInv, OnePlace, OneWrite, Held, Sending, Balanced,
        callerVars, taskVars
<1>1. ASSUME NEW r \in Requests, DeadlinePasses(r) PROVE Balanced
    BY <1>1, QueuedUnchanged DEF DeadlinePasses
<1>2. ASSUME NEW r \in Requests, Acquire(r) PROVE Balanced
    BY <1>2, QueuedUnchanged DEF Acquire
<1>3. ASSUME NEW r \in Requests, Enqueue(r) PROVE Balanced
  <2>1. Queued' = Queued \cup {r}
    BY <1>0, <1>3, ActionEffect, RequestEnterEffect
  <2> QED
    BY <1>3, <2>1 DEF Enqueue
<1>4. ASSUME NEW r \in Requests, EnqueueClosed(r) PROVE Balanced
  <2> DEFINE S == {r}
  <2>1. Queued' = Queued
    BY <1>4, QueuedUnchanged DEF EnqueueClosed
  <2>2. S \in SUBSET Held /\ Held' = Held \ S
    BY <1>4, <2>1 DEF EnqueueClosed, Return, ClosedError
  <2>3. permits' = permits + Cardinality(S)
    BY <1>4, FS_Singleton DEF EnqueueClosed
  <2> QED
    BY <2>2, <2>3
<1>5. ASSUME NEW r \in Requests, GiveUpEarly(r) PROVE Balanced
  <2>1. CASE pc[r] = "sending"
    <3>1. Held' = Held \ {r} /\ r \in Held /\ permits' = permits + 1
      BY <1>5, <2>1, QueuedUnchanged DEF GiveUpEarly, Return
    <3>2. Cardinality({r}) = 1
      BY FS_Singleton
    <3>3. permits' = permits + Cardinality({r})
      BY <3>1, <3>2
    <3> QED
      BY <3>1, <3>3
  <2>2. CASE pc[r] # "sending"
    BY <1>5, <2>2, QueuedUnchanged DEF GiveUpEarly, Return
  <2> QED
    BY <2>1, <2>2
<1>6. ASSUME NEW r \in Requests, TakeReply(r) PROVE Balanced
    BY <1>6, QueuedUnchanged DEF TakeReply, Return, ClosedError
<1>7. ASSUME NEW r \in Requests, Abandon(r) PROVE Balanced
    BY <1>7, QueuedUnchanged DEF Abandon
<1>8. ASSUME NEW r \in Requests, SendCancel(r) PROVE Balanced
  <2>1. Queued' = Queued
    BY <1>0, <1>8, ActionEffect, CancelEnterEffect, QueuedUnchanged
  <2> QED
    BY <1>8, <2>1 DEF SendCancel
<1>9. ASSUME NEW r \in Requests, SkipRequest(r) PROVE Balanced
  <2> DEFINE S == {r}
  <2>1. r \in Queued /\ Queued' = Queued \ {r}
    BY <1>0, <1>9, ActionEffect, LeaveEffect
  <2>2. S \in SUBSET Held /\ Held' = Held \ S
    BY <1>9, <2>1 DEF SkipRequest, Settle, Move
  <2>3. permits' = permits + Cardinality(S)
    BY <1>9 DEF SkipRequest, Settle
  <2> QED
    BY <2>2, <2>3
<1>10. ASSUME NEW r \in Requests, BeginWrite(r) PROVE Balanced
  <2>1. r \in Queued /\ Queued' = Queued \ {r}
    BY <1>0, <1>10, ActionEffect, LeaveEffect
  <2> QED
    BY <1>10, <2>1 DEF BeginWrite, Move
<1>11. ASSUME NEW r \in Requests, CancelPending(r) PROVE Balanced
  <2> DEFINE S == pending \cap {r}
  <2>1. Queued' = Queued
    BY <1>0, <1>11, ActionEffect, LeaveEffect
  <2>2. S \in SUBSET Held /\ Held' = Held \ S
    BY <1>11, <2>1 DEF CancelPending, Settle, Move
  <2>3. permits' = permits + Cardinality(S)
    BY <1>11 DEF CancelPending, Settle
  <2> QED
    BY <2>2, <2>3
<1>12. ASSUME NEW r \in Requests, WriteDone(r) PROVE Balanced
    BY <1>12, QueuedUnchanged DEF WriteDone, Move
<1>13. ASSUME NEW r \in Requests, DispatchRejected(r) PROVE Balanced
  <2> DEFINE S == {r}
  <2>1. Queued' = Queued
    BY <1>13, QueuedUnchanged DEF DispatchRejected
  <2>2. S \in SUBSET Held /\ Held' = Held \ S
    BY <1>13, <2>1 DEF DispatchRejected, Settle, Move
  <2>3. permits' = permits + Cardinality(S)
    BY <1>13 DEF DispatchRejected, Settle
  <2> QED
    BY <2>2, <2>3
<1>14. ASSUME NEW r \in Requests, WriteFails(r) PROVE Balanced
  <2> DEFINE S == {r}
  <2>1. Queued' = Queued
    BY <1>14, QueuedUnchanged DEF WriteFails
  <2>2. S \in SUBSET Held /\ Held' = Held \ S
    BY <1>14, <2>1 DEF WriteFails, Settle, Move
  <2>3. permits' = permits + Cardinality(S)
    BY <1>14 DEF WriteFails, Settle
  <2> QED
    BY <2>2, <2>3
<1>15. ASSUME NEW r \in Requests, Respond(r) PROVE Balanced
  <2> DEFINE S == pending \cap {r}
  <2>1. Queued' = Queued
    BY <1>15, QueuedUnchanged DEF Respond
  <2>2. S \in SUBSET Held /\ Held' = Held \ S
    BY <1>15, <2>1 DEF Respond, Settle, Move
  <2>3. permits' = permits + Cardinality(S)
    BY <1>15 DEF Respond, Settle
  <2> QED
    BY <2>2, <2>3
<1>16. ASSUME Close PROVE Balanced
    BY <1>16, QueuedUnchanged DEF Close
<1>17. ASSUME Purge PROVE Balanced
  <2> DEFINE S == Purged
  <2>1. Queued' = Queued
    BY <1>17, QueuedUnchanged DEF Purge
  <2>2. S \in SUBSET Held /\ Held' = Held \ S
    BY <1>17, <2>1 DEF Purge, Settle, Move, Purged
  <2>3. permits' = permits + Cardinality(S)
    BY <1>17 DEF Purge, Settle, Purged
  <2> QED
    BY <2>2, <2>3
<1>18. ASSUME ExpirePending PROVE Balanced
  <2> DEFINE S == {r \in pending : expired[r]}
  <2>1. Queued' = Queued
    BY <1>18, QueuedUnchanged DEF ExpirePending
  <2>2. S \in SUBSET Held /\ Held' = Held \ S
    BY <1>18, <2>1 DEF ExpirePending, Settle, Move
  <2>3. permits' = permits + Cardinality(S)
    BY <1>18 DEF ExpirePending, Settle
  <2> QED
    BY <2>2, <2>3
<1>19. ASSUME OtherFrame PROVE Balanced
    BY <1>19, QueuedUnchanged DEF OtherFrame, Move
<1>20. ASSUME SocketFails PROVE Balanced
    BY <1>20, QueuedUnchanged DEF SocketFails, Move
<1>21. ASSUME SeeClose PROVE Balanced
    BY <1>21, QueuedUnchanged DEF SeeClose, Move
<1>22. ASSUME DrainPending PROVE Balanced
  <2> DEFINE S == pending
  <2>1. Queued' = Queued
    BY <1>22, QueuedUnchanged DEF DrainPending
  <2>2. S \in SUBSET Held /\ Held' = Held \ S
    BY <1>22, <2>1 DEF DrainPending, Settle, Move, Drained
  <2>3. permits' = permits + Cardinality(S)
    BY <1>22 DEF DrainPending, Settle, Drained
  <2> QED
    BY <2>2, <2>3
<1>23. ASSUME PublishCause PROVE Balanced
    BY <1>23, QueuedUnchanged DEF PublishCause, Move
<1>24. ASSUME DropCommands PROVE Balanced
  <2> DEFINE S == Queued
  <2>1. Queued' = {}
    BY <1>24 DEF DropCommands, Queued
  <2>2. S \in SUBSET Held /\ Held' = Held \ S
    BY <1>24, <2>1 DEF DropCommands, Settle, Move, DropsLast
  <2>3. permits' = permits + Cardinality(S)
    BY <1>24 DEF DropCommands, Settle, DropsLast
  <2> QED
    BY <2>2, <2>3
<1>25. ASSUME UNCHANGED vars PROVE Balanced
    BY <1>25, QueuedUnchanged DEF vars
<1> HIDE DEF TypeOK, SessionInv, Balanced
<1> QED
    BY <1>1, <1>2, <1>3, <1>4, <1>5, <1>6, <1>7, <1>8, <1>9, <1>10, <1>11, <1>12, <1>13,
       <1>14, <1>15, <1>16, <1>17, <1>18, <1>19, <1>20, <1>21, <1>22, <1>23, <1>24,
       <1>25, NextCases

\* Two sets with nothing in common are counted one after the other.
LEMMA DisjointCount ==
    ASSUME NEW S, NEW T, IsFiniteSet(S), IsFiniteSet(T), S \cap T = {}
    PROVE  /\ IsFiniteSet(S \cup T)
           /\ Cardinality(S \cup T) = Cardinality(S) + Cardinality(T)
<1>1. Cardinality(S) \in Nat /\ Cardinality(T) \in Nat /\ Cardinality(S \cap T) = 0
    BY FS_CardinalityType, FS_EmptySet
<1>2. IsFiniteSet(S \cup T)
    BY FS_Union
<1>3. Cardinality(S \cup T) = Cardinality(S) + Cardinality(T) - Cardinality(S \cap T)
    BY FS_Union
<1> QED
    BY <1>1, <1>2, <1>3

\* While requests are in one place only, the holders are counted place by place.
LEMMA HeldCount ==
    ASSUME TypeOK, OnePlace
    PROVE  /\ Held \in SUBSET Requests
           /\ Cardinality(Held) = Cardinality(Sending) + Cardinality(Queued)
                                    + Cardinality(writing) + Cardinality(pending)
           /\ Cardinality(Sending) \in Nat /\ Cardinality(Queued) \in Nat
           /\ Cardinality(writing) \in Nat /\ Cardinality(pending) \in Nat
<1> DEFINE a == Sending \cup Queued
           b == a \cup writing
<1>1. /\ Sending \in SUBSET Requests /\ Queued \in SUBSET Requests
      /\ writing \in SUBSET Requests /\ pending \in SUBSET Requests
    BY QueuedTyped DEF Sending, TypeOK
<1>2. /\ IsFiniteSet(Sending) /\ Cardinality(Sending) \in Nat
      /\ IsFiniteSet(Queued) /\ Cardinality(Queued) \in Nat
      /\ IsFiniteSet(writing) /\ Cardinality(writing) \in Nat
      /\ IsFiniteSet(pending) /\ Cardinality(pending) \in Nat
    BY <1>1, RequestsCount
<1>3. Sending \cap Queued = {} /\ a \cap writing = {} /\ b \cap pending = {}
    BY DEF OnePlace, Sending
<1>4. IsFiniteSet(a) /\ Cardinality(a) = Cardinality(Sending) + Cardinality(Queued)
    BY <1>2, <1>3, DisjointCount
<1>5. Held = b \cup pending
    BY DEF Held
<1> HIDE DEF a
<1>6. IsFiniteSet(b) /\ Cardinality(b) = Cardinality(a) + Cardinality(writing)
    BY <1>2, <1>3, <1>4, DisjointCount
<1> HIDE DEF b
<1>7. Cardinality(Held) = Cardinality(b) + Cardinality(pending)
    BY <1>2, <1>3, <1>5, <1>6, DisjointCount
<1>8. Held \in SUBSET Requests
    BY <1>1 DEF Held
<1> QED
    BY <1>2, <1>4, <1>6, <1>7, <1>8

\* Free permits and holders make up max_in_flight.
Conserved == permits + Cardinality(Held) = max_in_flight

\* A balanced step conserves the permits.
LEMMA ConservedStep ==
    ASSUME TypeOK, SessionInv, [Next]_vars, TypeOK', Conserved
    PROVE  Conserved'
<1> DEFINE n == Cardinality(Held)
           m == Cardinality(Held')
<1>1. Held \in SUBSET Requests
    BY HeldCount DEF SessionInv
<1>2. IsFiniteSet(Held) /\ n \in Nat
    BY <1>1, RequestsCount
<1>3. /\ permits \in Nat /\ permits' \in Nat /\ max_in_flight \in Nat
      /\ permits + n = max_in_flight
    BY DEF Conserved, TypeOK, max_in_flight
<1>4. CASE Held' = Held /\ permits' = permits
    BY <1>4 DEF Conserved
<1>5. ASSUME NEW r \in Requests, r \notin Held, Held' = Held \cup {r}, permits' = permits - 1
      PROVE  Conserved'
  <2>1. m = n + 1
    BY <1>2, <1>5, FS_AddElement
  <2> HIDE DEF n, m
  <2>2. permits' + m = max_in_flight
    BY <1>2, <1>3, <1>5, <2>1
  <2> QED
    BY <2>2 DEF m, Conserved
<1>6. ASSUME NEW S \in SUBSET Held, Held' = Held \ S, permits' = permits + Cardinality(S)
      PROVE  Conserved'
  <2>1. Held \cap S = S
    OBVIOUS
  <2>2. Cardinality(S) \in Nat
    BY <1>1, RequestsCount
  <2>3. m = n - Cardinality(S)
    BY <1>2, <1>6, <2>1, FS_Difference, ZenonT(40)
  <2> HIDE DEF n, m
  <2>4. permits' + m = max_in_flight
    <3>1. ASSUME NEW p \in Nat, NEW k \in Nat, NEW c \in Nat
          PROVE  (p + c) + (k - c) = p + k
      OBVIOUS
    <3> QED
      BY <1>2, <1>3, <1>6, <2>2, <2>3, <3>1, Zenon
  <2> QED
    BY <2>4 DEF m, Conserved
<1> QED
    BY <1>4, <1>5, <1>6, BalancedStep DEF Balanced

\* The channel never takes more than its capacity: only Enqueue and SendCancel
\* put something in, and both look for room first.
LEMMA CapacityStep ==
    ASSUME TypeOK, SessionInv, Len(commands) <= max_in_flight, [Next]_vars
    PROVE  Len(commands') <= max_in_flight
<1>0. /\ max_in_flight \in Nat
      /\ commands \in Seq(GatewayCommand)
      /\ Len(commands) \in Nat
      /\ SessionInv => QueuedOnce
    BY ChannelTyped DEF max_in_flight, SessionInv, TypeOK
<1>1. ASSUME NEW r \in Requests, Enqueue(r) \/ SendCancel(r)
      PROVE  Len(commands') <= max_in_flight
    BY <1>0, <1>1, CommandsDiffer, ChannelSend DEF Enqueue, SendCancel, HasRoom
<1>2. ASSUME NEW r \in Requests, SkipRequest(r) \/ BeginWrite(r) \/ CancelPending(r)
      PROVE  Len(commands') <= max_in_flight
  <2>1. Len(commands') <= Len(commands) /\ commands' \in Seq(GatewayCommand)
    BY <1>0, <1>2, ActionEffect, LeaveEffect
  <2> QED
    BY <1>0, <2>1
<1>3. ASSUME commands' = commands \/ commands' = <<>> PROVE Len(commands') <= max_in_flight
    BY <1>0, <1>3
<1> QED
  <2> USE DEF callerVars, taskVars
  <2>1. ASSUME NEW r \in Requests,
               \/ DeadlinePasses(r) \/ Acquire(r) \/ EnqueueClosed(r) \/ GiveUpEarly(r)
               \/ TakeReply(r) \/ Abandon(r) \/ WriteDone(r) \/ DispatchRejected(r)
               \/ WriteFails(r) \/ Respond(r)
        PROVE  commands' = commands
    BY <2>1 DEF DeadlinePasses, Acquire, EnqueueClosed, GiveUpEarly, TakeReply, Abandon,
                WriteDone, DispatchRejected, WriteFails, Respond
  <2>2. ASSUME \/ Close \/ Purge \/ ExpirePending \/ OtherFrame \/ SocketFails \/ SeeClose
               \/ DrainPending \/ PublishCause \/ DropCommands \/ UNCHANGED vars
        PROVE  commands' = commands \/ commands' = <<>>
    BY <2>2 DEF Close, Purge, ExpirePending, OtherFrame, SocketFails, SeeClose,
                DrainPending, PublishCause, DropCommands, vars
  <2> QED
    BY <1>1, <1>2, <1>3, <2>1, <2>2, NextCases

-----------------------------------------------------------------------------
(* The theorems.                                                           *)

\* Types, places, causes and permits are as they should be in every reachable
\* state.
THEOREM SessionInvariant ==
    Spec => [](TypeOK /\ SessionInv /\ Conserved /\ Len(commands) <= max_in_flight)
<1>1. Init => TypeOK /\ SessionInv /\ Conserved /\ Len(commands) <= max_in_flight
  <2> SUFFICES ASSUME Init
               PROVE  TypeOK /\ SessionInv /\ Conserved /\ Len(commands) <= max_in_flight
    OBVIOUS
  <2>1. max_in_flight \in Nat
    BY DEF max_in_flight
  <2>2. TypeOK
    <3>1. commands \in Seq([kind : {"request", "cancel"}, r : Requests])
      BY DEF Init
    <3> QED
      BY <2>1, <3>1 DEF Init, TypeOK
  <2>3. Queued = {} /\ Len(commands) = 0
    BY DEF Init, Queued
  <2>4. SessionInv
    BY <2>3 DEF Init, SessionInv, OnePlace, QueuedOnce, OneWrite, CancelsFlagged,
                LossExplained, CauseIsKnown, NoCallerForgotten
  <2>5. Held = {}
    BY <2>3 DEF Init, Held, Sending
  <2>6. Conserved
    BY <2>1, <2>5, FS_EmptySet DEF Init, Conserved
  <2> QED
    BY <2>1, <2>2, <2>3, <2>4, <2>6
<1>2. /\ TypeOK /\ SessionInv /\ Conserved /\ Len(commands) <= max_in_flight /\ [Next]_vars
      => (TypeOK /\ SessionInv /\ Conserved /\ Len(commands) <= max_in_flight)'
  <2> SUFFICES ASSUME TypeOK, SessionInv, Conserved, Len(commands) <= max_in_flight, [Next]_vars
               PROVE  (TypeOK /\ SessionInv /\ Conserved /\ Len(commands) <= max_in_flight)'
    OBVIOUS
  <2>1. TypeOK'
    BY TypeStep
  <2>2. SessionInv'
    BY <2>1, InvariantStep
  <2>3. Conserved'
    BY <2>1, ConservedStep
  <2>4. Len(commands') <= max_in_flight
    BY CapacityStep
  <2> QED
    BY <2>1, <2>2, <2>3, <2>4 DEF max_in_flight
<1> QED
    BY <1>1, <1>2, PTL DEF Spec

\* The semaphore of request_inner is honest: whatever callers time out, are
\* dropped or cancel, and however the session ends, permits and the requests in
\* flight add up to max_in_flight, and the command channel keeps to it as well.
THEOREM InFlightIsBounded == Spec => []InFlightBounded
<1>1. TypeOK /\ SessionInv /\ Conserved /\ Len(commands) <= max_in_flight => InFlightBounded
  <2> SUFFICES ASSUME TypeOK, SessionInv, Conserved, Len(commands) <= max_in_flight
               PROVE  InFlightBounded
    OBVIOUS
  <2>1. permits \in Nat
    BY DEF TypeOK
  <2> QED
    BY <2>1, HeldCount DEF SessionInv, Conserved, InFlightBounded, Sending
<1> QED
    BY <1>1, SessionInvariant, PTL

\* run_session publishes the close cause before it drops anything a caller may
\* still be waiting for, so no caller is told a cause it cannot name.
THEOREM CauseIsAlwaysKnown == Spec => []CauseIsKnown
    BY SessionInvariant, PTL DEF SessionInv

\* However requests time out, are cancelled, answered or drained, a caller that
\* waits is still in the session's tables or has its reply.
THEOREM NoCallerIsForgotten == Spec => []NoCallerForgotten
    BY SessionInvariant, PTL DEF SessionInv
=============================================================================
