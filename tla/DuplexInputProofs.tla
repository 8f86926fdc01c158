------------------------- MODULE DuplexInputProofs --------------------------
(***************************************************************************)
(* Proofs about DuplexInput for every limit, every set of payload lengths  *)
(* and sequence numbers, and any number of receivers.                      *)
(***************************************************************************)
EXTENDS DuplexInput, TLAPS

-----------------------------------------------------------------------------
(* The inductive invariant.                                                *)

\* The byte counter is the sum of the queued lengths: some table of running
\* totals starts at nothing and ends at buffered_bytes.
Totals(total, q, bytes) ==
    /\ total \in [0 .. Len(q) -> Nat]
    /\ total[0] = 0
    /\ total[Len(q)] = bytes
    /\ \A k \in 1 .. Len(q) : total[k] = total[k - 1] + q[k].len
    /\ \A j, k \in 0 .. Len(q) : j <= k => total[j] <= total[k]

Ledger == \E total \in [0 .. Len(queue) -> Nat] : Totals(total, queue, buffered_bytes)

\* a may come before b: below it, or at the number where next_seq saturates.
Before(a, b) == a < b \/ a = SeqMax

\* What was handed out precedes what is queued, and both precede whatever push
\* will still accept.
InSequence ==
    /\ \A i, j \in 1 .. Len(queue) : i < j => Before(queue[i].seq, queue[j].seq)
    /\ \A i \in 1 .. Len(taken) :
          /\ \A j \in 1 .. Len(queue) : Before(taken[i], queue[j].seq)
          /\ Before(taken[i], next_seq)
    /\ \A j \in 1 .. Len(queue) : Before(queue[j].seq, next_seq)

\* A future that was created before the buffer was closed has been woken.
CloseIsSeen == closed => \A r \in Receivers : rpc[r] \in {"checked", "parked"} => woken[r]

InputInv ==
    /\ Ledger
    /\ InputBounded
    /\ InSequence
    /\ InputInOrder
    /\ CloseIsSeen

\* With one receiver, a payload beside a receiver that has seen the queue empty
\* comes with a stored permit or a fired future.
PayloadIsSeen ==
    \A r \in Receivers :
        queue # <<>> =>
            /\ rpc[r] = "checked" => permit \/ woken[r]
            /\ rpc[r] = "parked" => woken[r]

USE SizesAssumption, SeqsAssumption, MainAssumption, MaxPushesAssumption

-----------------------------------------------------------------------------
(* The byte counter.                                                       *)

\* push adds the length of the payload it appends (InputBuffer::push).
LEMMA PushKeepsLedger ==
    ASSUME NEW T, \A e \in T : e.len \in Nat,
           NEW q \in Seq(T), NEW x \in T, NEW total,
           NEW bytes \in Nat, Totals(total, q, bytes)
    PROVE  \E next \in [0 .. Len(Append(q, x)) -> Nat] :
              Totals(next, Append(q, x), bytes + x.len)
<1> DEFINE n == Len(q)
           p == Append(q, x)
           next == [k \in 0 .. n + 1 |-> IF k <= n THEN total[k] ELSE total[n] + x.len]
<1>1. n \in Nat /\ Len(p) = n + 1
    OBVIOUS
<1>2. /\ \A k \in 1 .. n : p[k] = q[k]
      /\ p[n + 1] = x
    OBVIOUS
<1>3. x.len \in Nat /\ total \in [0 .. n -> Nat]
    BY DEF Totals
<1>4. next \in [0 .. n + 1 -> Nat]
    BY <1>1, <1>3
<1>5. next[0] = 0 /\ next[n + 1] = bytes + x.len
    BY <1>1, <1>3 DEF Totals
<1>6. \A k \in 1 .. n + 1 : next[k] = next[k - 1] + p[k].len
    BY <1>1, <1>2, <1>3 DEF Totals
<1>7. \A j, k \in 0 .. n + 1 : j <= k => next[j] <= next[k]
    BY <1>1, <1>3, SMTT(30) DEF Totals
<1> HIDE DEF next, n, p
<1>8. Totals(next, p, bytes + x.len)
    BY <1>1, <1>4, <1>5, <1>6, <1>7 DEF Totals
<1> QED
    BY <1>1, <1>4, <1>8 DEF p

\* recv subtracts the length of the payload it removes, and so never goes
\* below zero (InputBuffer::recv).
LEMMA TakeKeepsLedger ==
    ASSUME NEW T, \A e \in T : e.len \in Nat,
           NEW q \in Seq(T), q # <<>>, NEW total,
           NEW bytes \in Nat, Totals(total, q, bytes)
    PROVE  /\ bytes - Head(q).len \in 0 .. bytes
           /\ \E next \in [0 .. Len(Tail(q)) -> Nat] :
                 Totals(next, Tail(q), bytes - Head(q).len)
<1> DEFINE n == Len(q)
           p == Tail(q)
           next == [k \in 0 .. n - 1 |-> total[k + 1] - total[1]]
<1>1. n \in Nat \ {0} /\ Len(p) = n - 1
    OBVIOUS
<1>2. \A k \in 1 .. n - 1 : p[k] = q[k + 1]
    OBVIOUS
<1>3. Head(q) = q[1] /\ \A k \in 1 .. n : q[k] \in T /\ q[k].len \in Nat
    BY <1>1
<1>4. q[1].len \in Nat /\ total \in [0 .. n -> Nat]
    BY <1>3 DEF Totals
<1>5. total[1] = Head(q).len
    BY <1>1, <1>4, <1>3 DEF Totals
<1>6. \A k \in 0 .. n - 1 : total[1] <= total[k + 1]
    BY <1>1, <1>4 DEF Totals
<1>7. \A k \in 0 .. n - 1 : total[k + 1] \in Nat /\ total[1] \in Nat
    BY <1>1, <1>4
<1>8. next \in [0 .. n - 1 -> Nat]
  <2>1. \A k \in 0 .. n - 1 : total[k + 1] - total[1] \in Nat
    BY <1>6, <1>7
  <2> QED
    BY <2>1
<1>9. next[0] = 0 /\ next[n - 1] = bytes - Head(q).len
    BY <1>1, <1>4, <1>5 DEF Totals
<1>10. \A k \in 1 .. n - 1 : total[k + 1] = total[k] + q[k + 1].len
    BY <1>1, <1>4 DEF Totals
<1>11. \A k \in 1 .. n - 1 : k + 1 \in 1 .. n /\ k - 1 \in 0 .. n - 1 /\ (k - 1) + 1 = k
    BY <1>1
<1>12. \A k \in 1 .. n - 1 : next[k] = next[k - 1] + p[k].len
  <2> SUFFICES ASSUME NEW k \in 1 .. n - 1
               PROVE  next[k] = next[k - 1] + p[k].len
    OBVIOUS
  <2>1. next[k] = total[k + 1] - total[1] /\ next[k - 1] = total[k] - total[1]
    BY <1>1, <1>11
  <2>2. total[k + 1] = total[k] + p[k].len /\ p[k].len \in Nat
    BY <1>1, <1>2, <1>10, <1>3, <1>11
  <2>3. total[k] \in Nat /\ total[1] \in Nat
    BY <1>1, <1>4
  <2> QED
    BY <2>1, <2>2, <2>3
<1>13. \A j, k \in 0 .. n - 1 : j <= k => next[j] <= next[k]
  <2> SUFFICES ASSUME NEW j \in 0 .. n - 1, NEW k \in 0 .. n - 1, j <= k
               PROVE  next[j] <= next[k]
    OBVIOUS
  <2>1. total[j + 1] <= total[k + 1]
    BY <1>1 DEF Totals
  <2> QED
    BY <2>1, <1>1, <1>4, SMTT(30)
<1> HIDE DEF next, n, p
<1>14. Totals(next, p, bytes - Head(q).len)
    BY <1>1, <1>8, <1>9, <1>12, <1>13 DEF Totals
<1>15. bytes - Head(q).len \in 0 .. bytes
    BY <1>1, <1>4, <1>8, <1>9, <1>3
<1> QED
    BY <1>1, <1>8, <1>14, <1>15 DEF p

-----------------------------------------------------------------------------
(* Type correctness and the invariant.                                     *)

\* The disjuncts of Next, as the steps below take them up one by one.
LEMMA NextCases ==
    ASSUME Next
    PROVE  \/ \E seq \in Seqs, len \in Sizes : PushAccepted(seq, len)
           \/ \E seq \in Seqs, len \in Sizes : PushOverflow(seq, len)
           \/ FlagOverflow \/ RouteCancel
           \/ \E r \in Receivers : Arm(r)
           \/ \E r \in Receivers : Take(r)
           \/ \E r \in Receivers : SeeEnd(r)
           \/ \E r \in Receivers : SeeEmpty(r)
           \/ \E r \in Receivers : Await(r)
           \/ PollOverflow \/ PollHandler \/ HandlerPends \/ HandlerReturns \/ HandlerTimeout
    BY DEF Next, Recv

\* What recv hands out is queued, so it has a sequence number and a length.
LEMMA QueuedPayload ==
    ASSUME TypeOK, queue # <<>>
    PROVE  /\ Len(queue) \in Nat \ {0}
           /\ Head(queue) = queue[1]
           /\ \A k \in 1 .. Len(queue) : /\ queue[k] \in [seq : Seqs, len : Sizes]
                                         /\ queue[k].seq \in Seqs
                                         /\ queue[k].len \in Sizes
           /\ Tail(queue) \in Seq([seq : Seqs, len : Sizes])
           /\ Len(Tail(queue)) = Len(queue) - 1
           /\ \A k \in 1 .. Len(queue) - 1 : Tail(queue)[k] = queue[k + 1]
<1> DEFINE T == [seq : Seqs, len : Sizes]
<1>1. queue \in Seq(T)
    BY DEF TypeOK
<1>2. \A x \in T : x.seq \in Seqs /\ x.len \in Sizes
    OBVIOUS
<1> HIDE DEF T
<1>3. Len(queue) \in Nat \ {0} /\ \A k \in 1 .. Len(queue) : queue[k] \in T
    BY <1>1
<1>4. Head(queue) = queue[1]
    BY <1>1, <1>3
<1>5. /\ Tail(queue) \in Seq(T)
      /\ Len(Tail(queue)) = Len(queue) - 1
      /\ \A k \in 1 .. Len(queue) - 1 : Tail(queue)[k] = queue[k + 1]
    BY <1>1, <1>3
<1> QED
    BY <1>2, <1>3, <1>4, <1>5 DEF T

\* Every step keeps the types; only Take needs the ledger, to stay above zero.
LEMMA TypeStep ==
    ASSUME TypeOK, Ledger, [Next]_vars
    PROVE  TypeOK'
<1> USE DEF TypeOK, NotifyOne, NotifyWaiters, Parked, CloseLocked, bufferVars, notifyVars,
            handlerVars
<1>1. ASSUME NEW seq \in Seqs, NEW len \in Sizes, PushAccepted(seq, len) PROVE TypeOK'
  <2>1. [seq |-> seq, len |-> len] \in [seq : Seqs, len : Sizes]
    OBVIOUS
  <2>2. queue' \in Seq([seq : Seqs, len : Sizes])
    BY <1>1, <2>1 DEF PushAccepted
  <2>3. next_seq' \in 0 .. SeqMax /\ buffered_bytes' \in Nat /\ pushes' \in 0 .. MaxPushes
    BY <1>1 DEF PushAccepted, NextSeq
  <2> QED
    BY <1>1, <2>2, <2>3 DEF PushAccepted
<1>2. ASSUME NEW seq \in Seqs, NEW len \in Sizes, PushOverflow(seq, len) PROVE TypeOK'
    BY <1>2 DEF PushOverflow, NextSeq
<1>3. CASE FlagOverflow
    BY <1>3 DEF FlagOverflow
<1>4. CASE RouteCancel
    BY <1>4 DEF RouteCancel
<1>5. ASSUME NEW r \in Receivers, Arm(r) PROVE TypeOK'
    BY <1>5 DEF Arm
<1>6. ASSUME NEW r \in Receivers, Take(r) PROVE TypeOK'
  <2>1. /\ queue # <<>>
        /\ buffered_bytes' = buffered_bytes - Head(queue).len
        /\ queue' = Tail(queue)
        /\ taken' = Append(taken, Head(queue).seq)
    BY <1>6 DEF Take
  <2>2. \A e \in [seq : Seqs, len : Sizes] : e.len \in Nat
    OBVIOUS
  <2>3. buffered_bytes' \in 0 .. buffered_bytes
    BY <2>1, <2>2, TakeKeepsLedger DEF Ledger
  <2>4. queue' \in Seq([seq : Seqs, len : Sizes]) /\ taken' \in Seq(Seqs)
    BY <2>1, QueuedPayload
  <2> QED
    BY <1>6, <2>3, <2>4 DEF Take
<1>7. ASSUME NEW r \in Receivers, SeeEnd(r) PROVE TypeOK'
    BY <1>7 DEF SeeEnd
<1>8. ASSUME NEW r \in Receivers, SeeEmpty(r) PROVE TypeOK'
    BY <1>8 DEF SeeEmpty
<1>9. ASSUME NEW r \in Receivers, Await(r) PROVE TypeOK'
    BY <1>9, ZenonT(40) DEF Await, ReadyAtOnce
<1>10. CASE PollOverflow \/ PollHandler \/ HandlerPends \/ HandlerReturns \/ HandlerTimeout
    BY <1>10, ZenonT(40) DEF PollOverflow, PollHandler, HandlerPends, HandlerReturns, HandlerTimeout
<1>11. CASE UNCHANGED vars
    BY <1>11 DEF vars
<1> HIDE DEF TypeOK
<1> QED
    BY <1>1, <1>2, <1>3, <1>4, <1>5, <1>6, <1>7, <1>8, <1>9, <1>10, <1>11, NextCases

\* The byte counter: every step leaves it alone, or adds, removes or drops
\* together with the queue.
LEMMA LedgerStep ==
    ASSUME TypeOK, Ledger, InputBounded, [Next]_vars
    PROVE  Ledger' /\ InputBounded'
<1> DEFINE T == [seq : Seqs, len : Sizes]
<1>1. \A e \in T : e.len \in Nat
    OBVIOUS
<1>2. PICK total \in [0 .. Len(queue) -> Nat] : Totals(total, queue, buffered_bytes)
    BY DEF Ledger
<1>3. ASSUME NEW seq \in Seqs, NEW len \in Sizes, PushAccepted(seq, len)
      PROVE  Ledger' /\ InputBounded'
  <2> DEFINE x == [seq |-> seq, len |-> len]
  <2>1. x \in T /\ x.len = len
    OBVIOUS
  <2>2. queue' = Append(queue, x) /\ buffered_bytes' = buffered_bytes + x.len
    BY <1>3 DEF PushAccepted
  <2>3. Ledger'
    BY <1>1, <1>2, <2>1, <2>2, PushKeepsLedger DEF Ledger, TypeOK
  <2>4. queue \in Seq(T)
    BY DEF TypeOK
  <2>5. queue' # <<>>
    <3> HIDE DEF T, x
    <3> QED
      BY <2>1, <2>2, <2>4
  <2> QED
    BY <1>3, <2>3, <2>5 DEF PushAccepted, Fits, InputBounded
<1>4. ASSUME CloseLocked PROVE Ledger' /\ InputBounded'
  <2> DEFINE none == [k \in 0 .. 0 |-> 0]
  <2>1. Totals(none, <<>>, 0)
    BY DEF Totals
  <2>2. Len(queue') = 0 /\ none \in [0 .. 0 -> Nat]
    BY <1>4 DEF CloseLocked
  <2>3. Ledger'
    BY <1>4, <2>1, <2>2 DEF Ledger, CloseLocked
  <2> QED
    BY <1>4, <2>3 DEF CloseLocked, InputBounded
<1>5. ASSUME NEW r \in Receivers, Take(r) PROVE Ledger' /\ InputBounded'
  <2>1. /\ queue # <<>>
        /\ buffered_bytes' = buffered_bytes - Head(queue).len
        /\ queue' = Tail(queue)
        /\ closed' = closed
    BY <1>5 DEF Take
  <2>2. /\ buffered_bytes' \in 0 .. buffered_bytes
        /\ Ledger'
    BY <1>1, <1>2, <2>1, TakeKeepsLedger DEF Ledger, TypeOK
  <2>3. queue' = <<>> => buffered_bytes' = 0
    BY <2>2 DEF Ledger, Totals
  <2> QED
    BY <2>1, <2>2, <2>3 DEF InputBounded, TypeOK
<1>6. ASSUME UNCHANGED <<queue, buffered_bytes, closed>> PROVE Ledger' /\ InputBounded'
    BY <1>6 DEF Ledger, InputBounded
<1> QED
  <2> USE DEF bufferVars
  <2>1. ASSUME NEW seq \in Seqs, NEW len \in Sizes, PushOverflow(seq, len) PROVE CloseLocked
    BY <2>1 DEF PushOverflow
  <2>2. RouteCancel => CloseLocked
    BY DEF RouteCancel
  <2>3. ASSUME NEW r \in Receivers, Arm(r) \/ SeeEnd(r) \/ SeeEmpty(r) \/ Await(r)
        PROVE  UNCHANGED <<queue, buffered_bytes, closed>>
    BY <2>3 DEF Arm, SeeEnd, SeeEmpty, Await
  <2>4. ASSUME \/ FlagOverflow \/ PollOverflow \/ PollHandler \/ HandlerPends
               \/ HandlerReturns \/ HandlerTimeout \/ UNCHANGED vars
        PROVE  UNCHANGED <<queue, buffered_bytes, closed>>
    BY <2>4 DEF FlagOverflow, PollOverflow, PollHandler, HandlerPends, HandlerReturns,
                HandlerTimeout, vars
  <2> QED
    BY <1>3, <1>4, <1>5, <1>6, <2>1, <2>2, <2>3, <2>4, NextCases

\* The sequence numbers: push appends one that follows all of them, Take moves
\* the first one over, and the rest drop the queue or leave it alone.
LEMMA SequenceStep ==
    ASSUME TypeOK, InSequence, InputInOrder, [Next]_vars
    PROVE  InSequence' /\ InputInOrder'
<1>1. ASSUME NEW seq \in Seqs, NEW len \in Sizes, PushAccepted(seq, len)
      PROVE  InSequence' /\ InputInOrder'
  <2> DEFINE x == [seq |-> seq, len |-> len]
             n == Len(queue)
  <2>1. queue' = Append(queue, x) /\ x.seq = seq /\ taken' = taken /\ next_seq' = NextSeq(seq)
    BY <1>1 DEF PushAccepted
  <2>2. /\ n \in Nat /\ Len(queue') = n + 1
        /\ \A k \in 1 .. n : queue'[k] = queue[k]
        /\ queue'[n + 1].seq = seq
    BY <2>1 DEF TypeOK
  <2>3. \A a \in Seqs : Before(a, next_seq) => Before(a, seq) /\ Before(a, next_seq')
    BY <1>1, <2>1 DEF PushAccepted, Accepts, NextSeq, Before, TypeOK
  <2>4. Before(seq, next_seq')
    BY <2>1 DEF NextSeq, Before
  <2>5. /\ \A i \in 1 .. n : queue[i].seq \in Seqs
        /\ \A i \in 1 .. Len(taken) : taken[i] \in Seqs
    BY QueuedPayload DEF TypeOK
  <2>6. \A j \in 1 .. Len(queue') : j \in 1 .. n \/ j = n + 1
    BY <2>2
  <2> HIDE DEF x, n
  <2>7. InSequence'
    <3>1. /\ \A i \in 1 .. n : Before(queue[i].seq, seq) /\ Before(queue[i].seq, next_seq')
          /\ \A i \in 1 .. Len(taken) : Before(taken[i], seq) /\ Before(taken[i], next_seq')
      BY <2>3, <2>5 DEF InSequence, n
    <3>2. \A i, j \in 1 .. n + 1 : i < j => Before(queue'[i].seq, queue'[j].seq)
      BY <2>2, <3>1 DEF InSequence, n
    <3>3. \A j \in 1 .. n + 1 :
            /\ Before(queue'[j].seq, next_seq')
            /\ \A i \in 1 .. Len(taken) : Before(taken[i], queue'[j].seq)
      BY <2>2, <2>4, <2>6, <3>1 DEF InSequence, n
    <3> QED
      BY <2>1, <2>2, <3>1, <3>2, <3>3 DEF InSequence
  <2> QED
    BY <2>1, <2>7 DEF InputInOrder
<1>2. ASSUME NEW r \in Receivers, Take(r) PROVE InSequence' /\ InputInOrder'
  <2> DEFINE n == Len(queue)
             m == Len(taken)
  <2>1. /\ queue # <<>>
        /\ queue' = Tail(queue)
        /\ taken' = Append(taken, Head(queue).seq)
        /\ next_seq' = next_seq
    BY <1>2 DEF Take
  <2>2. /\ n \in Nat \ {0} /\ Len(queue') = n - 1
        /\ \A k \in 1 .. n - 1 : queue'[k] = queue[k + 1] /\ k + 1 \in 1 .. n
    BY <2>1, QueuedPayload
  <2>3. /\ m \in Nat /\ Len(taken') = m + 1
        /\ \A k \in 1 .. m : taken'[k] = taken[k]
        /\ taken'[m + 1] = queue[1].seq
    BY <2>1, QueuedPayload DEF TypeOK
  <2>4. \A j \in 1 .. Len(taken') : j \in 1 .. m \/ j = m + 1
    BY <2>3
  <2> HIDE DEF m
  <2>5. InSequence'
    BY <2>1, <2>2, <2>3, <2>4 DEF InSequence, m
  <2>6. \A i \in 1 .. m : Before(taken[i], queue[1].seq)
    BY <2>2 DEF InSequence, m
  <2>7. InputInOrder'
    BY <2>3, <2>4, <2>6 DEF InputInOrder, Before, m
  <2> QED
    BY <2>5, <2>7
<1>3. ASSUME NEW seq \in Seqs, NEW len \in Sizes, PushOverflow(seq, len)
      PROVE  InSequence' /\ InputInOrder'
  <2>1. \A a \in Seqs : Before(a, next_seq) => Before(a, next_seq')
    BY <1>3 DEF PushOverflow, Accepts, NextSeq, Before, TypeOK
  <2>2. \A i \in 1 .. Len(taken) : taken[i] \in Seqs
    BY DEF TypeOK
  <2>3. Len(queue') = 0 /\ taken' = taken
    BY <1>3 DEF PushOverflow, CloseLocked
  <2>4. \A i \in 1 .. Len(taken) : Before(taken[i], next_seq')
    BY <2>1, <2>2 DEF InSequence
  <2> QED
    BY <2>3, <2>4 DEF InSequence, InputInOrder
<1>4. ASSUME queue' = queue \/ queue' = <<>>, UNCHANGED <<taken, next_seq>>
      PROVE  InSequence' /\ InputInOrder'
    BY <1>4 DEF InSequence, InputInOrder
<1> QED
  <2> USE DEF bufferVars
  <2>1. ASSUME NEW r \in Receivers, Arm(r) \/ SeeEnd(r) \/ SeeEmpty(r) \/ Await(r)
        PROVE  UNCHANGED <<queue, taken, next_seq>>
    BY <2>1 DEF Arm, SeeEnd, SeeEmpty, Await
  <2>2. ASSUME \/ FlagOverflow \/ PollOverflow \/ PollHandler \/ HandlerPends
               \/ HandlerReturns \/ HandlerTimeout \/ UNCHANGED vars
        PROVE  UNCHANGED <<queue, taken, next_seq>>
    BY <2>2 DEF FlagOverflow, PollOverflow, PollHandler, HandlerPends, HandlerReturns,
                HandlerTimeout, vars
  <2>3. RouteCancel => queue' = <<>> /\ UNCHANGED <<taken, next_seq>>
    BY DEF RouteCancel, CloseLocked
  <2> QED
    BY <1>1, <1>2, <1>3, <1>4, <2>1, <2>2, <2>3, NextCases

\* The futures: whoever closes wakes every future that exists, and a receiver
\* that finds the buffer closed does not wait.
LEMMA CloseIsSeenStep ==
    ASSUME TypeOK, CloseIsSeen, [Next]_vars
    PROVE  CloseIsSeen'
<1> USE DEF TypeOK, CloseIsSeen, CloseLocked, NotifyOne, NotifyWaiters, Parked, bufferVars,
            notifyVars, handlerVars
<1>1. ASSUME NEW seq \in Seqs, NEW len \in Sizes,
             PushAccepted(seq, len) \/ PushOverflow(seq, len)
      PROVE  CloseIsSeen'
    BY <1>1 DEF PushAccepted, PushOverflow
<1>2. CASE RouteCancel
    BY <1>2 DEF RouteCancel
<1>3. ASSUME NEW r \in Receivers, Arm(r) \/ Take(r) PROVE CloseIsSeen'
    BY <1>3 DEF Arm, Take
<1>4. ASSUME NEW r \in Receivers, SeeEnd(r) \/ SeeEmpty(r) PROVE CloseIsSeen'
    BY <1>4 DEF SeeEnd, SeeEmpty
<1>5. ASSUME NEW r \in Receivers, Await(r) PROVE CloseIsSeen'
    BY <1>5 DEF Await, ReadyAtOnce
<1>6. ASSUME \/ FlagOverflow \/ PollOverflow \/ PollHandler \/ HandlerPends
             \/ HandlerReturns \/ HandlerTimeout \/ UNCHANGED vars
      PROVE  CloseIsSeen'
    BY <1>6 DEF FlagOverflow, PollOverflow, PollHandler, HandlerPends, HandlerReturns,
                HandlerTimeout, vars
<1> HIDE DEF CloseIsSeen
<1> QED
    BY <1>1, <1>2, <1>3, <1>4, <1>5, <1>6, NextCases

\* With one receiver, the payload that push queues beside a receiver that has
\* seen the queue empty is announced, and only that receiver uses the permit.
LEMMA PayloadIsSeenStep ==
    ASSUME Receivers = {Main}, TypeOK, InputBounded, CloseIsSeen, PayloadIsSeen, [Next]_vars
    PROVE  PayloadIsSeen'
<1> USE DEF TypeOK, PayloadIsSeen, CloseLocked, NotifyOne, NotifyWaiters, Parked, bufferVars,
            notifyVars, handlerVars
<1>1. ASSUME NEW seq \in Seqs, NEW len \in Sizes,
             PushAccepted(seq, len) \/ PushOverflow(seq, len)
      PROVE  PayloadIsSeen'
    BY <1>1 DEF PushAccepted, PushOverflow
<1>2. CASE RouteCancel
    BY <1>2 DEF RouteCancel
<1>3. ASSUME NEW r \in Receivers, Arm(r) \/ Take(r) PROVE PayloadIsSeen'
    BY <1>3 DEF Arm, Take
<1>4. ASSUME NEW r \in Receivers, SeeEnd(r) \/ SeeEmpty(r) PROVE PayloadIsSeen'
    BY <1>4 DEF SeeEnd, SeeEmpty
<1>5. ASSUME NEW r \in Receivers, Await(r) PROVE PayloadIsSeen'
    BY <1>5 DEF Await, ReadyAtOnce
<1>6. ASSUME \/ FlagOverflow \/ PollOverflow \/ PollHandler \/ HandlerPends
             \/ HandlerReturns \/ HandlerTimeout \/ UNCHANGED vars
      PROVE  PayloadIsSeen'
    BY <1>6 DEF FlagOverflow, PollOverflow, PollHandler, HandlerPends, HandlerReturns,
                HandlerTimeout, vars
<1> HIDE DEF PayloadIsSeen
<1> QED
    BY <1>1, <1>2, <1>3, <1>4, <1>5, <1>6, NextCases

-----------------------------------------------------------------------------
(* The theorems.                                                           *)

\* Types and the inductive invariant hold in every reachable state.
THEOREM InputInvariant == Spec => [](TypeOK /\ InputInv)
<1>1. Init => TypeOK /\ InputInv
  <2> SUFFICES ASSUME Init PROVE TypeOK /\ InputInv
    OBVIOUS
  <2>1. TypeOK
    <3>1. queue \in Seq([seq : Seqs, len : Sizes]) /\ taken \in Seq(Seqs)
      BY DEF Init
    <3>2. next_seq \in 0 .. SeqMax /\ buffered_bytes \in Nat /\ pushes \in 0 .. MaxPushes
      BY DEF Init
    <3>3. /\ rpc \in [Receivers -> {"idle", "armed", "checked", "parked"}]
          /\ woken \in [Receivers -> BOOLEAN]
      BY DEF Init
    <3> QED
      BY <3>1, <3>2, <3>3, Zenon DEF Init, TypeOK
  <2> DEFINE none == [k \in 0 .. 0 |-> 0]
  <2>2. none \in [0 .. Len(queue) -> Nat] /\ Totals(none, queue, buffered_bytes)
    BY DEF Init, Totals
  <2>3. Ledger
    BY <2>2 DEF Ledger
  <2>4. InputBounded /\ InSequence /\ InputInOrder /\ CloseIsSeen
    BY DEF Init, InputBounded, InSequence, InputInOrder, CloseIsSeen
  <2> QED
    BY <2>1, <2>3, <2>4 DEF InputInv
<1>2. TypeOK /\ InputInv /\ [Next]_vars => (TypeOK /\ InputInv)'
    BY TypeStep, LedgerStep, SequenceStep, CloseIsSeenStep DEF InputInv
<1> QED
    BY <1>1, <1>2, PTL DEF Spec

\* However push and recv interleave, and with any number of receivers, the
\* bytes waiting stay within maximum_bytes, the subtraction in recv does not
\* underflow, and a closed or drained buffer accounts for nothing.
THEOREM InputIsBounded == Spec => []InputBounded
    BY InputInvariant, PTL DEF InputInv

\* Whatever sequence numbers arrive, in whatever order and however often, the
\* receivers together are handed strictly increasing ones, up to the number
\* where saturating_add stops.
THEOREM InputIsInOrder == Spec => []InputInOrder
    BY InputInvariant, PTL DEF InputInv

\* No receiver sleeps through a close, and the one receiver of a handler that
\* does not clone its InvocationIo does not sleep beside a queued payload
\* either: a parked receiver whose future has not fired has nothing to receive.
THEOREM ParkedReceiverHasNothing ==
    ASSUME Receivers = {Main}
    PROVE  Spec => [](\A r \in Receivers :
                         rpc[r] = "parked" /\ ~woken[r] => queue = <<>> /\ ~closed)
<1>1. Init => PayloadIsSeen
    BY DEF Init, PayloadIsSeen
<1>2. TypeOK /\ InputInv /\ PayloadIsSeen /\ [Next]_vars => PayloadIsSeen'
    BY PayloadIsSeenStep DEF InputInv
<1>3. Spec => []PayloadIsSeen
    BY <1>1, <1>2, InputInvariant, PTL DEF Spec
<1>4. InputInv /\ PayloadIsSeen =>
        \A r \in Receivers : rpc[r] = "parked" /\ ~woken[r] => queue = <<>> /\ ~closed
    BY DEF InputInv, CloseIsSeen, PayloadIsSeen
<1> QED
    BY <1>3, <1>4, InputInvariant, PTL
=============================================================================
