--------------------------- MODULE EventHubProofs ---------------------------
(***************************************************************************)
(* Proofs about EventHub for every capacity, byte limit, set of readers    *)
(* and set of frame sizes.  The inductive invariant is split into what the *)
(* buffer looks like, how the session's end is ordered, and where a        *)
(* reader stands.                                                          *)
(***************************************************************************)
EXTENDS EventHub, SequenceTheorems, TLAPS

\* One past the last byte of the i-th retained frame, among all accepted bytes.
EndOf(i) == frames[i].at + frames[i].len

\* The retained frames are consecutive, in order and older than the frame that
\* is being placed; they end where the accepted bytes end.
FramesLinked ==
    /\ \A i \in 1 .. Len(frames) :
          /\ frames[i].index < next_index
          /\ publishing.busy => frames[i].index < publishing.index
          /\ EndOf(i) <= accepted
          /\ i = Len(frames) => EndOf(i) = accepted
    /\ \A i, j \in 1 .. Len(frames) : i < j => frames[i].index < frames[j].index
    /\ \A i, j \in 1 .. Len(frames) : j = i + 1 => EndOf(i) = frames[j].at

\* The limits and the byte count hold in every step of publish.
BytesCounted ==
    /\ Len(frames) <= capacity
    /\ retained_bytes <= max_bytes
    /\ frames = <<>> => retained_bytes = 0
    /\ frames # <<>> => retained_bytes + frames[1].at = accepted

\* A frame is placed only before the cause is sent, the cause before the close.
EndOrdered ==
    /\ publishing.busy => /\ publishing.index < next_index
                          /\ publishing.len <= max_bytes
                          /\ ~cause
    /\ closed => cause

\* Where a reader is: at most at the end of the stream, exactly there once it
\* was told the end, and without a history before it subscribed.
ReaderPlaced(r) ==
    /\ cursor[r] <= next_index
    /\ pc[r] = "none" => /\ delivered[r] = <<>>
                         /\ lagged[r] = 0
                         /\ ending[r] = "none"
    /\ ending[r] # "none" => /\ ending[r] = "cause"
                             /\ closed
                             /\ cursor[r] = next_index

HubInv == FramesLinked /\ BytesCounted /\ EndOrdered /\ \A r \in Readers : ReaderPlaced(r)

-----------------------------------------------------------------------------
\* EventHub::new raises both limits to at least one.
LEMMA LimitsArePositive == capacity \in Nat \ {0} /\ max_bytes \in Nat \ {0}
BY EventCapacityAssumption, MaxBufferBytesAssumption DEF capacity, max_bytes

\* notify_waiters only sets wake-up flags.
LEMMA NotifyKeepsType ==
    ASSUME NotifyWaiters, notified \in [Readers -> BOOLEAN]
    PROVE  notified' \in [Readers -> BOOLEAN]
BY DEF NotifyWaiters

-----------------------------------------------------------------------------
\* publish, close and recv keep every variable in its type; in particular the
\* count of EventLagged and retained_bytes never go below zero.
THEOREM TypeCorrect == Spec => []TypeOK
<1>1. Init => TypeOK
  <2> SUFFICES ASSUME Init PROVE TypeOK
    OBVIOUS
  <2>1. <<>> \in Seq(Frame) /\ <<>> \in Seq(Nat)
    BY EmptySeq
  <2> QED
    BY <2>1 DEF Init, TypeOK, NoFrame
<1>2. TypeOK /\ [Next]_vars => TypeOK'
  <2> SUFFICES ASSUME TypeOK, [Next]_vars PROVE TypeOK'
    OBVIOUS
  <2> USE DEF TypeOK, hubVars, readerVars
  <2>1. ASSUME NEW len \in FrameSizes, PublishOversized(len) PROVE TypeOK'
    BY <2>1, NotifyKeepsType DEF PublishOversized
  <2>2. ASSUME NEW len \in FrameSizes, PublishBegin(len) PROVE TypeOK'
    BY <2>2, FrameSizesAssumption DEF PublishBegin
  <2>3. CASE EvictFront
    <3>1. Head(frames) \in Frame /\ Tail(frames) \in Seq(Frame)
      BY <2>3, HeadTailProperties DEF EvictFront
    <3>2. retained_bytes' \in Nat
      BY <2>3, <3>1, SMTT(30) DEF EvictFront, Frame
    <3> QED
      BY <2>3, <3>1, <3>2 DEF EvictFront
  <2>4. CASE PublishRetain
    <3> DEFINE f == [index |-> publishing.index, len |-> publishing.len, at |-> accepted]
    <3>1. f \in Frame
      BY DEF Frame
    <3>2. Append(frames, f) \in Seq(Frame)
      BY <3>1, AppendProperties
    <3> QED
      BY <2>4, <3>2, NotifyKeepsType DEF PublishRetain, NoFrame
  <2>5. CASE SendCause
    BY <2>5 DEF SendCause
  <2>6. CASE Close
    BY <2>6, NotifyKeepsType DEF Close
  <2>7. ASSUME NEW r \in Readers, Subscribe(r) PROVE TypeOK'
    BY <2>7 DEF Subscribe, SubscriptionStart
  <2>8. ASSUME NEW r \in Readers, Arm(r) PROVE TypeOK'
    BY <2>8 DEF Arm
  <2>9. ASSUME NEW r \in Readers, Deliver(r) PROVE TypeOK'
    <3>1. Append(delivered[r], cursor[r]) \in Seq(Nat)
      BY AppendProperties
    <3> QED
      BY <2>9, <3>1 DEF Deliver, Past
  <2>10. ASSUME NEW r \in Readers, Lag(r) PROVE TypeOK'
    BY <2>10 DEF Lag, Skipped
  <2>11. ASSUME NEW r \in Readers, Terminal(r) PROVE TypeOK'
    BY <2>11 DEF Terminal
  <2>12. ASSUME NEW r \in Readers, FindNothing(r) \/ Park(r) \/ Abandon(r) PROVE TypeOK'
    BY <2>12 DEF FindNothing, Park, Abandon
  <2>13. CASE UNCHANGED vars
    BY <2>13 DEF vars
  <2> QED
    BY <2>1, <2>2, <2>3, <2>4, <2>5, <2>6, <2>7, <2>8, <2>9, <2>10, <2>11, <2>12, <2>13
    DEF Next, Recv
<1> QED
  BY <1>1, <1>2, PTL DEF Spec

\* Every retained frame has its index, length and place in the byte account.
LEMMA FramesTyped ==
    ASSUME TypeOK, NEW i \in 1 .. Len(frames)
    PROVE  frames[i].index \in Nat /\ frames[i].len \in Nat /\ frames[i].at \in Nat
<1>1. frames[i] \in Frame
  BY ElementOfSeq DEF TypeOK
<1> QED
  BY <1>1 DEF Frame

-----------------------------------------------------------------------------
(* The eviction loop and the placing of a frame keep the chain of frames.  *)

\* What pop_front leaves behind: the same frames, one place further left.
LEMMA TailFacts ==
    ASSUME NEW S, NEW s \in Seq(S), s # <<>>, NEW t, t = Tail(s)
    PROVE  /\ Len(s) \in Nat \ {0}
           /\ Len(t) = Len(s) - 1
           /\ \A i \in 1 .. Len(t) : t[i] = s[i + 1]
           /\ t = <<>> <=> Len(s) = 1
<1>1. t \in Seq(S) /\ Len(t) = Len(s) - 1 /\ \A i \in 1 .. Len(t) : t[i] = s[i + 1]
  BY HeadTailProperties
<1>2. Len(s) \in Nat \ {0}
  BY EmptySeq
<1>3. t = <<>> => Len(t) = 0
  BY EmptySeq
<1>4. t # <<>> => Len(t) # 0
  BY <1>1, EmptySeq
<1> QED
  BY <1>1, <1>2, <1>3, <1>4

\* One turn of the eviction loop of publish keeps the frames linked and the
\* bytes counted.
LEMMA EvictKeepsChain ==
    ASSUME TypeOK, HubInv, EvictFront
    PROVE  FramesLinked' /\ BytesCounted'
<1>1. /\ Len(frames) \in Nat \ {0}
      /\ Len(frames') = Len(frames) - 1
      /\ \A i \in 1 .. Len(frames') : frames'[i] = frames[i + 1]
      /\ frames' = <<>> <=> Len(frames) = 1
  <2>1. frames \in Seq(Frame) /\ frames # <<>> /\ frames' = Tail(frames)
    BY DEF TypeOK, EvictFront
  <2> QED
    BY <2>1, TailFacts, Zenon
<1>2. /\ \A i \in 1 .. Len(frames) : frames[i] \in Frame
      /\ Head(frames) = frames[1]
  BY <1>1, ElementOfSeq DEF TypeOK
<1>3. UNCHANGED <<next_index, publishing, accepted>>
  BY DEF EvictFront
<1>4. \A i \in 1 .. Len(frames') : i + 1 \in 1 .. Len(frames)
  BY <1>1
<1>5. FramesLinked'
  <2>1. ASSUME NEW i \in 1 .. Len(frames')
        PROVE  /\ frames'[i].index < next_index
               /\ publishing.busy => frames'[i].index < publishing.index
               /\ frames'[i].at + frames'[i].len <= accepted
               /\ i = Len(frames') => frames'[i].at + frames'[i].len = accepted
    BY <1>1, <1>4 DEF HubInv, FramesLinked, EndOf
  <2>2. ASSUME NEW i \in 1 .. Len(frames'), NEW j \in 1 .. Len(frames')
        PROVE  /\ i < j => frames'[i].index < frames'[j].index
               /\ j = i + 1 => frames'[i].at + frames'[i].len = frames'[j].at
    <3>1. /\ i + 1 < j + 1 => frames[i + 1].index < frames[j + 1].index
          /\ j + 1 = (i + 1) + 1 => EndOf(i + 1) = frames[j + 1].at
      BY <1>4 DEF HubInv, FramesLinked
    <3> QED
      BY <1>1, <3>1 DEF EndOf
  <2> QED
    BY <1>3, <2>1, <2>2 DEF FramesLinked, EndOf
<1>6. /\ frames[1] \in Frame
      /\ EndOf(1) <= accepted
      /\ retained_bytes + frames[1].at = accepted
      /\ retained_bytes \in Nat /\ accepted \in Nat
      /\ Len(frames) <= capacity /\ retained_bytes <= max_bytes
  <2>1. 1 \in 1 .. Len(frames) /\ frames # <<>>
    BY <1>1 DEF EvictFront
  <2> QED
    BY <1>2, <2>1 DEF HubInv, FramesLinked, BytesCounted, TypeOK
<1>7. /\ retained_bytes' + EndOf(1) = accepted
      /\ retained_bytes' <= max_bytes
      /\ Len(frames') <= capacity
      /\ retained_bytes' \in Nat
  <2>1. retained_bytes' = IF retained_bytes >= frames[1].len
                         THEN retained_bytes - frames[1].len ELSE 0
    BY <1>2 DEF EvictFront
  <2>2. frames[1].len \in Nat /\ frames[1].at \in Nat
    BY <1>6 DEF Frame
  <2> QED
    BY <1>1, <1>6, <2>1, <2>2, LimitsArePositive, SMTT(30) DEF EndOf
<1>8. frames' = <<>> => retained_bytes' = 0
  <2>1. ASSUME Len(frames) = 1 PROVE EndOf(1) = accepted
    BY <1>1, <2>1 DEF HubInv, FramesLinked
  <2> QED
    BY <1>1, <1>6, <1>7, <2>1 DEF EndOf, Frame
<1>9. frames' # <<>> => frames'[1].at = EndOf(1)
  <2>1. ASSUME Len(frames) # 1
        PROVE  1 \in 1 .. Len(frames') /\ 1 \in 1 .. Len(frames) /\ 2 \in 1 .. Len(frames)
    BY <1>1, <2>1
  <2>2. ASSUME Len(frames) # 1 PROVE EndOf(1) = frames[2].at
    BY <2>1, <2>2 DEF HubInv, FramesLinked
  <2> QED
    BY <1>1, <2>1, <2>2
<1>10. BytesCounted'
  BY <1>3, <1>7, <1>8, <1>9 DEF BytesCounted, capacity, max_bytes
<1> QED
  BY <1>5, <1>10

\* push_back at the end of publish keeps the frames linked and the bytes
\* counted.
LEMMA RetainKeepsChain ==
    ASSUME TypeOK, HubInv, PublishRetain
    PROVE  FramesLinked' /\ BytesCounted'
<1> DEFINE f == [index |-> publishing.index, len |-> publishing.len, at |-> accepted]
           n == Len(frames)
<1>1. f \in Frame /\ n \in Nat
  BY LenProperties DEF Frame, TypeOK
<1>2. /\ frames' # <<>>
      /\ Len(frames') = n + 1
      /\ \A i \in 1 .. n : frames'[i] = frames[i]
      /\ frames'[n + 1] = f
  BY <1>1, AppendProperties DEF TypeOK, PublishRetain
<1>3. \A i \in 1 .. n : frames[i] \in Frame
  BY ElementOfSeq DEF TypeOK
<1>4. /\ next_index' = next_index
      /\ accepted' = accepted + publishing.len
      /\ retained_bytes' = retained_bytes + publishing.len
      /\ publishing.busy /\ ~publishing'.busy
      /\ publishing.len \in Nat /\ publishing.index \in Nat
  BY DEF PublishRetain, NoFrame, TypeOK
<1>5. \A i \in 1 .. Len(frames') : i \in 1 .. n \/ i = n + 1
  BY <1>1, <1>2
<1>6. FramesLinked'
  <2>1. /\ \A i \in 1 .. n : /\ frames[i].index < publishing.index
                             /\ EndOf(i) <= accepted
                             /\ i = n => EndOf(i) = accepted
        /\ publishing.index < next_index
        /\ accepted \in Nat /\ next_index \in Nat
    BY <1>4 DEF HubInv, FramesLinked, EndOrdered, TypeOK
  <2>2. ASSUME NEW i \in 1 .. Len(frames')
        PROVE  /\ frames'[i].index < next_index
               /\ frames'[i].at + frames'[i].len <= accepted'
               /\ i = Len(frames') => frames'[i].at + frames'[i].len = accepted'
    <3>1. CASE i \in 1 .. n
      <4>1. frames'[i] = frames[i] /\ frames[i] \in Frame /\ i # Len(frames')
        BY <1>1, <1>2, <1>3, <3>1
      <4>2. frames[i].index \in Nat /\ frames[i].at \in Nat /\ frames[i].len \in Nat
        BY <4>1 DEF Frame
      <4> QED
        <5>1. frames[i].index < next_index
          BY <3>1 DEF HubInv, FramesLinked
        <5>2. frames[i].at + frames[i].len <= accepted
          BY <2>1, <3>1 DEF EndOf
        <5>3. frames[i].at + frames[i].len <= accepted'
          BY <1>4, <2>1, <4>2, <5>2, SMTT(30)
        <5> QED
          BY <4>1, <5>1, <5>3
    <3>2. CASE i = n + 1
      BY <1>2, <1>4, <2>1, <3>2
    <3> QED
      BY <1>5, <3>1, <3>2
  <2>3. ASSUME NEW i \in 1 .. Len(frames'), NEW j \in 1 .. Len(frames')
        PROVE  /\ i < j => frames'[i].index < frames'[j].index
               /\ j = i + 1 => frames'[i].at + frames'[i].len = frames'[j].at
    <3>1. CASE j \in 1 .. n /\ i \in 1 .. n
      BY <1>2, <3>1 DEF HubInv, FramesLinked, EndOf
    <3>2. CASE j = n + 1 /\ i \in 1 .. n
      BY <1>1, <1>2, <2>1, <3>2 DEF EndOf
    <3>3. CASE i = n + 1
      BY <1>1, <1>2, <3>3
    <3> QED
      BY <1>5, <3>1, <3>2, <3>3
  <2> QED
    BY <1>4, <2>2, <2>3 DEF FramesLinked, EndOf
<1>7. Len(frames') <= capacity /\ retained_bytes' <= max_bytes
  BY <1>1, <1>2, <1>4, LimitsArePositive, EmptySeq
  DEF PublishRetain, MustEvict, HubInv, BytesCounted, EndOrdered, TypeOK
<1>8. retained_bytes' + frames'[1].at = accepted'
  <2>1. CASE frames = <<>>
    BY <1>2, <1>4, <2>1, EmptySeq DEF HubInv, BytesCounted, TypeOK
  <2>2. CASE frames # <<>>
    <3>1. n # 0
      BY <2>2, EmptySeq DEF TypeOK
    <3>2. frames'[1] = frames[1] /\ frames[1] \in Frame
      BY <1>1, <1>2, <1>3, <3>1
    <3>3. frames[1].at \in Nat
      BY <3>2 DEF Frame
    <3>4. retained_bytes + frames[1].at = accepted /\ retained_bytes \in Nat
      BY <2>2 DEF HubInv, BytesCounted, TypeOK
    <3>5. retained_bytes' + frames[1].at = accepted'
      BY <1>4, <3>3, <3>4
    <3> QED
      BY <3>2, <3>5
  <2> QED
    BY <2>1, <2>2
<1>9. BytesCounted'
  BY <1>2, <1>4, <1>7, <1>8 DEF BytesCounted, capacity, max_bytes
<1> QED
  BY <1>6, <1>9

-----------------------------------------------------------------------------
(* Steps that do not move a reader, and steps of one reader.               *)

\* publish and close leave every reader where it was; once the hub is closed
\* no event is numbered any more.
LEMMA OthersKeepReaders ==
    ASSUME TypeOK, HubInv,
           UNCHANGED <<cursor, pc, delivered, lagged, ending>>,
           next_index' \in Nat, next_index <= next_index',
           closed => closed' /\ next_index' = next_index
    PROVE  \A r \in Readers : ReaderPlaced(r)'
<1> SUFFICES ASSUME NEW r \in Readers PROVE ReaderPlaced(r)'
  OBVIOUS
<1>1. ReaderPlaced(r) /\ cursor[r] \in Nat /\ next_index \in Nat
  BY DEF HubInv, TypeOK
<1> QED
  BY <1>1 DEF ReaderPlaced

\* A step of recv or subscribe keeps the buffer, and the other readers.
LEMMA ReaderKeepsHub ==
    ASSUME HubInv, UNCHANGED hubVars
    PROVE  FramesLinked' /\ BytesCounted' /\ EndOrdered'
BY DEF HubInv, FramesLinked, BytesCounted, EndOrdered, EndOf, hubVars, capacity, max_bytes

\* The frame recv returns is already published.
LEMMA NextIsPublished ==
    ASSUME TypeOK, HubInv, NEW r \in Readers, NEW i \in 1 .. Len(frames), IsNext(r, i)
    PROVE  cursor[r] <= frames[i].index /\ frames[i].index < next_index
BY DEF HubInv, FramesLinked, IsNext, Ahead

\* A step of one subscription keeps every subscription in its place.
LEMMA OneReaderMoves ==
    ASSUME TypeOK, HubInv, NEW r \in Readers, Subscribe(r) \/ Recv(r) \/ Abandon(r)
    PROVE  \A q \in Readers : ReaderPlaced(q)'
<1> SUFFICES ASSUME NEW q \in Readers PROVE ReaderPlaced(q)'
  OBVIOUS
<1> USE DEF TypeOK, hubVars
<1>1. ReaderPlaced(q)
  BY DEF HubInv
<1>2. next_index' = next_index /\ closed' = closed
  BY DEF Recv, Subscribe, Arm, Deliver, Lag, Terminal, FindNothing, Park, Abandon
<1>3. CASE Subscribe(r)
  BY <1>1, <1>2, <1>3 DEF Subscribe, SubscriptionStart, ReaderPlaced
<1>4. CASE Arm(r)
  BY <1>1, <1>2, <1>4 DEF Arm, ReaderPlaced
<1>5. CASE Deliver(r)
  <2>1. cursor[r] < next_index
    BY <1>5, NextIsPublished DEF Deliver
  <2>2. CASE q = r
    BY <1>1, <1>2, <1>5, <2>1, <2>2 DEF Deliver, Past, ReaderPlaced
  <2>3. CASE q # r
    BY <1>1, <1>2, <1>5, <2>3 DEF Deliver, ReaderPlaced
  <2> QED
    BY <2>2, <2>3
<1>6. CASE Lag(r)
  <2>1. PICK n \in 0 .. next_index : n > cursor[r] /\ cursor' = [cursor EXCEPT ![r] = n]
    BY <1>6 DEF Lag
  <2>2. CASE q = r
    BY <1>1, <1>2, <1>6, <2>1, <2>2 DEF Lag, ReaderPlaced
  <2>3. CASE q # r
    BY <1>1, <1>2, <1>6, <2>1, <2>3 DEF Lag, ReaderPlaced
  <2> QED
    BY <2>2, <2>3
<1>7. CASE Terminal(r)
  <2>1. cause /\ closed /\ cursor[r] >= next_index
    BY <1>7 DEF Terminal, Exhausted, HubInv, EndOrdered
  <2>2. CASE q = r
    BY <1>1, <1>2, <1>7, <2>1, <2>2 DEF Terminal, ReaderPlaced
  <2>3. CASE q # r
    BY <1>1, <1>2, <1>7, <2>3 DEF Terminal, ReaderPlaced
  <2> QED
    BY <2>2, <2>3
<1>8. CASE FindNothing(r) \/ Park(r) \/ Abandon(r)
  BY <1>1, <1>2, <1>8 DEF FindNothing, Park, Abandon, ReaderPlaced
<1> QED
  BY <1>3, <1>4, <1>5, <1>6, <1>7, <1>8 DEF Recv

-----------------------------------------------------------------------------
\* The invariant holds of a hub that was just created.
LEMMA HubInvInitially == Init => HubInv
<1> SUFFICES ASSUME Init PROVE HubInv
  OBVIOUS
<1>1. Len(frames) = 0 /\ frames = <<>>
  BY EmptySeq DEF Init
<1>2. FramesLinked
  BY <1>1 DEF FramesLinked
<1>3. BytesCounted
  BY <1>1, LimitsArePositive DEF BytesCounted, Init
<1>4. EndOrdered
  BY DEF EndOrdered, Init, NoFrame
<1>5. \A r \in Readers : ReaderPlaced(r)
  BY DEF ReaderPlaced, Init
<1> QED
  BY <1>2, <1>3, <1>4, <1>5 DEF HubInv

\* Every step of publish, close, subscribe and recv keeps the invariant.
LEMMA HubInvPreserved ==
    ASSUME TypeOK, HubInv, [Next]_vars
    PROVE  HubInv'
<1>1. ASSUME NEW len \in FrameSizes, PublishOversized(len) PROVE HubInv'
  <2>1. FramesLinked' /\ BytesCounted' /\ EndOrdered'
    <3>1. /\ UNCHANGED <<frames, retained_bytes, accepted, closed, cause>>
          /\ next_index \in Nat /\ next_index' = next_index + 1
          /\ ~publishing.busy
          /\ publishing'.busy => /\ publishing'.index = next_index
                                /\ publishing'.len <= max_bytes
                                /\ ~cause
      BY <1>1 DEF PublishOversized, TypeOK, Unlocked, NoFrame
    <3>2. FramesLinked'
      BY <3>1, FramesTyped DEF HubInv, FramesLinked, EndOf
    <3>3. BytesCounted' /\ EndOrdered'
      BY <3>1 DEF HubInv, BytesCounted, EndOrdered, capacity, max_bytes
    <3> QED
      BY <3>2, <3>3
  <2>2. \A r \in Readers : ReaderPlaced(r)'
    BY <1>1, OthersKeepReaders DEF PublishOversized, HubInv, EndOrdered, TypeOK
  <2> QED
    BY <2>1, <2>2 DEF HubInv
<1>2. ASSUME NEW len \in FrameSizes, PublishBegin(len) PROVE HubInv'
  <2>1. FramesLinked' /\ BytesCounted' /\ EndOrdered'
    <3>1. /\ UNCHANGED <<frames, retained_bytes, accepted, closed, cause>>
          /\ next_index \in Nat /\ next_index' = next_index + 1
          /\ ~publishing.busy
          /\ publishing'.busy => /\ publishing'.index = next_index
                                /\ publishing'.len <= max_bytes
                                /\ ~cause
      BY <1>2 DEF PublishBegin, TypeOK, Unlocked, NoFrame
    <3>2. FramesLinked'
      BY <3>1, FramesTyped DEF HubInv, FramesLinked, EndOf
    <3>3. BytesCounted' /\ EndOrdered'
      BY <3>1 DEF HubInv, BytesCounted, EndOrdered, capacity, max_bytes
    <3> QED
      BY <3>2, <3>3
  <2>2. \A r \in Readers : ReaderPlaced(r)'
    BY <1>2, OthersKeepReaders DEF PublishBegin, HubInv, EndOrdered, TypeOK, readerVars
  <2> QED
    BY <2>1, <2>2 DEF HubInv
<1>3. CASE EvictFront
  <2>1. \A r \in Readers : ReaderPlaced(r)'
    BY <1>3, OthersKeepReaders DEF EvictFront, TypeOK, readerVars
  <2>2. EndOrdered'
    BY <1>3 DEF EvictFront, HubInv, EndOrdered, max_bytes
  <2> QED
    BY <1>3, <2>1, <2>2, EvictKeepsChain DEF HubInv
<1>4. CASE PublishRetain
  <2>1. \A r \in Readers : ReaderPlaced(r)'
    BY <1>4, OthersKeepReaders, SMTT(30) DEF PublishRetain, TypeOK
  <2>2. EndOrdered'
    BY <1>4 DEF PublishRetain, HubInv, EndOrdered, max_bytes, NoFrame
  <2> QED
    BY <1>4, <2>1, <2>2, RetainKeepsChain DEF HubInv
<1>5. CASE SendCause \/ Close
  <2>1. \A r \in Readers : ReaderPlaced(r)'
    BY <1>5, OthersKeepReaders, SMTT(30) DEF SendCause, Close, TypeOK, readerVars
  <2>2. FramesLinked' /\ BytesCounted'
    BY <1>5 DEF SendCause, Close, HubInv, FramesLinked, BytesCounted, EndOf,
                capacity, max_bytes
  <2>3. EndOrdered'
    BY <1>5 DEF SendCause, Close, HubInv, EndOrdered, max_bytes, Unlocked, NoFrame
  <2> QED
    BY <2>1, <2>2, <2>3 DEF HubInv
<1>6. ASSUME NEW r \in Readers, Subscribe(r) \/ Recv(r) \/ Abandon(r) PROVE HubInv'
  <2>1. UNCHANGED hubVars
    BY <1>6 DEF Recv, Subscribe, Arm, Deliver, Lag, Terminal, FindNothing, Park, Abandon
  <2> QED
    BY <1>6, <2>1, OneReaderMoves, ReaderKeepsHub DEF HubInv
<1>7. CASE UNCHANGED vars
  <2>1. \A r \in Readers : ReaderPlaced(r)'
    BY <1>7, OthersKeepReaders DEF TypeOK, vars, hubVars, readerVars
  <2> QED
    BY <1>7, <2>1, ReaderKeepsHub DEF HubInv, vars
<1> QED
  BY <1>1, <1>2, <1>3, <1>4, <1>5, <1>6, <1>7 DEF Next

\* The strengthening the theorems below rest on.
THEOREM HubInvariant == Spec => [](TypeOK /\ HubInv)
<1>1. TypeOK /\ HubInv /\ [Next]_vars => HubInv'
  BY HubInvPreserved
<1> QED
  BY <1>1, TypeCorrect, HubInvInitially, PTL DEF Spec

\* The retained-event buffer never exceeds its frame or byte limit and its byte
\* count never drifts from what it holds, for every capacity and frame size.
THEOREM BufferIsBounded == Spec => []BufferBounded
<1>1. TypeOK /\ HubInv => BufferBounded
  <2> SUFFICES ASSUME TypeOK, HubInv, frames # <<>>
               PROVE  retained_bytes = accepted - frames[1].at
    BY DEF HubInv, BytesCounted, BufferBounded
  <2>1. frames[1] \in Frame
    BY EmptySeq, ElementOfSeq DEF TypeOK
  <2>2. frames[1].at \in Nat
    BY <2>1 DEF Frame
  <2> QED
    BY <2>2 DEF TypeOK, HubInv, BytesCounted
<1> QED
  BY <1>1, HubInvariant, PTL

\* A subscriber that is told the end of the session has seen or been told of
\* every event, and learns the cause, for any number of subscribers.
THEOREM EndingIsAlwaysComplete == Spec => []EndingIsComplete
<1>1. TypeOK /\ HubInv => EndingIsComplete
  BY DEF HubInv, ReaderPlaced, EndingIsComplete
<1> QED
  BY <1>1, HubInvariant, PTL

-----------------------------------------------------------------------------
(* What recv hands out.                                                    *)

\* recv hands out one event, after those it handed out before.
LEMMA DeliveryAppends ==
    ASSUME TypeOK, NEW r \in Readers, Deliver(r)
    PROVE  /\ Len(delivered[r]) \in Nat
           /\ Len(delivered'[r]) = Len(delivered[r]) + 1
           /\ \A i \in 1 .. Len(delivered[r]) : delivered'[r][i] = delivered[r][i]
           /\ delivered'[r][Len(delivered[r]) + 1] = cursor[r]
           /\ cursor'[r] = cursor[r] + 1
<1>1. delivered[r] \in Seq(Nat) /\ cursor[r] \in Nat
  BY DEF TypeOK
<1>2. delivered'[r] = Append(delivered[r], cursor[r]) /\ cursor'[r] = cursor[r] + 1
  BY DEF TypeOK, Deliver, Past
<1> QED
  BY <1>1, <1>2, AppendProperties, LenProperties

\* Every event a subscription has passed was returned to it or counted in an
\* EventLagged, for any number of readers and any sequence of evictions.
THEOREM NothingIsLostSilently == Spec => []NoSilentLoss
<1>1. Init => NoSilentLoss
  <2> SUFFICES ASSUME Init, NEW r \in Readers
               PROVE  Len(delivered[r]) + lagged[r] + first[r] = cursor[r]
    BY DEF NoSilentLoss
  <2>1. Len(delivered[r]) = 0
    BY EmptySeq DEF Init
  <2> QED
    BY <2>1 DEF Init
<1>2. TypeOK /\ HubInv /\ NoSilentLoss /\ [Next]_vars => NoSilentLoss'
  <2> SUFFICES ASSUME TypeOK, HubInv, NoSilentLoss, [Next]_vars, NEW q \in Readers
               PROVE  Len(delivered'[q]) + lagged'[q] + first'[q] = cursor'[q]
    BY DEF NoSilentLoss
  <2>1. /\ Len(delivered[q]) + lagged[q] + first[q] = cursor[q]
        /\ Len(delivered[q]) \in Nat /\ lagged[q] \in Nat /\ first[q] \in Nat
        /\ cursor[q] \in Nat /\ next_index \in Nat
    BY LenProperties DEF NoSilentLoss, TypeOK
  <2>2. CASE UNCHANGED <<delivered, lagged, first, cursor>>
    BY <2>1, <2>2
  <2>3. ASSUME NEW r \in Readers, Subscribe(r)
        PROVE  Len(delivered'[q]) + lagged'[q] + first'[q] = cursor'[q]
    <3>1. CASE q = r
      <4>1. Len(delivered[q]) = 0 /\ lagged[q] = 0
        BY <2>3, <3>1, EmptySeq DEF Subscribe, HubInv, ReaderPlaced
      <4>2. first'[q] = next_index /\ cursor'[q] = next_index /\ UNCHANGED <<delivered, lagged>>
        BY <2>3, <3>1 DEF Subscribe, SubscriptionStart, TypeOK
      <4> QED
        BY <2>1, <4>1, <4>2
    <3>2. CASE q # r
      BY <2>1, <2>3, <3>2 DEF Subscribe, TypeOK
    <3> QED
      BY <3>1, <3>2
  <2>4. ASSUME NEW r \in Readers, Deliver(r)
        PROVE  Len(delivered'[q]) + lagged'[q] + first'[q] = cursor'[q]
    <3>1. CASE q = r
      <4>1. UNCHANGED <<lagged, first>>
        BY <2>4 DEF Deliver
      <4>2. Len(delivered'[q]) = Len(delivered[q]) + 1 /\ cursor'[q] = cursor[q] + 1
        BY <2>4, <3>1, DeliveryAppends
      <4> QED
        BY <2>1, <4>1, <4>2
    <3>2. CASE q # r
      BY <2>1, <2>4, <3>2 DEF Deliver, TypeOK
    <3> QED
      BY <3>1, <3>2
  <2>5. ASSUME NEW r \in Readers, Lag(r)
        PROVE  Len(delivered'[q]) + lagged'[q] + first'[q] = cursor'[q]
    <3>1. PICK n \in 0 .. next_index :
              /\ lagged' = [lagged EXCEPT ![r] = @ + (n - cursor[r])]
              /\ cursor' = [cursor EXCEPT ![r] = n]
      BY <2>5 DEF Lag, Skipped
    <3>2. UNCHANGED <<delivered, first>>
      BY <2>5 DEF Lag
    <3> QED
      BY <2>1, <3>1, <3>2, SMTT(30) DEF TypeOK
  <2> QED
    BY <2>2, <2>3, <2>4, <2>5
    DEF Next, Recv, PublishOversized, PublishBegin, EvictFront, PublishRetain, SendCause,
        Close, Arm, Terminal, FindNothing, Park, Abandon, readerVars, vars
<1> QED
  BY <1>1, <1>2, HubInvariant, PTL DEF Spec

\* Events are returned in publication order and none twice, to every reader.
THEOREM DeliveryIsOrdered == Spec => []DeliveredInOrder
<1> DEFINE Ordered(d, lo, hi) ==
              \A i \in 1 .. Len(d) :
                  /\ lo <= d[i] /\ d[i] < hi
                  /\ \A j \in 1 .. Len(d) : i < j => d[i] < d[j]
<1>1. Init => DeliveredInOrder
  <2> SUFFICES ASSUME Init, NEW r \in Readers PROVE Len(delivered[r]) = 0
    BY DEF DeliveredInOrder
  <2> QED
    BY EmptySeq DEF Init
<1>2. TypeOK /\ HubInv /\ NoSilentLoss /\ DeliveredInOrder /\ [Next]_vars => DeliveredInOrder'
  <2> SUFFICES ASSUME TypeOK, HubInv, NoSilentLoss, DeliveredInOrder, [Next]_vars,
                      NEW q \in Readers
               PROVE  Ordered(delivered'[q], first'[q], cursor'[q])
    BY DEF DeliveredInOrder
  <2>1. Ordered(delivered[q], first[q], cursor[q])
    BY DEF DeliveredInOrder
  <2>2. /\ Len(delivered[q]) \in Nat /\ lagged[q] \in Nat /\ first[q] \in Nat
        /\ cursor[q] \in Nat
        /\ \A i \in 1 .. Len(delivered[q]) : delivered[q][i] \in Nat
    BY LenProperties, ElementOfSeq DEF TypeOK
  <2>3. first[q] <= cursor[q]
    BY <2>2 DEF NoSilentLoss
  <2>4. CASE UNCHANGED <<delivered, first, cursor>>
    BY <2>1, <2>4
  <2>5. ASSUME NEW r \in Readers, Subscribe(r)
        PROVE  Ordered(delivered'[q], first'[q], cursor'[q])
    <3>1. CASE q = r
      <4>1. Len(delivered'[q]) = 0
        BY <2>5, <3>1, EmptySeq DEF Subscribe, HubInv, ReaderPlaced
      <4> QED
        BY <4>1
    <3>2. CASE q # r
      <4>1. delivered'[q] = delivered[q] /\ first'[q] = first[q] /\ cursor'[q] = cursor[q]
        BY <2>5, <3>2 DEF Subscribe, TypeOK
      <4> QED
        BY <2>1, <4>1
    <3> QED
      BY <3>1, <3>2
  <2>6. ASSUME NEW r \in Readers, Deliver(r)
        PROVE  Ordered(delivered'[q], first'[q], cursor'[q])
    <3>1. CASE q = r
      <4> DEFINE n == Len(delivered[q])
      <4>1. /\ Len(delivered'[q]) = n + 1
            /\ \A i \in 1 .. n : delivered'[q][i] = delivered[q][i]
            /\ delivered'[q][n + 1] = cursor[q]
            /\ cursor'[q] = cursor[q] + 1
        BY <2>6, <3>1, DeliveryAppends
      <4>2. first' = first
        BY <2>6 DEF Deliver
      <4>3. \A i \in 1 .. Len(delivered'[q]) : i \in 1 .. n \/ i = n + 1
        BY <2>2, <4>1
      <4>4. ASSUME NEW i \in 1 .. Len(delivered'[q])
            PROVE  first[q] <= delivered'[q][i] /\ delivered'[q][i] < cursor[q] + 1
        <5>1. CASE i \in 1 .. n
          <6>1. /\ first[q] <= delivered[q][i] /\ delivered[q][i] < cursor[q]
                /\ delivered[q][i] \in Nat
            BY <2>1, <2>2, <5>1
          <6> QED
            BY <2>2, <4>1, <5>1, <6>1
        <5>2. CASE i = n + 1
          BY <2>2, <2>3, <4>1, <5>2
        <5> QED
          BY <4>3, <5>1, <5>2
      <4>5. ASSUME NEW i \in 1 .. Len(delivered'[q]), NEW j \in 1 .. Len(delivered'[q]), i < j
            PROVE  delivered'[q][i] < delivered'[q][j]
        <5>1. i \in 1 .. n
          BY <2>2, <4>1, <4>5
        <5>2. CASE j \in 1 .. n
          BY <2>1, <4>1, <4>5, <5>1, <5>2
        <5>3. CASE j = n + 1
          BY <2>1, <4>1, <5>1, <5>3
        <5> QED
          BY <4>3, <5>2, <5>3
      <4> QED
        BY <4>1, <4>2, <4>4, <4>5
    <3>2. CASE q # r
      <4>1. delivered'[q] = delivered[q] /\ first'[q] = first[q] /\ cursor'[q] = cursor[q]
        BY <2>6, <3>2 DEF Deliver, TypeOK
      <4> QED
        BY <2>1, <4>1
    <3> QED
      BY <3>1, <3>2
  <2>7. ASSUME NEW r \in Readers, Lag(r)
        PROVE  Ordered(delivered'[q], first'[q], cursor'[q])
    <3>1. /\ delivered' = delivered /\ first' = first
          /\ cursor'[q] \in Nat /\ cursor[q] <= cursor'[q]
      BY <2>2, <2>7 DEF Lag, TypeOK
    <3> QED
      BY <2>1, <2>2, <3>1
  <2> QED
    BY <2>4, <2>5, <2>6, <2>7
    DEF Next, Recv, PublishOversized, PublishBegin, EvictFront, PublishRetain, SendCause,
        Close, Arm, Terminal, FindNothing, Park, Abandon, readerVars, vars
<1> QED
  BY <1>1, <1>2, HubInvariant, NothingIsLostSilently, PTL DEF Spec

\* EventLagged skips exactly what is gone: the buffer is sorted, so the first
\* frame ahead of the cursor is the oldest one.
THEOREM LagIsJustified == Spec => LagSkipsOnlyLost
<1> DEFINE Justified ==
        \A r \in Readers :
            lagged'[r] # lagged[r] =>
                \A i \in 1 .. Len(frames) :
                    ~ (cursor[r] <= frames[i].index /\ frames[i].index < cursor'[r])
<1>1. TypeOK /\ HubInv /\ [Next]_vars => [Justified]_vars
  <2> SUFFICES ASSUME TypeOK, HubInv, [Next]_vars, NEW q \in Readers, lagged'[q] # lagged[q],
                      NEW i \in 1 .. Len(frames), cursor[q] <= frames[i].index,
                      frames[i].index < cursor'[q]
               PROVE  FALSE
    OBVIOUS
  <2>1. Lag(q)
    <3>1. UNCHANGED lagged \/ \E r \in Readers : Lag(r)
      BY DEF Next, Recv, PublishOversized, PublishBegin, EvictFront, PublishRetain, SendCause,
          Close, Subscribe, Arm, Deliver, Terminal, FindNothing, Park, Abandon,
          readerVars, vars
    <3>2. PICK r \in Readers : Lag(r)
      BY <3>1
    <3>3. r = q
      BY <3>2 DEF Lag, TypeOK
    <3> QED
      BY <3>2, <3>3
  <2>2. PICK n \in 0 .. next_index : ResumeAt(q, n) /\ cursor'[q] = n
    BY <2>1 DEF Lag, TypeOK
  <2>3. i \in Ahead(q)
    BY DEF Ahead
  <2>4. PICK k \in 1 .. Len(frames) : IsNext(q, k) /\ frames[k].index = n
    BY <2>2, <2>3 DEF ResumeAt
  <2>5. k <= i
    BY <2>3, <2>4 DEF IsNext
  <2>6. frames[k].index <= frames[i].index
    BY <2>5, FramesTyped DEF HubInv, FramesLinked
  <2> QED
    BY <2>2, <2>4, <2>6, FramesTyped
<1> QED
  BY <1>1, HubInvariant, PTL DEF Spec, LagSkipsOnlyLost

-----------------------------------------------------------------------------
(* The hub implements the abstract event log.                              *)

\* The events delivered to r, as the log's reader r has got them.
GotBy(r) == {delivered[r][i] : i \in 1 .. Len(delivered[r])}

\* What a receiver is handed is the event the abstract log hands out.
LEMMA DeliveryIsGot ==
    ASSUME TypeOK, NEW r \in Readers, Deliver(r)
    PROVE  GotBy(r)' = GotBy(r) \cup {cursor[r]}
<1> DEFINE n == Len(delivered[r])
<1>1. /\ n \in Nat
      /\ Len(delivered'[r]) = n + 1
      /\ \A i \in 1 .. n : delivered'[r][i] = delivered[r][i]
      /\ delivered'[r][n + 1] = cursor[r]
  BY DeliveryAppends
<1>2. 1 .. n + 1 = (1 .. n) \cup {n + 1}
  BY <1>1
<1> HIDE DEF n
<1>3. GotBy(r)' = {delivered'[r][i] : i \in (1 .. n) \cup {n + 1}}
  BY <1>1, <1>2 DEF GotBy
<1>4. GotBy(r) = {delivered[r][i] : i \in 1 .. n}
  BY DEF GotBy, n
<1> QED
  BY <1>1, <1>3, <1>4

\* Publishing appends, subscribing opens at the end, recv delivers, misses or
\* tells, and every other step is invisible to the consumers of the log.
THEOREM HubImplementsLog == Spec => ImplementsLog
<1> DEFINE got == [r \in Readers |-> {delivered[r][i] : i \in 1 .. Len(delivered[r])}]
           open == {r \in Readers : pc[r] # "none"}
           told == {r \in Readers : ending[r] # "none"}
<1>1. Init => Log!LogInit
  <2> SUFFICES ASSUME Init PROVE Log!LogInit
    OBVIOUS
  <2>1. \A r \in Readers : Len(delivered[r]) = 0
    BY EmptySeq DEF Init
  <2>2. got = [r \in Readers |-> {}]
    BY <2>1
  <2> QED
    BY <2>2 DEF Init, Log!LogInit
<1>2. TypeOK /\ HubInv /\ [Next]_vars => [Log!LogNext]_(Log!logVars)
  <2> SUFFICES ASSUME TypeOK, HubInv, [Next]_vars
               PROVE  Log!LogNext \/ UNCHANGED Log!logVars
    OBVIOUS
  <2> HIDE DEF got, open, told
  <2>1. ASSUME UNCHANGED readerVars PROVE UNCHANGED <<open, cursor, got, lagged, told>>
    BY <2>1 DEF readerVars, open, got, told
  <2>2. ASSUME UNCHANGED <<cursor, pc, delivered, lagged, ending>>
        PROVE  UNCHANGED <<open, cursor, got, lagged, told>>
    BY <2>2 DEF open, got, told
  <2>3. ASSUME NEW len \in FrameSizes, PublishOversized(len) \/ PublishBegin(len)
        PROVE  Log!LogAppend
    <3>1. ~closed /\ next_index' = next_index + 1 /\ closed' = closed
      BY <2>3 DEF PublishOversized, PublishBegin, HubInv, EndOrdered
    <3>2. UNCHANGED <<cursor, pc, delivered, lagged, ending>>
      BY <2>3 DEF PublishOversized, PublishBegin, readerVars
    <3> QED
      BY <2>2, <3>1, <3>2 DEF Log!LogAppend, open, got, told
  <2>4. ASSUME EvictFront \/ PublishRetain \/ SendCause PROVE UNCHANGED Log!logVars
    <3>1. UNCHANGED <<next_index, closed, cursor, pc, delivered, lagged, ending>>
      BY <2>4 DEF EvictFront, PublishRetain, SendCause, readerVars
    <3> QED
      BY <2>2, <3>1 DEF Log!logVars, open, got, told
  <2>5. ASSUME Close PROVE Log!LogEnd
    <3>1. UNCHANGED <<next_index, cursor, pc, delivered, lagged, ending>> /\ closed'
      BY <2>5 DEF Close
    <3>2. closed' = TRUE
      BY <2>5 DEF Close
    <3> QED
      BY <2>2, <3>1, <3>2 DEF Log!LogEnd, open, got, told
  <2>6. ASSUME NEW r \in Readers, Subscribe(r) PROVE Log!LogOpen(r)
    <3>1. open' = open \cup {r} /\ r \notin open
      BY <2>6 DEF Subscribe, open, TypeOK
    <3>2. cursor' = [cursor EXCEPT ![r] = next_index]
      BY <2>6 DEF Subscribe, SubscriptionStart
    <3>3. UNCHANGED <<next_index, closed, delivered, lagged, ending>>
      BY <2>6 DEF Subscribe, hubVars
    <3>4. UNCHANGED <<got, told>>
      BY <3>3 DEF got, told
    <3> QED
      BY <3>1, <3>2, <3>3, <3>4 DEF Log!LogOpen, open, got, told
  <2>7. ASSUME NEW r \in Readers, Arm(r) \/ FindNothing(r) \/ Park(r) \/ Abandon(r)
        PROVE  UNCHANGED Log!logVars
    <3>1. UNCHANGED <<next_index, closed, cursor, delivered, lagged, ending>>
      BY <2>7 DEF Arm, FindNothing, Park, Abandon, hubVars
    <3>2. open' = open
      BY <2>7 DEF Arm, FindNothing, Park, Abandon, open, TypeOK
    <3> QED
      BY <3>1, <3>2 DEF Log!logVars, open, got, told
  <2>8. ASSUME NEW r \in Readers, Deliver(r) PROVE Log!LogDeliver(r)
    <3>1. cursor[r] < next_index
      BY <2>8, NextIsPublished DEF Deliver
    <3>2. r \in open /\ open' = open
      BY <2>8 DEF Deliver, open, TypeOK
    <3>3. UNCHANGED <<next_index, closed, lagged, ending>>
      BY <2>8 DEF Deliver, hubVars
    <3>4. cursor' = [cursor EXCEPT ![r] = cursor[r] + 1]
      BY <2>8 DEF Deliver, Past
    <3>5. got' = [got EXCEPT ![r] = got[r] \cup {cursor[r]}]
      <4>1. \A q \in Readers : q # r => delivered'[q] = delivered[q]
        BY <2>8 DEF Deliver, TypeOK
      <4>2. \A q \in Readers : q # r => GotBy(q)' = GotBy(q)
        BY <4>1 DEF GotBy
      <4>3. got = [q \in Readers |-> GotBy(q)] /\ got' = [q \in Readers |-> GotBy(q)']
        BY DEF got, GotBy
      <4> QED
        BY <2>8, <4>2, <4>3, DeliveryIsGot, Zenon
    <3> QED
      BY <3>1, <3>2, <3>3, <3>4, <3>5 DEF Log!LogDeliver, open, got, told
  <2>9. ASSUME NEW r \in Readers, Lag(r) PROVE Log!LogMiss(r)
    <3>1. PICK n \in 0 .. next_index :
              /\ n > cursor[r]
              /\ lagged' = [lagged EXCEPT ![r] = @ + (n - cursor[r])]
              /\ cursor' = [cursor EXCEPT ![r] = n]
      BY <2>9 DEF Lag, Skipped
    <3>2. /\ n - cursor[r] \in 1 .. (next_index - cursor[r])
          /\ cursor[r] + (n - cursor[r]) = n
      BY <3>1 DEF TypeOK
    <3>3. r \in open /\ open' = open
      BY <2>9 DEF Lag, open, TypeOK
    <3>4. UNCHANGED <<next_index, closed, delivered, ending>>
      BY <2>9 DEF Lag, hubVars
    <3>5. \E m \in 1 .. (next_index - cursor[r]) :
              /\ cursor' = [cursor EXCEPT ![r] = cursor[r] + m]
              /\ lagged' = [lagged EXCEPT ![r] = lagged[r] + m]
      BY <3>1, <3>2
    <3>6. UNCHANGED <<got, told>>
      BY <3>4 DEF got, told
    <3>7. /\ UNCHANGED [q \in Readers |-> {delivered[q][i] : i \in 1 .. Len(delivered[q])}]
          /\ UNCHANGED {q \in Readers : ending[q] # "none"}
          /\ UNCHANGED {q \in Readers : pc[q] # "none"}
          /\ r \in {q \in Readers : pc[q] # "none"}
      BY <3>3, <3>6 DEF got, told, open
    <3> QED
      BY <3>4, <3>5, <3>7 DEF Log!LogMiss
  <2>10. ASSUME NEW r \in Readers, Terminal(r) PROVE Log!LogTell(r)
    <3>1. closed /\ cursor[r] = next_index
      BY <2>10 DEF Terminal, Exhausted, HubInv, ReaderPlaced, TypeOK
    <3>2. r \in open /\ open' = open
      BY <2>10 DEF Terminal, open, TypeOK
    <3>3. told' = told \cup {r}
      BY <2>10 DEF Terminal, told, TypeOK
    <3>4. UNCHANGED <<next_index, closed, cursor, delivered, lagged>>
      BY <2>10 DEF Terminal, hubVars
    <3> QED
      BY <3>1, <3>2, <3>3, <3>4 DEF Log!LogTell, open, got, told
  <2>11. CASE UNCHANGED vars
    BY <2>11 DEF vars, hubVars, readerVars, Log!logVars
  <2> QED
    BY <2>3, <2>4, <2>5, <2>6, <2>7, <2>8, <2>9, <2>10, <2>11 DEF Next, Recv, Log!LogNext
<1> QED
  BY <1>1, <1>2, HubInvariant, PTL DEF Spec, ImplementsLog, Log!LogSpec

=============================================================================
