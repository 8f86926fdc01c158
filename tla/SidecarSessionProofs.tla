------------------------ MODULE SidecarSessionProofs ------------------------
(***************************************************************************)
(* Proofs about SidecarSession for any offers, configurations, ceilings    *)
(* and frame sizes and any number of restarts of either side, over a       *)
(* transport that may lose, repeat, delay and reorder frames.              *)
(***************************************************************************)
EXTENDS SidecarSession, TLAPS

-----------------------------------------------------------------------------
(* The inductive invariant.                                                *)

Selections == {Selection(o, q) : o, q \in Offers}

\* What may be on the wire.
Messages ==
    [kind : {"offer"}, offer : Offers]
        \cup [kind : {"accept"}, offer : Offers, selection : Selections]
        \cup [kind : {"configure"}, configuration : Configurations]
        \cup [kind : {"configured"}, manifest : {Manifest(c) : c \in Configurations}]
        \cup [kind : {"active"}, body : Nat]

Frames ==
    [from : SidecarPeerRole, generation : Generations, minor : Nat, sequence : Nat,
     msg : Messages]

HistoryTyped ==
    /\ wire \subseteq Frames
    /\ sealed \in [SidecarPeerRole -> [Generations -> Seq(Messages)]]
    /\ opened \in [SidecarPeerRole -> [Generations -> Seq(Messages)]]

\* What a side has sealed and opened in its present generation.
Out(p) == sealed[p][chan[p].generation]
In(p) == opened[p][chan[p].generation]

\* The counters of a channel count them, and later generations have none.
Counted ==
    \A p \in SidecarPeerRole :
        /\ chan[p].send_sequence = Len(Out(p))
        /\ chan[p].receive_sequence = Len(In(p))
        /\ \A g \in Generations :
              g > chan[p].generation => sealed[p][g] = <<>> /\ opened[p][g] = <<>>

\* A frame on the wire carries what its header says was sealed.
Authentic ==
    \A f \in wire :
        /\ f.sequence \in 1 .. Len(sealed[f.from][f.generation])
        /\ f.msg = sealed[f.from][f.generation][f.sequence]

\* What was opened was sealed, at the same place.
Matching ==
    \A p \in SidecarPeerRole, g \in Generations : \A i \in 1 .. Len(opened[p][g]) :
        /\ i \in 1 .. Len(sealed[expected_remote(p)][g])
        /\ opened[p][g][i] = sealed[expected_remote(p)][g][i]

\* How far the supervisor may be, with o sealed and i opened: h is its handshake,
\* s its selection, c the state of its exchange and k its configuration.
SupervisorAt(h, s, c, k, o, i) ==
    /\ h # "AcceptancePending"
    /\ h = "Starting" => Len(o) = 0 /\ Len(i) = 0
    /\ h = "AwaitingAcceptance" => Len(o) = 1 /\ Len(i) = 0
    /\ h = "Authenticated" => Len(o) = 1 /\ Len(i) = 1
    /\ h # "Consumed" => c = None /\ k = None
    /\ s # None => Len(i) >= 1 /\ i[1].selection = s
    /\ c \in {None, "Starting", "AwaitingAcknowledgement", "Configured", "Failed"}
    /\ c = None => Len(o) <= 1
    /\ c = "Starting" => Len(o) = 1 /\ Len(i) = 1
    /\ c = "AwaitingAcknowledgement" => Len(o) = 2 /\ Len(i) = 1
    /\ c = "Configured" => Len(i) >= 2
    /\ k # None => Len(o) >= 2 /\ o[2].configuration = k

\* How far the runtime may be; d is its selection not yet applied.
RuntimeAt(h, d, s, c, k, o, i) ==
    /\ h # "AwaitingAcceptance"
    /\ h = "Starting" => Len(o) = 0 /\ Len(i) = 0
    /\ h = "AcceptancePending" =>
          Len(o) = 1 /\ Len(i) = 1 /\ d \in Selections /\ o[1].selection = d
    /\ h = "Authenticated" => Len(o) = 1 /\ Len(i) = 1
    /\ h # "Consumed" => c = None /\ k = None
    /\ s # None => Len(o) >= 1 /\ o[1].selection = s
    /\ c # "Starting"
    /\ c = None => Len(o) <= 1
    /\ c = "AwaitingConfiguration" => Len(o) = 1 /\ Len(i) = 1
    /\ c = "AwaitingAcknowledgement" => Len(o) = 1 /\ Len(i) = 2 /\ k \in Configurations
    /\ c \in {"AcknowledgementPending", "Configured", "Activated"} => Len(i) >= 2
    /\ k # None => Len(i) >= 2 /\ i[2].configuration = k

SupervisorSound ==
    LET p == "supervisor"
    IN SupervisorAt(hs[p], selection[p], cfg[p], config[p], Out(p), In(p))

RuntimeSound ==
    LET p == "runtime"
    IN RuntimeAt(hs[p], pending[p], selection[p], cfg[p], config[p], Out(p), In(p))

\* A budget goes with a locked ceiling.
BudgetLocked ==
    \A p \in SidecarPeerRole : budget[p] # None => chan[p].frame_limit_locked

SidecarInv ==
    /\ HistoryTyped
    /\ Counted
    /\ Authentic
    /\ Matching
    /\ SupervisorSound
    /\ RuntimeSound
    /\ BudgetLocked
    /\ StatusAlwaysFits

USE SidecarAssumption, OffersAssumption, NoneAssumption

-----------------------------------------------------------------------------
(* Operators.                                                              *)

\* A selection has unsigned fields, as the offers it is made of.
LEMMA SelectionTyped ==
    ASSUME NEW s \in Selections
    PROVE  s.protocol_minor \in Nat /\ s.limits.max_frame_bytes \in Nat
<1>1. PICK o \in Offers, q \in Offers : s = Selection(o, q)
    BY DEF Selections
<1>2. s.protocol_minor = Lower(o.protocol_minor, q.protocol_minor)
    BY <1>1 DEF Selection
<1>3. s.limits = [l \in DOMAIN o.limits |-> Lower(o.limits[l], q.limits[l])]
    BY <1>1 DEF Selection
<1>4. "max_frame_bytes" \in DOMAIN o.limits
    OBVIOUS
<1>5. s.limits.max_frame_bytes = Lower(o.limits.max_frame_bytes, q.limits.max_frame_bytes)
    BY <1>3, <1>4
<1> QED
    BY <1>2, <1>5 DEF Lower

\* Two different roles, each the other's remote.
LEMMA Roles ==
    /\ "supervisor" # "runtime"
    /\ "supervisor" \in SidecarPeerRole /\ "runtime" \in SidecarPeerRole
    /\ expected_remote("supervisor") = "runtime" /\ expected_remote("runtime") = "supervisor"
    /\ \A p \in SidecarPeerRole : p = "supervisor" \/ p = "runtime"
    /\ \A p \in SidecarPeerRole : expected_remote(p) \in SidecarPeerRole /\ expected_remote(p) # p
    BY DEF SidecarPeerRole, expected_remote

\* c and d are channels that differ in their counters, flags and limits at most.
SameProcess(c, d) == d \in Channel /\ d.generation = c.generation

\* They agree on what the counters say.
SameCounters(c, d) ==
    d.send_sequence = c.send_sequence /\ d.receive_sequence = c.receive_sequence

\* They agree on the ceiling, and a lock stays.
SameCeiling(c, d) ==
    /\ d.max_frame_bytes = c.max_frame_bytes
    /\ c.frame_limit_locked => d.frame_limit_locked

\* seal counts one frame more.
LEMMA SentEffect ==
    ASSUME NEW c \in Channel, c.send_sequence < MaxSequence
    PROVE  /\ SameProcess(c, Sent(c)) /\ SameCeiling(c, Sent(c))
           /\ Sent(c).send_sequence = c.send_sequence + 1
           /\ Sent(c).receive_sequence = c.receive_sequence
    BY DEF Channel, Sent, SameProcess, SameCeiling

\* open takes over the sequence number of the frame.
LEMMA ReceivedEffect ==
    ASSUME NEW c \in Channel, NEW f, f.sequence \in 0 .. MaxSequence
    PROVE  /\ SameProcess(c, Received(c, f)) /\ SameCeiling(c, Received(c, f))
           /\ Received(c, f).send_sequence = c.send_sequence
           /\ Received(c, f).receive_sequence = f.sequence
    BY DEF Channel, Received, SameProcess, SameCeiling

\* retire and the lock leave the counters and the ceiling alone.
LEMMA FlagEffect ==
    ASSUME NEW c \in Channel
    PROVE  /\ SameProcess(c, Retired(c)) /\ SameCounters(c, Retired(c))
           /\ SameCeiling(c, Retired(c))
           /\ SameProcess(c, Locked(c)) /\ SameCounters(c, Locked(c))
           /\ SameCeiling(c, Locked(c)) /\ Locked(c).frame_limit_locked
    BY DEF Channel, Retired, Locked, SameProcess, SameCounters, SameCeiling

\* apply_negotiated_protocol changes the ceiling and the minor.
LEMMA AppliedEffect ==
    ASSUME NEW c \in Channel, NEW s \in Selections, s.protocol_minor <= ProtocolMinor
    PROVE  SameProcess(c, Applied(c, s)) /\ SameCounters(c, Applied(c, s))
<1> DEFINE n == s.limits.max_frame_bytes
           k == s.protocol_minor
<1>1. n \in Nat /\ k \in 0 .. ProtocolMinor
    BY SelectionTyped
<1>2. Applied(c, s) = [c EXCEPT !.max_frame_bytes = n, !.protocol_minor = k]
    BY DEF Applied
<1> HIDE DEF n, k
<1> QED
    BY <1>1, <1>2 DEF Channel, SameProcess, SameCounters

\* A new channel starts counting afresh.
LEMMA NewChannelEffect ==
    ASSUME NEW g \in Generations, NEW n \in Ceilings
    PROVE  /\ NewChannel(g, n) \in Channel
           /\ NewChannel(g, n).generation = g
           /\ NewChannel(g, n).send_sequence = 0 /\ NewChannel(g, n).receive_sequence = 0
    BY DEF NewChannel, Channel

-----------------------------------------------------------------------------
(* The shapes of a step: what side p puts on the wire and takes from it.   *)

\* A step of p in its present generation.
Goes(p) ==
    /\ chan' = [chan EXCEPT ![p] = chan'[p]]
    /\ SameProcess(chan[p], chan'[p])

SealsNothing(p) ==
    /\ UNCHANGED <<wire, sealed>>
    /\ chan'[p].send_sequence = chan[p].send_sequence

Seals(p, m) ==
    /\ \E k \in Nat :
          wire' = wire \cup {[from |-> p, generation |-> chan[p].generation, minor |-> k,
                              sequence |-> chan[p].send_sequence + 1, msg |-> m]}
    /\ sealed' = [sealed EXCEPT ![p][chan[p].generation] = Append(@, m)]
    /\ chan'[p].send_sequence = chan[p].send_sequence + 1

OpensNothing(p) ==
    /\ UNCHANGED opened
    /\ chan'[p].receive_sequence = chan[p].receive_sequence

Opens(p, f) ==
    /\ f.from = expected_remote(p)
    /\ f.generation = chan[p].generation
    /\ f.sequence = chan[p].receive_sequence + 1
    /\ opened' = [opened EXCEPT ![p][chan[p].generation] = Append(@, f.msg)]
    /\ chan'[p].receive_sequence = f.sequence

Quiet(p) == Goes(p) /\ SealsNothing(p) /\ OpensNothing(p)

Restarts(p) ==
    /\ UNCHANGED wireVars
    /\ chan' = [chan EXCEPT ![p] = chan'[p]]
    /\ chan'[p] \in Channel
    /\ chan'[p].generation = chan[p].generation + 1
    /\ chan'[p].send_sequence = 0 /\ chan'[p].receive_sequence = 0

\* A channel that may seal counts up within its type.
LEMMA SealShape ==
    ASSUME TypeOK, NEW p \in SidecarPeerRole, NEW m, Seal(p, m), NEW c \in Channel,
           chan' = [chan EXCEPT ![p] = Sent(c)],
           SameProcess(chan[p], c), c.send_sequence = chan[p].send_sequence
    PROVE  /\ Goes(p) /\ Seals(p, m)
           /\ chan'[p].receive_sequence = c.receive_sequence
           /\ SameCeiling(c, chan'[p])
<1>1. chan[p] \in Channel /\ chan[p].protocol_minor \in Nat /\ chan'[p] = Sent(c)
    BY DEF TypeOK, Channel
<1>2. chan[p].send_sequence < MaxSequence
    BY DEF Seal, CanSeal, SequenceLeft
<1>3. /\ SameProcess(c, Sent(c)) /\ SameCeiling(c, Sent(c))
      /\ Sent(c).send_sequence = c.send_sequence + 1
      /\ Sent(c).receive_sequence = c.receive_sequence
    BY <1>2, SentEffect
<1>4. Goes(p)
    BY <1>1, <1>3 DEF Goes, SameProcess
<1>5. Seals(p, m)
    BY <1>1, <1>3 DEF Seals, Seal
<1> QED
    BY <1>1, <1>3, <1>4, <1>5

\* A frame that opens is the next one of the other side.
LEMMA OpenShape ==
    ASSUME TypeOK, HistoryTyped, NEW p \in SidecarPeerRole, NEW f \in wire, NEW kinds,
           Open(p, f, kinds)
    PROVE  /\ f.from = expected_remote(p)
           /\ f.generation = chan[p].generation
           /\ f.sequence = chan[p].receive_sequence + 1
           /\ f.sequence \in 0 .. MaxSequence
           /\ opened' = [opened EXCEPT ![p][chan[p].generation] = Append(@, f.msg)]
           /\ f.msg \in Messages
           /\ f.msg.kind \in kinds
<1>1. f.msg \in Messages
    BY DEF HistoryTyped, Frames
<1>2. chan[p].receive_sequence \in 0 .. MaxSequence
    BY DEF TypeOK, Channel
<1> QED
    BY <1>1, <1>2 DEF Open, CanOpen, InSequence, SameGeneration

\* The messages each action seals.
OfferOf(p) == [kind |-> "offer", offer |-> offer[p]]
AcceptOf(p, f) ==
    [kind |-> "accept", offer |-> offer[p], selection |-> Selection(offer[p], f.msg.offer)]
ConfigureOf(c) == [kind |-> "configure", configuration |-> c]
ConfiguredOf(p) == [kind |-> "configured", manifest |-> Manifest(config[p])]
ActiveOf(p) == [kind |-> "active", body |-> Len(Out(p))]

\* They are messages.
LEMMA MessagesTyped ==
    ASSUME TypeOK, HistoryTyped, NEW p \in SidecarPeerRole
    PROVE  /\ OfferOf(p) \in Messages
           /\ \A f \in wire : f.msg.kind \in HandshakeKinds =>
                 f.msg.offer \in Offers /\ AcceptOf(p, f) \in Messages
           /\ \A f \in wire : f.msg.kind = "configure" => f.msg.configuration \in Configurations
           /\ \A c \in Configurations : ConfigureOf(c) \in Messages
           /\ config[p] \in Configurations => ConfiguredOf(p) \in Messages
           /\ ActiveOf(p) \in Messages
<1>1. offer[p] \in Offers
    BY DEF TypeOK
<1>2. OfferOf(p) \in [kind : {"offer"}, offer : Offers]
    BY <1>1 DEF OfferOf
<1>3. ASSUME NEW f \in wire, f.msg.kind \in HandshakeKinds
      PROVE  f.msg.offer \in Offers /\ AcceptOf(p, f) \in Messages
  <2>1. f.msg \in Messages
    BY DEF HistoryTyped, Frames
  <2>2. f.msg.offer \in Offers
    BY <1>3, <2>1 DEF Messages, HandshakeKinds
  <2>3. Selection(offer[p], f.msg.offer) \in Selections
    BY <1>1, <2>2 DEF Selections
  <2>4. AcceptOf(p, f) \in [kind : {"accept"}, offer : Offers, selection : Selections]
    BY <1>1, <2>3 DEF AcceptOf
  <2> QED
    BY <2>2, <2>4 DEF Messages
<1>4. ASSUME NEW f \in wire, f.msg.kind = "configure"
      PROVE  f.msg.configuration \in Configurations
  <2>1. f.msg \in Messages
    BY DEF HistoryTyped, Frames
  <2> QED
    BY <1>4, <2>1 DEF Messages
<1>5. \A c \in Configurations : ConfigureOf(c) \in [kind : {"configure"}, configuration : Configurations]
    BY DEF ConfigureOf
<1>6. config[p] \in Configurations =>
        ConfiguredOf(p) \in [kind : {"configured"}, manifest : {Manifest(c) : c \in Configurations}]
    BY DEF ConfiguredOf
<1>7. Len(Out(p)) \in Nat
  <2>1. Out(p) \in Seq(Messages)
    BY DEF HistoryTyped, Out, TypeOK, Channel
  <2> QED
    BY <2>1
<1>8. ActiveOf(p) \in [kind : {"active"}, body : Nat]
    BY <1>7 DEF ActiveOf
<1> QED
    BY <1>2, <1>3, <1>4, <1>5, <1>6, <1>8 DEF Messages

\* Steps that leave the wire and the channel's counters alone; all but those
\* that change the ceiling while it is open leave it alone as well.
LEMMA QuietShape ==
    ASSUME TypeOK, SidecarInv, NEW p \in SidecarPeerRole
    PROVE  /\ CompleteAcceptance(p) => Quiet(p) /\ LimitOpen(p)
           /\ \A n \in LowerTo : LowerFrameLimit(p, n) => Quiet(p) /\ LimitOpen(p)
           /\ \/ HandshakeFails(p) \/ NewExchange(p) \/ CompleteAcknowledgement(p)
              \/ ConfigurationFails(p) \/ Activate(p) \/ Retire(p)
              => Quiet(p) /\ SameCeiling(chan[p], chan'[p])
<1> USE DEF Quiet, Goes, SealsNothing, OpensNothing, wireVars
<1>1. chan[p] \in Channel /\ DOMAIN chan = SidecarPeerRole
    BY DEF TypeOK
<1>2. ASSUME CompleteAcceptance(p) PROVE Quiet(p) /\ LimitOpen(p)
  <2>1. pending[p] \in Selections /\ pending[p].protocol_minor <= ProtocolMinor
    BY <1>2 DEF CompleteAcceptance, CanApply, SidecarInv, RuntimeSound,
       RuntimeAt
  <2>2. chan' = [chan EXCEPT ![p] = Applied(chan[p], pending[p])] /\ UNCHANGED wireVars
    BY <1>2 DEF CompleteAcceptance
  <2>3. chan'[p] = Applied(chan[p], pending[p])
    BY <1>1, <2>2
  <2>4. SameProcess(chan[p], chan'[p]) /\ SameCounters(chan[p], chan'[p])
    BY <1>1, <2>1, <2>3, AppliedEffect
  <2> QED
    BY <1>2, <2>2, <2>3, <2>4 DEF CompleteAcceptance, CanApply, CanLower, SameCounters
<1>3. ASSUME NEW n \in LowerTo, LowerFrameLimit(p, n) PROVE Quiet(p) /\ LimitOpen(p)
  <2>1. chan' = [chan EXCEPT ![p] = [chan[p] EXCEPT !.max_frame_bytes = n]]
    BY <1>3 DEF LowerFrameLimit
  <2>2. chan'[p] = [chan[p] EXCEPT !.max_frame_bytes = n]
    BY <1>1, <2>1
  <2>3. SameProcess(chan[p], chan'[p]) /\ SameCounters(chan[p], chan'[p])
    BY <1>1, <2>2 DEF SameProcess, SameCounters, Channel
  <2> QED
    BY <1>3, <2>1, <2>2, <2>3 DEF LowerFrameLimit, CanLower, SameCounters
<1>4. ASSUME HandshakeFails(p) \/ ConfigurationFails(p) \/ Retire(p)
      PROVE  Quiet(p) /\ SameCeiling(chan[p], chan'[p])
  <2>1. chan' = [chan EXCEPT ![p] = Retired(chan[p])] /\ UNCHANGED wireVars
    BY <1>4 DEF HandshakeFails, ConfigurationFails, Retire
  <2>2. chan'[p] = Retired(chan[p])
    BY <1>1, <2>1
  <2> QED
    BY <1>1, <2>1, <2>2, FlagEffect DEF SameCounters
<1>5. ASSUME UNCHANGED <<chan, wireVars>>
      PROVE  Quiet(p) /\ SameCeiling(chan[p], chan'[p])
    BY <1>1, <1>5 DEF SameProcess, SameCeiling, TypeOK
<1>6. NewExchange(p) \/ CompleteAcknowledgement(p) \/ Activate(p) => UNCHANGED <<chan, wireVars>>
    BY DEF NewExchange, CompleteAcknowledgement, Activate
<1> QED
    BY <1>2, <1>3, <1>4, <1>5, <1>6

\* Steps that only seal.
LEMMA SealingShape ==
    ASSUME TypeOK, SidecarInv, NEW p \in SidecarPeerRole
    PROVE  /\ HandshakeStart(p) =>
                 Goes(p) /\ Seals(p, OfferOf(p)) /\ OpensNothing(p) /\ SameCeiling(chan[p], chan'[p])
           /\ Acknowledge(p) =>
                 Goes(p) /\ Seals(p, ConfiguredOf(p)) /\ OpensNothing(p) /\ SameCeiling(chan[p], chan'[p])
           /\ SealMessage(p) =>
                 Goes(p) /\ Seals(p, ActiveOf(p)) /\ OpensNothing(p) /\ SameCeiling(chan[p], chan'[p])
           /\ \A c \in Configurations : ConfigurationStart(p, c) =>
                 /\ Goes(p) /\ Seals(p, ConfigureOf(c)) /\ OpensNothing(p)
                 /\ SameCeiling(chan[p], chan'[p]) /\ chan'[p].frame_limit_locked
<1>1. chan[p] \in Channel /\ SameProcess(chan[p], chan[p])
    BY DEF TypeOK, SameProcess
<1>2. ASSUME NEW m, Seal(p, m), chan' = [chan EXCEPT ![p] = Sent(chan[p])], UNCHANGED opened
      PROVE  Goes(p) /\ Seals(p, m) /\ OpensNothing(p) /\ SameCeiling(chan[p], chan'[p])
    BY <1>1, <1>2, SealShape DEF OpensNothing
<1>3. ASSUME HandshakeStart(p)
      PROVE  Seal(p, OfferOf(p)) /\ chan' = [chan EXCEPT ![p] = Sent(chan[p])] /\ UNCHANGED opened
    BY <1>3 DEF HandshakeStart, OfferOf
<1>4. ASSUME Acknowledge(p)
      PROVE  Seal(p, ConfiguredOf(p)) /\ chan' = [chan EXCEPT ![p] = Sent(chan[p])] /\ UNCHANGED opened
    BY <1>4 DEF Acknowledge, ConfiguredOf
<1>5. ASSUME SealMessage(p)
      PROVE  Seal(p, ActiveOf(p)) /\ chan' = [chan EXCEPT ![p] = Sent(chan[p])] /\ UNCHANGED opened
    BY <1>5 DEF SealMessage, ActiveOf, Out
<1>6. ASSUME NEW c \in Configurations, ConfigurationStart(p, c)
      PROVE  /\ Goes(p) /\ Seals(p, ConfigureOf(c)) /\ OpensNothing(p)
             /\ SameCeiling(chan[p], chan'[p]) /\ chan'[p].frame_limit_locked
  <2>1. /\ Seal(p, ConfigureOf(c)) /\ UNCHANGED opened
        /\ chan' = [chan EXCEPT ![p] = Sent(Locked(chan[p]))]
    BY <1>6 DEF ConfigurationStart, ConfigureOf
  <2>2. /\ SameProcess(chan[p], Locked(chan[p])) /\ SameCounters(chan[p], Locked(chan[p]))
        /\ SameCeiling(chan[p], Locked(chan[p])) /\ Locked(chan[p]).frame_limit_locked
        /\ Locked(chan[p]) \in Channel
    BY <1>1, FlagEffect DEF SameProcess
  <2>3. /\ Goes(p) /\ Seals(p, ConfigureOf(c))
        /\ chan'[p].receive_sequence = Locked(chan[p]).receive_sequence
        /\ SameCeiling(Locked(chan[p]), chan'[p])
    BY <2>1, <2>2, SealShape DEF SameCounters
  <2> QED
    BY <2>1, <2>2, <2>3 DEF OpensNothing, SameCounters, SameCeiling
<1> QED
    BY <1>2, <1>3, <1>4, <1>5, <1>6

\* Steps that open a frame; AcceptSupervisor seals the acceptance as well.
LEMMA OpeningShape ==
    ASSUME TypeOK, SidecarInv, NEW p \in SidecarPeerRole, NEW f \in wire
    PROVE  /\ AcceptSupervisor(p, f) =>
                 Goes(p) /\ Seals(p, AcceptOf(p, f)) /\ Opens(p, f) /\ SameCeiling(chan[p], chan'[p])
           /\ ConfirmRuntime(p, f) => Goes(p) /\ SealsNothing(p) /\ Opens(p, f) /\ LimitOpen(p)
           /\ ReceiveConfiguration(p, f) =>
                 /\ Goes(p) /\ SealsNothing(p) /\ Opens(p, f)
                 /\ SameCeiling(chan[p], chan'[p]) /\ chan'[p].frame_limit_locked
           /\ ReceiveAcknowledgement(p, f) \/ OpenMessage(p, f) =>
                 Goes(p) /\ SealsNothing(p) /\ Opens(p, f) /\ SameCeiling(chan[p], chan'[p])
<1> DEFINE c == chan[p]
<1>1. c \in Channel /\ DOMAIN chan = SidecarPeerRole /\ HistoryTyped
    BY DEF TypeOK, SidecarInv
<1>2. ASSUME NEW kinds, Open(p, f, kinds)
      PROVE  /\ f.sequence \in 0 .. MaxSequence
             /\ \A d : d.receive_sequence = f.sequence /\ chan' = [chan EXCEPT ![p] = d] => Opens(p, f)
    BY <1>1, <1>2, OpenShape DEF Opens
<1>3. ASSUME f.sequence \in 0 .. MaxSequence
      PROVE  /\ SameProcess(c, Received(c, f)) /\ SameCeiling(c, Received(c, f))
             /\ Received(c, f).send_sequence = c.send_sequence
             /\ Received(c, f).receive_sequence = f.sequence
             /\ SameProcess(c, Received(Locked(c), f)) /\ SameCeiling(c, Received(Locked(c), f))
             /\ Received(Locked(c), f).send_sequence = c.send_sequence
             /\ Received(Locked(c), f).receive_sequence = f.sequence
             /\ Received(Locked(c), f).frame_limit_locked
  <2>1. /\ SameProcess(c, Locked(c)) /\ SameCounters(c, Locked(c)) /\ SameCeiling(c, Locked(c))
        /\ Locked(c) \in Channel /\ Locked(c).frame_limit_locked
    BY <1>1, FlagEffect DEF SameProcess
  <2> HIDE DEF c
  <2> QED
    BY <1>1, <1>3, <2>1, ReceivedEffect DEF SameProcess, SameCounters, SameCeiling
<1>4. ASSUME AcceptSupervisor(p, f)
      PROVE  Goes(p) /\ Seals(p, AcceptOf(p, f)) /\ Opens(p, f) /\ SameCeiling(chan[p], chan'[p])
  <2>1. /\ Open(p, f, HandshakeKinds) /\ Seal(p, AcceptOf(p, f))
        /\ chan' = [chan EXCEPT ![p] = Sent(Received(c, f))]
    BY <1>4 DEF AcceptSupervisor, AcceptOf
  <2>2. f.sequence \in 0 .. MaxSequence
    BY <1>2, <2>1
  <2>3. /\ Goes(p) /\ Seals(p, AcceptOf(p, f))
        /\ chan'[p].receive_sequence = f.sequence
        /\ SameCeiling(Received(c, f), chan'[p])
    BY <1>3, <2>1, <2>2, SealShape DEF SameProcess
  <2>4. Opens(p, f)
    BY <1>1, <2>1, <2>3, OpenShape DEF Opens
  <2> QED
    BY <1>3, <2>2, <2>3, <2>4 DEF SameCeiling
<1>5. ASSUME ConfirmRuntime(p, f)
      PROVE  Goes(p) /\ SealsNothing(p) /\ Opens(p, f) /\ LimitOpen(p)
  <2> DEFINE s == Selection(offer[p], f.msg.offer)
  <2>1. /\ Open(p, f, HandshakeKinds) /\ CanApply(p, s) /\ UNCHANGED <<wire, sealed>>
        /\ f.msg.kind \in HandshakeKinds
        /\ chan' = [chan EXCEPT ![p] = Applied(Received(c, f), s)]
    BY <1>5 DEF ConfirmRuntime, HandshakeKinds
  <2>2. s \in Selections
    BY <1>1, <2>1, MessagesTyped DEF TypeOK, Selections
  <2>3. f.sequence \in 0 .. MaxSequence /\ chan'[p] = Applied(Received(c, f), s)
    BY <1>1, <1>2, <2>1
  <2>4. Received(c, f) \in Channel
    BY <1>3, <2>3 DEF SameProcess
  <2> HIDE DEF s
  <2>5. SameProcess(Received(c, f), chan'[p]) /\ SameCounters(Received(c, f), chan'[p])
    BY <2>1, <2>2, <2>3, <2>4, AppliedEffect DEF CanApply
  <2>6. /\ SameProcess(c, chan'[p]) /\ chan'[p].send_sequence = c.send_sequence
        /\ chan'[p].receive_sequence = f.sequence
    BY <1>3, <2>3, <2>5 DEF SameProcess, SameCounters
  <2> QED
    BY <1>1, <2>1, <2>3, <2>6, OpenShape DEF Opens, Goes, SealsNothing, CanApply, CanLower
<1>6. ASSUME ReceiveConfiguration(p, f)
      PROVE  /\ Goes(p) /\ SealsNothing(p) /\ Opens(p, f)
             /\ SameCeiling(chan[p], chan'[p]) /\ chan'[p].frame_limit_locked
  <2>1. /\ Open(p, f, RuntimeKinds) /\ UNCHANGED <<wire, sealed>>
        /\ chan' = [chan EXCEPT ![p] = Received(Locked(c), f)]
    BY <1>6 DEF ReceiveConfiguration
  <2>2. f.sequence \in 0 .. MaxSequence /\ chan'[p] = Received(Locked(c), f)
    BY <1>1, <1>2, <2>1
  <2> QED
    BY <1>1, <1>3, <2>1, <2>2, OpenShape DEF Opens, Goes, SealsNothing
<1>7. ASSUME ReceiveAcknowledgement(p, f) \/ OpenMessage(p, f)
      PROVE  Goes(p) /\ SealsNothing(p) /\ Opens(p, f) /\ SameCeiling(chan[p], chan'[p])
  <2>1. /\ Open(p, f, RuntimeKinds) /\ UNCHANGED <<wire, sealed>>
        /\ \/ chan' = [chan EXCEPT ![p] = Received(Locked(c), f)]
           \/ chan' = [chan EXCEPT ![p] = Received(c, f)]
    BY <1>7 DEF ReceiveAcknowledgement, OpenMessage
  <2>2. /\ f.sequence \in 0 .. MaxSequence
        /\ chan'[p] = Received(Locked(c), f) \/ chan'[p] = Received(c, f)
    BY <1>1, <1>2, <2>1
  <2> QED
    BY <1>1, <1>3, <2>1, <2>2, OpenShape DEF Opens, Goes, SealsNothing
<1> QED
    BY <1>4, <1>5, <1>6, <1>7

\* A side that is started again.
LEMMA RestartShape ==
    ASSUME TypeOK, NEW p \in SidecarPeerRole, NEW n \in Ceilings, NEW o \in Offers,
           Restart(p, n, o)
    PROVE  Restarts(p)
<1>1. chan[p].generation + 1 \in Generations
    BY DEF TypeOK, Channel, Restart, Generations
<1>2. chan'[p] = NewChannel(chan[p].generation + 1, n)
    BY DEF TypeOK, Restart
<1>3. /\ chan'[p] \in Channel
      /\ chan'[p].generation = chan[p].generation + 1
      /\ chan'[p].send_sequence = 0 /\ chan'[p].receive_sequence = 0
    BY <1>1, <1>2, NewChannelEffect
<1>4. chan' = [chan EXCEPT ![p] = chan'[p]]
    BY <1>2 DEF Restart
<1>5. UNCHANGED wireVars
    BY DEF Restart
<1> QED
    BY <1>3, <1>4, <1>5 DEF Restarts

-----------------------------------------------------------------------------
(* The histories.                                                          *)

\* What is sealed and opened are sequences of messages.
LEMMA HistorySequences ==
    ASSUME TypeOK, HistoryTyped, NEW p \in SidecarPeerRole
    PROVE  /\ chan[p].generation \in Generations
           /\ Out(p) \in Seq(Messages) /\ In(p) \in Seq(Messages)
           /\ \A g \in Generations : sealed[p][g] \in Seq(Messages) /\ opened[p][g] \in Seq(Messages)
    BY DEF TypeOK, Channel, HistoryTyped, Out, In

\* What a step that stays in its generation does to a history.
LEMMA SealEffect ==
    ASSUME TypeOK, HistoryTyped, NEW p \in SidecarPeerRole, Goes(p),
           NEW m \in Messages, Seals(p, m)
    PROVE  /\ Out(p)' = Append(Out(p), m)
           /\ sealed' \in [SidecarPeerRole -> [Generations -> Seq(Messages)]]
           /\ \A q \in SidecarPeerRole, g \in Generations :
                 q # p \/ g # chan[p].generation => sealed'[q][g] = sealed[q][g]
<1>1. Out(p) \in Seq(Messages) /\ chan[p].generation \in Generations
    BY HistorySequences
<1>2. Append(Out(p), m) \in Seq(Messages)
    BY <1>1
<1>3. sealed' = [sealed EXCEPT ![p][chan[p].generation] = Append(Out(p), m)]
    BY DEF Seals, Out
<1>4. chan'[p].generation = chan[p].generation
    BY DEF Goes, SameProcess
<1> QED
    BY <1>1, <1>2, <1>3, <1>4 DEF HistoryTyped, Out

\* The same of a step that opens a frame.
LEMMA OpenEffect ==
    ASSUME TypeOK, HistoryTyped, NEW p \in SidecarPeerRole, Goes(p),
           NEW f \in wire, Opens(p, f)
    PROVE  /\ In(p)' = Append(In(p), f.msg) /\ f.msg \in Messages
           /\ opened' \in [SidecarPeerRole -> [Generations -> Seq(Messages)]]
           /\ \A q \in SidecarPeerRole, g \in Generations :
                 q # p \/ g # chan[p].generation => opened'[q][g] = opened[q][g]
<1>1. In(p) \in Seq(Messages) /\ chan[p].generation \in Generations
    BY HistorySequences
<1>2. f.msg \in Messages
    BY DEF HistoryTyped, Frames
<1>3. Append(In(p), f.msg) \in Seq(Messages)
    BY <1>1, <1>2
<1>4. opened' = [opened EXCEPT ![p][chan[p].generation] = Append(In(p), f.msg)]
    BY DEF Opens, In
<1>5. chan'[p].generation = chan[p].generation
    BY DEF Goes, SameProcess
<1> QED
    BY <1>1, <1>2, <1>3, <1>4, <1>5 DEF HistoryTyped, In

\* Nothing sealed, or nothing opened.
LEMMA SilentEffect ==
    ASSUME TypeOK, HistoryTyped, NEW p \in SidecarPeerRole, Goes(p)
    PROVE  /\ SealsNothing(p) => Out(p)' = Out(p)
           /\ OpensNothing(p) => In(p)' = In(p)
           /\ \A q \in SidecarPeerRole : q # p => chan'[q] = chan[q]
    BY DEF Goes, SameProcess, SealsNothing, OpensNothing, Out, In, TypeOK

\* The invariant of the histories.
HistoryInv == HistoryTyped /\ Counted /\ Authentic /\ Matching

\* Sealing keeps it.
LEMMA SealKeepsHistory ==
    ASSUME TypeOK, HistoryInv, NEW p \in SidecarPeerRole, Goes(p),
           NEW m \in Messages, Seals(p, m)
    PROVE  /\ wire' \subseteq Frames
           /\ sealed' \in [SidecarPeerRole -> [Generations -> Seq(Messages)]]
           /\ chan'[p].send_sequence = Len(Out(p)')
           /\ Authentic'
           /\ \A q \in SidecarPeerRole, g \in Generations : \A i \in 1 .. Len(sealed[q][g]) :
                 i \in 1 .. Len(sealed'[q][g]) /\ sealed'[q][g][i] = sealed[q][g][i]
<1> DEFINE h == chan[p].generation
           n == Len(Out(p))
<1>1. /\ HistoryTyped /\ h \in Generations /\ Out(p) \in Seq(Messages)
      /\ n \in Nat /\ chan[p].send_sequence = n
    BY HistorySequences DEF HistoryInv, Counted
<1>2. /\ sealed' \in [SidecarPeerRole -> [Generations -> Seq(Messages)]]
      /\ sealed'[p][h] = Append(Out(p), m)
      /\ \A q \in SidecarPeerRole, g \in Generations :
            q # p \/ g # h => sealed'[q][g] = sealed[q][g]
      /\ Out(p)' = Append(Out(p), m)
  <2>1. /\ Out(p)' = Append(Out(p), m)
        /\ sealed' \in [SidecarPeerRole -> [Generations -> Seq(Messages)]]
        /\ \A q \in SidecarPeerRole, g \in Generations :
              q # p \/ g # chan[p].generation => sealed'[q][g] = sealed[q][g]
    BY <1>1, SealEffect, Zenon
  <2>2. chan'[p].generation = h
    BY DEF Goes, SameProcess
  <2>3. sealed'[p][h] = Append(Out(p), m)
    BY <2>1, <2>2 DEF Out
  <2> QED
    BY <2>1, <2>3, Zenon
<1>3. /\ Len(sealed'[p][h]) = n + 1 /\ sealed'[p][h][n + 1] = m
      /\ \A i \in 1 .. n : sealed'[p][h][i] = Out(p)[i]
    BY <1>1, <1>2
<1>4. \A q \in SidecarPeerRole, g \in Generations : \A i \in 1 .. Len(sealed[q][g]) :
         i \in 1 .. Len(sealed'[q][g]) /\ sealed'[q][g][i] = sealed[q][g][i]
  <2> SUFFICES ASSUME NEW q \in SidecarPeerRole, NEW g \in Generations,
                      NEW i \in 1 .. Len(sealed[q][g])
               PROVE  i \in 1 .. Len(sealed'[q][g]) /\ sealed'[q][g][i] = sealed[q][g][i]
    OBVIOUS
  <2>1. CASE q = p /\ g = h
    BY <1>1, <1>3, <2>1 DEF Out
  <2>2. CASE q # p \/ g # h
    BY <1>2, <2>2
  <2> QED
    BY <2>1, <2>2
<1>5. PICK k \in Nat :
        wire' = wire \cup {[from |-> p, generation |-> h, minor |-> k, sequence |-> n + 1,
                            msg |-> m]}
    BY <1>1 DEF Seals
<1> DEFINE new == [from |-> p, generation |-> h, minor |-> k, sequence |-> n + 1, msg |-> m]
<1>6. new \in Frames
    BY <1>1 DEF Frames
<1>7. wire' \subseteq Frames
    BY <1>1, <1>5, <1>6 DEF HistoryTyped
<1>8. Authentic'
  <2> SUFFICES ASSUME NEW f \in wire'
               PROVE  /\ f.sequence \in 1 .. Len(sealed'[f.from][f.generation])
                      /\ f.msg = sealed'[f.from][f.generation][f.sequence]
    BY DEF Authentic
  <2>1. CASE f \in wire
    <3>1. f.from \in SidecarPeerRole /\ f.generation \in Generations
      BY <1>1, <2>1 DEF HistoryTyped, Frames
    <3>2. /\ f.sequence \in 1 .. Len(sealed[f.from][f.generation])
          /\ f.msg = sealed[f.from][f.generation][f.sequence]
      BY <2>1 DEF HistoryInv, Authentic
    <3> QED
      BY <1>4, <3>1, <3>2
  <2>2. CASE f = new
    <3>1. /\ f.from = p /\ f.generation = h /\ f.sequence = n + 1 /\ f.msg = m
      BY <2>2
    <3> HIDE DEF new, h, n
    <3> QED
      BY <1>1, <1>3, <3>1 DEF n
  <2> QED
    BY <1>5, <2>1, <2>2
<1>9. chan'[p].send_sequence = Len(Out(p)')
    BY <1>1, <1>2 DEF Seals
<1> QED
    BY <1>2, <1>4, <1>7, <1>8, <1>9

\* A step in its generation that seals one message or none, and opens one frame
\* or none, keeps the histories' invariant.
LEMMA GoesKeepsHistory ==
    ASSUME TypeOK, HistoryInv, NEW p \in SidecarPeerRole, Goes(p),
           SealsNothing(p) \/ \E m \in Messages : Seals(p, m),
           OpensNothing(p) \/ \E f \in wire : Opens(p, f)
    PROVE  HistoryInv'
<1> DEFINE h == chan[p].generation
<1>1. /\ HistoryTyped /\ h \in Generations /\ chan'[p].generation = h
      /\ In(p) \in Seq(Messages)
      /\ \A q \in SidecarPeerRole : q # p => chan'[q] = chan[q]
    BY HistorySequences, SilentEffect DEF HistoryInv, Goes, SameProcess
<1>2. /\ wire' \subseteq Frames
      /\ sealed' \in [SidecarPeerRole -> [Generations -> Seq(Messages)]]
      /\ chan'[p].send_sequence = Len(Out(p)')
      /\ Authentic'
      /\ \A q \in SidecarPeerRole, g \in Generations : \A i \in 1 .. Len(sealed[q][g]) :
            i \in 1 .. Len(sealed'[q][g]) /\ sealed'[q][g][i] = sealed[q][g][i]
      /\ \A q \in SidecarPeerRole, g \in Generations :
            q # p \/ g # h => sealed'[q][g] = sealed[q][g]
  <2>1. CASE SealsNothing(p)
    BY <1>1, <2>1, SilentEffect DEF SealsNothing, HistoryInv, HistoryTyped, Counted, Authentic
  <2>2. CASE \E m \in Messages : Seals(p, m)
    BY <1>1, <2>2, SealKeepsHistory, SealEffect
  <2> QED
    BY <2>1, <2>2
<1>3. /\ opened' \in [SidecarPeerRole -> [Generations -> Seq(Messages)]]
      /\ chan'[p].receive_sequence = Len(In(p)')
      /\ \A q \in SidecarPeerRole, g \in Generations :
            q # p \/ g # h => opened'[q][g] = opened[q][g]
      /\ \A i \in 1 .. Len(opened'[p][h]) :
            /\ i \in 1 .. Len(sealed'[expected_remote(p)][h])
            /\ opened'[p][h][i] = sealed'[expected_remote(p)][h][i]
  <2>0. /\ expected_remote(p) \in SidecarPeerRole
        /\ \A i \in 1 .. Len(In(p)) :
              /\ i \in 1 .. Len(sealed'[expected_remote(p)][h])
              /\ In(p)[i] = sealed'[expected_remote(p)][h][i]
    BY <1>1, <1>2, Roles DEF HistoryInv, Matching, In
  <2>1. CASE OpensNothing(p)
    BY <1>1, <2>0, <2>1, SilentEffect DEF OpensNothing, HistoryInv, HistoryTyped, Counted, In
  <2>2. ASSUME NEW f \in wire, Opens(p, f)
        PROVE  /\ opened' \in [SidecarPeerRole -> [Generations -> Seq(Messages)]]
               /\ chan'[p].receive_sequence = Len(In(p)')
               /\ \A q \in SidecarPeerRole, g \in Generations :
                     q # p \/ g # h => opened'[q][g] = opened[q][g]
               /\ \A i \in 1 .. Len(opened'[p][h]) :
                     /\ i \in 1 .. Len(sealed'[expected_remote(p)][h])
                     /\ opened'[p][h][i] = sealed'[expected_remote(p)][h][i]
    <3> DEFINE n == Len(In(p))
    <3>1. /\ In(p)' = Append(In(p), f.msg) /\ f.msg \in Messages
          /\ opened' \in [SidecarPeerRole -> [Generations -> Seq(Messages)]]
          /\ \A q \in SidecarPeerRole, g \in Generations :
                q # p \/ g # h => opened'[q][g] = opened[q][g]
      BY <1>1, <2>2, OpenEffect
    <3>2. /\ n \in Nat /\ f.sequence = n + 1 /\ chan'[p].receive_sequence = n + 1
          /\ f.from = expected_remote(p) /\ f.generation = h
      BY <1>1, <2>2, SMTT(30) DEF Opens, HistoryInv, Counted
    <3>3. /\ n + 1 \in 1 .. Len(sealed'[expected_remote(p)][h])
          /\ f.msg = sealed'[expected_remote(p)][h][n + 1]
      <4>1. /\ f.sequence \in 1 .. Len(sealed[f.from][f.generation])
            /\ f.msg = sealed[f.from][f.generation][f.sequence]
        BY DEF HistoryInv, Authentic
      <4> HIDE DEF n, h
      <4> QED
        BY <1>1, <1>2, <2>0, <3>2, <4>1
    <3>4. opened'[p][h] = In(p)'
      BY <1>1 DEF In
    <3>5. /\ Len(In(p)') = n + 1 /\ In(p)'[n + 1] = f.msg
          /\ \A i \in 1 .. n : In(p)'[i] = In(p)[i]
      BY <1>1, <3>1
    <3>6. \A i \in 1 .. n + 1 : i \in 1 .. n \/ i = n + 1
      BY <3>2
    <3> HIDE DEF n, h
    <3>7. \A i \in 1 .. n + 1 :
             /\ i \in 1 .. Len(sealed'[expected_remote(p)][h])
             /\ In(p)'[i] = sealed'[expected_remote(p)][h][i]
      BY <2>0, <3>3, <3>5, <3>6 DEF n
    <3> QED
      BY <3>1, <3>2, <3>4, <3>5, <3>7
  <2> QED
    BY <2>1, <2>2
<1>4. Counted'
  <2> SUFFICES ASSUME NEW q \in SidecarPeerRole
               PROVE  /\ chan'[q].send_sequence = Len(Out(q)')
                      /\ chan'[q].receive_sequence = Len(In(q)')
                      /\ \A g \in Generations :
                            g > chan'[q].generation => sealed'[q][g] = <<>> /\ opened'[q][g] = <<>>
    BY DEF Counted
  <2>1. chan[q].generation \in Generations
    BY HistorySequences, <1>1
  <2>2. \A g \in Generations : g > h => g # h
    BY <1>1 DEF Generations
  <2>3. CASE q = p
    <3>1. \A g \in Generations : g > h => sealed[p][g] = <<>> /\ opened[p][g] = <<>>
      BY DEF HistoryInv, Counted
    <3>2. \A g \in Generations : g > h => sealed'[p][g] = <<>> /\ opened'[p][g] = <<>>
      BY <1>2, <1>3, <2>2, <3>1
    <3> QED
      BY <1>1, <1>2, <1>3, <2>3, <3>2
  <2>4. CASE q # p
    <3>1. \A g \in Generations : sealed'[q][g] = sealed[q][g] /\ opened'[q][g] = opened[q][g]
      BY <1>2, <1>3, <2>4
    <3>2. chan'[q] = chan[q] /\ Out(q)' = Out(q) /\ In(q)' = In(q)
      BY <1>1, <2>1, <2>4, <3>1 DEF Out, In
    <3>3. /\ chan[q].send_sequence = Len(Out(q)) /\ chan[q].receive_sequence = Len(In(q))
          /\ \A g \in Generations :
                g > chan[q].generation => sealed[q][g] = <<>> /\ opened[q][g] = <<>>
      BY DEF HistoryInv, Counted
    <3> QED
      BY <3>1, <3>2, <3>3
  <2> QED
    BY <2>3, <2>4
<1>5. Matching'
  <2> SUFFICES ASSUME NEW q \in SidecarPeerRole, NEW g \in Generations,
                      NEW i \in 1 .. Len(opened'[q][g])
               PROVE  /\ i \in 1 .. Len(sealed'[expected_remote(q)][g])
                      /\ opened'[q][g][i] = sealed'[expected_remote(q)][g][i]
    BY DEF Matching
  <2>1. CASE q = p /\ g = h
    BY <1>3, <2>1
  <2>2. CASE q # p \/ g # h
    <3>1. opened'[q][g] = opened[q][g]
      BY <1>3, <2>2
    <3>2. expected_remote(q) \in SidecarPeerRole
      BY Roles
    <3> QED
      BY <1>2, <3>1, <3>2 DEF HistoryInv, Matching
  <2> QED
    BY <2>1, <2>2
<1>6. HistoryTyped'
    BY <1>2, <1>3 DEF HistoryTyped
<1> QED
    BY <1>2, <1>4, <1>5, <1>6 DEF HistoryInv

\* A restart keeps it: the new generation has no history yet.
LEMMA RestartKeepsHistory ==
    ASSUME TypeOK, HistoryInv, NEW p \in SidecarPeerRole, Restarts(p)
    PROVE  /\ HistoryInv' /\ Len(Out(p)') = 0 /\ Len(In(p)') = 0
           /\ \A q \in SidecarPeerRole : q # p => Out(q)' = Out(q) /\ In(q)' = In(q)
<1>1. UNCHANGED <<wire, sealed, opened>>
    BY DEF Restarts, wireVars
<1>2. HistoryTyped' /\ Authentic' /\ Matching'
  <2>1. HistoryTyped'
    BY <1>1 DEF HistoryInv, HistoryTyped
  <2>2. Authentic'
    BY <1>1 DEF HistoryInv, Authentic
  <2>3. Matching'
    BY <1>1 DEF HistoryInv, Matching
  <2> QED
    BY <2>1, <2>2, <2>3
<1>3. /\ chan'[p].generation \in Generations /\ chan[p].generation \in Generations
      /\ chan'[p].generation = chan[p].generation + 1
      /\ \A q \in SidecarPeerRole : q # p => chan'[q] = chan[q]
    BY DEF Restarts, TypeOK, Channel
<1>4. chan'[p].generation > chan[p].generation
    BY <1>3 DEF Generations
<1>5. Out(p)' = <<>> /\ In(p)' = <<>>
    BY <1>1, <1>3, <1>4 DEF HistoryInv, Counted, Out, In
<1>6. \A q \in SidecarPeerRole : q # p => Out(q)' = Out(q) /\ In(q)' = In(q)
    BY <1>1, <1>3 DEF Out, In
<1>7. \A g \in Generations : g > chan'[p].generation => g > chan[p].generation
    BY <1>3 DEF Generations
<1>8. Counted'
    BY <1>1, <1>3, <1>5, <1>6, <1>7 DEF HistoryInv, Counted, Restarts
<1> QED
    BY <1>2, <1>5, <1>6, <1>8 DEF HistoryInv

-----------------------------------------------------------------------------
(* Every step keeps the types and the invariant.                           *)

\* The disjuncts of Next, as the steps below take them up one by one.
LEMMA NextCases ==
    ASSUME Next
    PROVE  \E p \in SidecarPeerRole :
              \/ HandshakeStart(p)
              \/ CompleteAcceptance(p)
              \/ HandshakeFails(p)
              \/ NewExchange(p)
              \/ Acknowledge(p)
              \/ CompleteAcknowledgement(p)
              \/ ConfigurationFails(p)
              \/ Activate(p)
              \/ SealMessage(p)
              \/ Retire(p)
              \/ \E n \in LowerTo : LowerFrameLimit(p, n)
              \/ \E c \in Configurations : ConfigurationStart(p, c)
              \/ \E f \in wire : AcceptSupervisor(p, f)
              \/ \E f \in wire : ConfirmRuntime(p, f)
              \/ \E f \in wire : ReceiveConfiguration(p, f)
              \/ \E f \in wire : ReceiveAcknowledgement(p, f)
              \/ \E f \in wire : OpenMessage(p, f)
              \/ \E n \in Ceilings, o \in Offers : Restart(p, n, o)
    BY DEF Next

\* t is s with m behind it.
Grows(t, s, m) ==
    /\ Len(s) \in Nat /\ Len(t) = Len(s) + 1
    /\ t[Len(s) + 1] = m
    /\ \A i \in 1 .. Len(s) : t[i] = s[i]

\* The first two places of a sequence that grows.
LEMMA GrowsEffect ==
    ASSUME NEW t, NEW s, NEW m, Grows(t, s, m)
    PROVE  /\ Len(s) \in Nat /\ Len(t) = Len(s) + 1
           /\ Len(s) >= 1 => t[1] = s[1]
           /\ Len(s) >= 2 => t[2] = s[2]
    BY DEF Grows

\* One element becomes two.
LEMMA GrowsFromOne ==
    ASSUME NEW t, NEW s, NEW m, Grows(t, s, m), Len(s) = 1
    PROVE  Len(t) = 2 /\ t[1] = s[1] /\ t[2] = m
<1>1. t[1 + 1] = m
    BY DEF Grows
<1> QED
    BY <1>1 DEF Grows

(* The steps of the two exchanges, told by what each one seals and opens.  *)

\* The supervisor has sent its offer.
LEMMA HandshakeStartAt ==
    ASSUME NEW s, NEW c, NEW k, NEW o, NEW i, NEW t, NEW m,
           SupervisorAt("Starting", s, c, k, o, i), Grows(t, o, m)
    PROVE  SupervisorAt("AwaitingAcceptance", s, c, k, t, i)
    BY DEF SupervisorAt, Grows

\* The runtime has opened it and sealed its acceptance.
LEMMA AcceptSupervisorAt ==
    ASSUME NEW d, NEW s, NEW c, NEW k, NEW o, NEW i, NEW t, NEW j, NEW m, NEW n, NEW e,
           RuntimeAt("Starting", d, s, c, k, o, i), Grows(t, o, m), Grows(j, i, n),
           e \in Selections, m.selection = e
    PROVE  RuntimeAt("AcceptancePending", e, s, c, k, t, j)
    BY DEF RuntimeAt, Grows

\* The supervisor has opened the acceptance.
LEMMA ConfirmRuntimeAt ==
    ASSUME NEW s, NEW c, NEW k, NEW o, NEW i, NEW j, NEW n,
           SupervisorAt("AwaitingAcceptance", s, c, k, o, i), Grows(j, i, n)
    PROVE  SupervisorAt("Authenticated", n.selection, c, k, o, j)
    BY DEF SupervisorAt, Grows

\* The supervisor has sealed its configuration.
LEMMA ConfigurationStartAt ==
    ASSUME NEW h, NEW s, NEW k, NEW o, NEW i, NEW t, NEW m, NEW e,
           SupervisorAt(h, s, "Starting", k, o, i), Grows(t, o, m), m.configuration = e
    PROVE  SupervisorAt(h, s, "AwaitingAcknowledgement", e, t, i)
<1>1. Len(o) = 1
    BY DEF SupervisorAt
<1>2. Len(t) = 2 /\ t[2] = m
    BY <1>1, GrowsFromOne
<1> QED
    BY <1>1, <1>2 DEF SupervisorAt

\* The runtime has opened it.
LEMMA ReceiveConfigurationAt ==
    ASSUME NEW h, NEW d, NEW s, NEW k, NEW o, NEW i, NEW j, NEW n,
           RuntimeAt(h, d, s, "AwaitingConfiguration", k, o, i), Grows(j, i, n),
           n.configuration \in Configurations
    PROVE  RuntimeAt(h, d, s, "AwaitingAcknowledgement", n.configuration, o, j)
<1>1. Len(i) = 1
    BY DEF RuntimeAt
<1>2. Len(j) = 2 /\ j[2] = n
    BY <1>1, GrowsFromOne
<1> QED
    BY <1>1, <1>2 DEF RuntimeAt

\* The runtime has sealed the acknowledgement.
LEMMA AcknowledgeAt ==
    ASSUME NEW h, NEW d, NEW s, NEW k, NEW o, NEW i, NEW t, NEW m,
           RuntimeAt(h, d, s, "AwaitingAcknowledgement", k, o, i), Grows(t, o, m)
    PROVE  RuntimeAt(h, d, s, "AcknowledgementPending", k, t, i)
    BY DEF RuntimeAt, Grows

\* The supervisor has opened it.
LEMMA ReceiveAcknowledgementAt ==
    ASSUME NEW h, NEW s, NEW k, NEW o, NEW i, NEW j, NEW n,
           SupervisorAt(h, s, "AwaitingAcknowledgement", k, o, i), Grows(j, i, n)
    PROVE  SupervisorAt(h, s, "Configured", k, o, j)
    BY DEF SupervisorAt, Grows

\* What the shapes mean for what each side has sealed and opened.
LEMMA ShapeEffect ==
    ASSUME TypeOK, HistoryTyped, NEW p \in SidecarPeerRole, Goes(p)
    PROVE  /\ SealsNothing(p) => \A q \in SidecarPeerRole : Out(q)' = Out(q)
           /\ OpensNothing(p) => \A q \in SidecarPeerRole : In(q)' = In(q)
           /\ \A m \in Messages : Seals(p, m) =>
                 /\ Grows(Out(p)', Out(p), m)
                 /\ \A q \in SidecarPeerRole : q # p => Out(q)' = Out(q)
           /\ \A f \in wire : Opens(p, f) =>
                 /\ Grows(In(p)', In(p), f.msg)
                 /\ \A q \in SidecarPeerRole : q # p => In(q)' = In(q)
<1>1. \A q \in SidecarPeerRole : q # p => chan'[q] = chan[q]
    BY SilentEffect
<1>2. ASSUME SealsNothing(p), NEW q \in SidecarPeerRole PROVE Out(q)' = Out(q)
    BY <1>1, <1>2, SilentEffect DEF SealsNothing, Out
<1>3. ASSUME OpensNothing(p), NEW q \in SidecarPeerRole PROVE In(q)' = In(q)
    BY <1>1, <1>3, SilentEffect DEF OpensNothing, In
<1>4. ASSUME NEW m \in Messages, Seals(p, m)
      PROVE  /\ Grows(Out(p)', Out(p), m)
             /\ \A q \in SidecarPeerRole : q # p => Out(q)' = Out(q)
  <2>1. Out(p) \in Seq(Messages) /\ Out(p)' = Append(Out(p), m)
    BY <1>4, HistorySequences, SealEffect
  <2>2. Grows(Append(Out(p), m), Out(p), m)
    BY <2>1 DEF Grows
  <2>3. ASSUME NEW q \in SidecarPeerRole, q # p PROVE Out(q)' = Out(q)
    <3>1. chan'[q] = chan[q] /\ chan[q].generation \in Generations
      BY <1>1, <2>3, HistorySequences
    <3>2. sealed'[q][chan[q].generation] = sealed[q][chan[q].generation]
      BY <1>4, <2>3, <3>1, SealEffect
    <3> QED
      BY <3>1, <3>2 DEF Out
  <2> QED
    BY <2>1, <2>2, <2>3
<1>5. ASSUME NEW f \in wire, Opens(p, f)
      PROVE  /\ Grows(In(p)', In(p), f.msg)
             /\ \A q \in SidecarPeerRole : q # p => In(q)' = In(q)
  <2>1. In(p) \in Seq(Messages) /\ In(p)' = Append(In(p), f.msg) /\ f.msg \in Messages
    BY <1>5, HistorySequences, OpenEffect
  <2>2. Grows(Append(In(p), f.msg), In(p), f.msg)
    BY <2>1 DEF Grows
  <2>3. ASSUME NEW q \in SidecarPeerRole, q # p PROVE In(q)' = In(q)
    <3>1. chan'[q] = chan[q] /\ chan[q].generation \in Generations
      BY <1>1, <2>3, HistorySequences
    <3>2. opened'[q][chan[q].generation] = opened[q][chan[q].generation]
      BY <1>5, <2>3, <3>1, OpenEffect
    <3> QED
      BY <3>1, <3>2 DEF In
  <2> QED
    BY <2>1, <2>2, <2>3
<1> QED
    BY <1>2, <1>3, <1>4, <1>5

\* A channel that goes on or is replaced stays a channel.
LEMMA ChannelsTyped ==
    ASSUME TypeOK, NEW p \in SidecarPeerRole, Goes(p) \/ Restarts(p)
    PROVE  chan' \in [SidecarPeerRole -> Channel]
    BY DEF TypeOK, Goes, Restarts, SameProcess

\* What has to be shown of the histories, of the sides and of the budget.
HistoryKept == HistoryInv' /\ chan' \in [SidecarPeerRole -> Channel]
SidesKept == SupervisorSound' /\ RuntimeSound'
BudgetKept == BudgetLocked' /\ StatusAlwaysFits'

\* The histories.
LEMMA HistoryStep ==
    ASSUME TypeOK, SidecarInv, [Next]_vars
    PROVE  HistoryKept
<1>0. HistoryInv /\ HistoryTyped
    BY DEF SidecarInv, HistoryInv
<1>1. ASSUME NEW p \in SidecarPeerRole, HandshakeStart(p) PROVE HistoryKept
  <2>1. OfferOf(p) \in Messages
    BY <1>0, MessagesTyped
  <2> QED
    BY <1>0, <1>1, <2>1, SealingShape, GoesKeepsHistory, ChannelsTyped DEF HistoryKept
<1>2. ASSUME NEW p \in SidecarPeerRole, CompleteAcceptance(p) PROVE HistoryKept
    BY <1>0, <1>2, QuietShape, GoesKeepsHistory, ChannelsTyped DEF Quiet, HistoryKept
<1>3. ASSUME NEW p \in SidecarPeerRole, HandshakeFails(p) PROVE HistoryKept
    BY <1>0, <1>3, QuietShape, GoesKeepsHistory, ChannelsTyped DEF Quiet, HistoryKept
<1>4. ASSUME NEW p \in SidecarPeerRole, NewExchange(p) PROVE HistoryKept
    BY <1>0, <1>4, QuietShape, GoesKeepsHistory, ChannelsTyped DEF Quiet, HistoryKept
<1>5. ASSUME NEW p \in SidecarPeerRole, Acknowledge(p) PROVE HistoryKept
  <2>1. ConfiguredOf(p) \in Messages
    BY <1>0, <1>5, MessagesTyped
       DEF Acknowledge, SidecarInv, RuntimeSound, RuntimeAt
  <2> QED
    BY <1>0, <1>5, <2>1, SealingShape, GoesKeepsHistory, ChannelsTyped DEF HistoryKept
<1>6. ASSUME NEW p \in SidecarPeerRole, CompleteAcknowledgement(p) PROVE HistoryKept
    BY <1>0, <1>6, QuietShape, GoesKeepsHistory, ChannelsTyped DEF Quiet, HistoryKept
<1>7. ASSUME NEW p \in SidecarPeerRole, ConfigurationFails(p) PROVE HistoryKept
    BY <1>0, <1>7, QuietShape, GoesKeepsHistory, ChannelsTyped DEF Quiet, HistoryKept
<1>8. ASSUME NEW p \in SidecarPeerRole, Activate(p) PROVE HistoryKept
    BY <1>0, <1>8, QuietShape, GoesKeepsHistory, ChannelsTyped DEF Quiet, HistoryKept
<1>9. ASSUME NEW p \in SidecarPeerRole, SealMessage(p) PROVE HistoryKept
  <2>1. ActiveOf(p) \in Messages
    BY <1>0, MessagesTyped
  <2> QED
    BY <1>0, <1>9, <2>1, SealingShape, GoesKeepsHistory, ChannelsTyped DEF HistoryKept
<1>10. ASSUME NEW p \in SidecarPeerRole, Retire(p) PROVE HistoryKept
    BY <1>0, <1>10, QuietShape, GoesKeepsHistory, ChannelsTyped DEF Quiet, HistoryKept
<1>11. ASSUME NEW p \in SidecarPeerRole, NEW n \in LowerTo, LowerFrameLimit(p, n)
       PROVE  HistoryKept
    BY <1>0, <1>11, QuietShape, GoesKeepsHistory, ChannelsTyped DEF Quiet, HistoryKept
<1>12. ASSUME NEW p \in SidecarPeerRole, NEW c \in Configurations, ConfigurationStart(p, c)
       PROVE  HistoryKept
  <2>1. ConfigureOf(c) \in Messages
    BY <1>0, MessagesTyped
  <2> QED
    BY <1>0, <1>12, <2>1, SealingShape, GoesKeepsHistory, ChannelsTyped DEF HistoryKept
<1>13. ASSUME NEW p \in SidecarPeerRole, NEW f \in wire, AcceptSupervisor(p, f)
       PROVE  HistoryKept
  <2>1. AcceptOf(p, f) \in Messages
    BY <1>0, <1>13, MessagesTyped DEF AcceptSupervisor, HandshakeKinds
  <2> QED
    BY <1>0, <1>13, <2>1, OpeningShape, GoesKeepsHistory, ChannelsTyped DEF HistoryKept
<1>14. ASSUME NEW p \in SidecarPeerRole, NEW f \in wire, ConfirmRuntime(p, f)
       PROVE  HistoryKept
    BY <1>0, <1>14, OpeningShape, GoesKeepsHistory, ChannelsTyped DEF HistoryKept
<1>15. ASSUME NEW p \in SidecarPeerRole, NEW f \in wire, ReceiveConfiguration(p, f)
       PROVE  HistoryKept
    BY <1>0, <1>15, OpeningShape, GoesKeepsHistory, ChannelsTyped DEF HistoryKept
<1>16. ASSUME NEW p \in SidecarPeerRole, NEW f \in wire, ReceiveAcknowledgement(p, f)
       PROVE  HistoryKept
    BY <1>0, <1>16, OpeningShape, GoesKeepsHistory, ChannelsTyped DEF HistoryKept
<1>17. ASSUME NEW p \in SidecarPeerRole, NEW f \in wire, OpenMessage(p, f) PROVE HistoryKept
    BY <1>0, <1>17, OpeningShape, GoesKeepsHistory, ChannelsTyped DEF HistoryKept
<1>18. ASSUME NEW p \in SidecarPeerRole, NEW n \in Ceilings, NEW o \in Offers, Restart(p, n, o)
       PROVE  HistoryKept
    BY <1>0, <1>18, RestartShape, RestartKeepsHistory, ChannelsTyped DEF HistoryKept
<1>19. CASE UNCHANGED vars
    BY <1>0, <1>19 DEF vars, wireVars, TypeOK, HistoryInv, HistoryTyped, Counted, Authentic,
       Matching, Out, In, HistoryKept
<1> QED
    BY <1>1, <1>2, <1>3, <1>4, <1>5, <1>6, <1>7, <1>8, <1>9, <1>10, <1>11, <1>12, <1>13,
       <1>14, <1>15, <1>16, <1>17, <1>18, <1>19, NextCases

\* The types of the rest.
LEMMA TypeStep ==
    ASSUME TypeOK, SidecarInv, [Next]_vars
    PROVE  TypeOK'
<1>0. chan' \in [SidecarPeerRole -> Channel] /\ HistoryTyped
    BY HistoryStep DEF HistoryKept, SidecarInv
<1> DEFINE SelectionTypes == {Selection(o, q) : o, q \in Offers}
<1> USE DEF TypeOK, peerVars
<1>1. ASSUME NEW p \in SidecarPeerRole, HandshakeStart(p) PROVE TypeOK'
    BY <1>0, <1>1 DEF HandshakeStart
<1>2. ASSUME NEW p \in SidecarPeerRole, CompleteAcceptance(p) PROVE TypeOK'
    BY <1>0, <1>2 DEF CompleteAcceptance
<1>3. ASSUME NEW p \in SidecarPeerRole, HandshakeFails(p) PROVE TypeOK'
    BY <1>0, <1>3 DEF HandshakeFails
<1>4. ASSUME NEW p \in SidecarPeerRole, NewExchange(p) PROVE TypeOK'
    BY <1>0, <1>4 DEF NewExchange
<1>5. ASSUME NEW p \in SidecarPeerRole, Acknowledge(p) PROVE TypeOK'
    BY <1>0, <1>5 DEF Acknowledge
<1>6. ASSUME NEW p \in SidecarPeerRole, CompleteAcknowledgement(p) PROVE TypeOK'
    BY <1>0, <1>6 DEF CompleteAcknowledgement
<1>7. ASSUME NEW p \in SidecarPeerRole, ConfigurationFails(p) PROVE TypeOK'
    BY <1>0, <1>7 DEF ConfigurationFails
<1>8. ASSUME NEW p \in SidecarPeerRole, Activate(p) PROVE TypeOK'
    BY <1>0, <1>8 DEF Activate
<1>9. ASSUME NEW p \in SidecarPeerRole, SealMessage(p) PROVE TypeOK'
    BY <1>0, <1>9 DEF SealMessage
<1>10. ASSUME NEW p \in SidecarPeerRole, Retire(p) PROVE TypeOK'
    BY <1>0, <1>10 DEF Retire
<1>11. ASSUME NEW p \in SidecarPeerRole, NEW n \in LowerTo, LowerFrameLimit(p, n)
       PROVE  TypeOK'
    BY <1>0, <1>11 DEF LowerFrameLimit
<1>12. ASSUME NEW p \in SidecarPeerRole, NEW c \in Configurations, ConfigurationStart(p, c)
       PROVE  TypeOK'
  <2>1. chan[p].max_frame_bytes \in Nat
    BY DEF Channel
  <2> QED
    BY <1>0, <1>12, <2>1 DEF ConfigurationStart, Keep
<1>13. ASSUME NEW p \in SidecarPeerRole, NEW f \in wire, AcceptSupervisor(p, f)
       PROVE  TypeOK'
  <2>1. f.msg.offer \in Offers
    BY <1>0, <1>13, MessagesTyped DEF AcceptSupervisor, HandshakeKinds
  <2>2. Selection(offer[p], f.msg.offer) \in SelectionTypes
    BY <2>1
  <2> HIDE DEF SelectionTypes
  <2> QED
    BY <1>0, <1>13, <2>2 DEF AcceptSupervisor, SelectionTypes
<1>14. ASSUME NEW p \in SidecarPeerRole, NEW f \in wire, ConfirmRuntime(p, f) PROVE TypeOK'
  <2>1. f.msg.offer \in Offers
    BY <1>0, <1>14, MessagesTyped DEF ConfirmRuntime, HandshakeKinds
  <2>2. Selection(offer[p], f.msg.offer) \in SelectionTypes
    BY <2>1
  <2> HIDE DEF SelectionTypes
  <2> QED
    BY <1>0, <1>14, <2>2 DEF ConfirmRuntime, SelectionTypes
<1>15. ASSUME NEW p \in SidecarPeerRole, NEW f \in wire, ReceiveConfiguration(p, f)
       PROVE  TypeOK'
  <2>1. chan[p].max_frame_bytes \in Nat
    BY DEF Channel
  <2>2. f.msg.configuration \in Configurations
    BY <1>0, <1>15, MessagesTyped DEF ReceiveConfiguration
  <2> QED
    BY <1>0, <1>15, <2>1, <2>2 DEF ReceiveConfiguration, Keep
<1>16. ASSUME NEW p \in SidecarPeerRole, NEW f \in wire, ReceiveAcknowledgement(p, f)
       PROVE  TypeOK'
    BY <1>0, <1>16 DEF ReceiveAcknowledgement
<1>17. ASSUME NEW p \in SidecarPeerRole, NEW f \in wire, OpenMessage(p, f) PROVE TypeOK'
    BY <1>0, <1>17 DEF OpenMessage
<1>18. ASSUME NEW p \in SidecarPeerRole, NEW n \in Ceilings, NEW o \in Offers, Restart(p, n, o)
       PROVE  TypeOK'
    BY <1>0, <1>18 DEF Restart
<1>19. CASE UNCHANGED vars
    BY <1>19 DEF vars
<1> HIDE DEF TypeOK
<1> QED
    BY <1>1, <1>2, <1>3, <1>4, <1>5, <1>6, <1>7, <1>8, <1>9, <1>10, <1>11, <1>12, <1>13,
       <1>14, <1>15, <1>16, <1>17, <1>18, <1>19, NextCases

\* Where each side is in its exchange.
LEMMA SidesStep ==
    ASSUME TypeOK, SidecarInv, [Next]_vars
    PROVE  SidesKept
<1>0. HistoryInv /\ HistoryTyped /\ SupervisorSound /\ RuntimeSound
    BY DEF SidecarInv, HistoryInv
<1>a. \A p \in SidecarPeerRole : Len(Out(p)) \in Nat /\ Len(In(p)) \in Nat
    BY <1>0, HistorySequences
<1> USE Roles DEF TypeOK, SupervisorSound, RuntimeSound, SupervisorAt, RuntimeAt, SidesKept
<1>1. ASSUME NEW p \in SidecarPeerRole, HandshakeStart(p) PROVE SidesKept
  <2>0. OfferOf(p) \in Messages
    BY <1>0, MessagesTyped
  <2>1. /\ Grows(Out(p)', Out(p), OfferOf(p))
        /\ \A q \in SidecarPeerRole : In(q)' = In(q) /\ (q # p => Out(q)' = Out(q))
    BY <1>0, <1>1, <2>0, SealingShape, ShapeEffect
  <2>2. RuntimeSound'
    BY <1>0, <1>1, <2>1 DEF HandshakeStart, OfferOf
  <2>3. /\ p = "supervisor" /\ hs[p] = "Starting" /\ hs'[p] = "AwaitingAcceptance"
        /\ pending'[p] = pending[p] /\ selection'[p] = selection[p]
        /\ cfg'[p] = cfg[p] /\ config'[p] = config[p]
    BY <1>0, <1>1 DEF HandshakeStart, OfferOf
  <2>4. SupervisorSound'
    <3> HIDE Roles DEF TypeOK, SupervisorAt, RuntimeAt, SidesKept, RuntimeSound
    <3>1. SupervisorAt("Starting", selection[p], cfg[p], config[p], Out(p), In(p))
      BY <1>0, <2>3
    <3>2. SupervisorAt("AwaitingAcceptance", selection[p], cfg[p], config[p], Out(p)', In(p))
      BY <2>1, <2>3, <3>1, HandshakeStartAt
    <3> QED
      BY <2>1, <2>3, <3>2
  <2> QED
    BY <2>2, <2>4
<1>2. ASSUME NEW p \in SidecarPeerRole, CompleteAcceptance(p) PROVE SidesKept
  <2>1. \A q \in SidecarPeerRole : Out(q)' = Out(q) /\ In(q)' = In(q)
    BY <1>0, <1>2, QuietShape, ShapeEffect DEF Quiet
  <2> QED
    BY <1>0, <1>a, <1>2, <2>1 DEF CompleteAcceptance
<1>3. ASSUME NEW p \in SidecarPeerRole, HandshakeFails(p) PROVE SidesKept
  <2>1. \A q \in SidecarPeerRole : Out(q)' = Out(q) /\ In(q)' = In(q)
    BY <1>0, <1>3, QuietShape, ShapeEffect DEF Quiet
  <2> QED
    BY <1>0, <1>a, <1>3, <2>1 DEF HandshakeFails
<1>4. ASSUME NEW p \in SidecarPeerRole, NewExchange(p) PROVE SidesKept
  <2>1. \A q \in SidecarPeerRole : Out(q)' = Out(q) /\ In(q)' = In(q)
    BY <1>0, <1>4, QuietShape, ShapeEffect DEF Quiet
  <2> QED
    BY <1>0, <1>a, <1>4, <2>1 DEF NewExchange
<1>5. ASSUME NEW p \in SidecarPeerRole, Acknowledge(p) PROVE SidesKept
  <2>0. ConfiguredOf(p) \in Messages
    BY <1>0, <1>5, MessagesTyped DEF Acknowledge
  <2>1. /\ Grows(Out(p)', Out(p), ConfiguredOf(p))
        /\ \A q \in SidecarPeerRole : In(q)' = In(q) /\ (q # p => Out(q)' = Out(q))
    BY <1>0, <1>5, <2>0, SealingShape, ShapeEffect
  <2>2. SupervisorSound'
    BY <1>0, <1>5, <2>1 DEF Acknowledge, ConfiguredOf
  <2>3. /\ p = "runtime" /\ hs'[p] = hs[p] /\ cfg[p] = "AwaitingAcknowledgement"
        /\ cfg'[p] = "AcknowledgementPending" /\ config'[p] = config[p]
        /\ pending'[p] = pending[p] /\ selection'[p] = selection[p]
    BY <1>0, <1>5 DEF Acknowledge, ConfiguredOf
  <2>4. RuntimeSound'
    <3> HIDE Roles DEF TypeOK, SupervisorAt, RuntimeAt, SidesKept, SupervisorSound
    <3>1. RuntimeAt(hs[p], pending[p], selection[p], "AwaitingAcknowledgement", config[p], Out(p), In(p))
      BY <1>0, <2>3
    <3>2. RuntimeAt(hs[p], pending[p], selection[p], "AcknowledgementPending", config[p], Out(p)', In(p))
      BY <2>1, <2>3, <3>1, AcknowledgeAt
    <3> QED
      BY <2>1, <2>3, <3>2
  <2> QED
    BY <2>2, <2>4
<1>6. ASSUME NEW p \in SidecarPeerRole, CompleteAcknowledgement(p) PROVE SidesKept
  <2>1. \A q \in SidecarPeerRole : Out(q)' = Out(q) /\ In(q)' = In(q)
    BY <1>0, <1>6, QuietShape, ShapeEffect DEF Quiet
  <2> QED
    BY <1>0, <1>a, <1>6, <2>1 DEF CompleteAcknowledgement
<1>7. ASSUME NEW p \in SidecarPeerRole, ConfigurationFails(p) PROVE SidesKept
  <2>1. \A q \in SidecarPeerRole : Out(q)' = Out(q) /\ In(q)' = In(q)
    BY <1>0, <1>7, QuietShape, ShapeEffect DEF Quiet
  <2> QED
    BY <1>0, <1>a, <1>7, <2>1 DEF ConfigurationFails
<1>8. ASSUME NEW p \in SidecarPeerRole, Activate(p) PROVE SidesKept
  <2>1. \A q \in SidecarPeerRole : Out(q)' = Out(q) /\ In(q)' = In(q)
    BY <1>0, <1>8, QuietShape, ShapeEffect DEF Quiet
  <2> QED
    BY <1>0, <1>a, <1>8, <2>1 DEF Activate
<1>9. ASSUME NEW p \in SidecarPeerRole, SealMessage(p) PROVE SidesKept
  <2>0. ActiveOf(p) \in Messages
    BY <1>0, MessagesTyped
  <2>1. /\ Grows(Out(p)', Out(p), ActiveOf(p))
        /\ \A q \in SidecarPeerRole : In(q)' = In(q) /\ (q # p => Out(q)' = Out(q))
    BY <1>0, <1>9, <2>0, SealingShape, ShapeEffect
  <2>2. UNCHANGED peerVars /\ cfg[p] \in {"Configured", "Activated"}
    BY <1>9 DEF SealMessage, Active
  <2>3. /\ In(p)' = In(p) /\ Len(Out(p)') = Len(Out(p)) + 1
        /\ Len(Out(p)) >= 1 => Out(p)'[1] = Out(p)[1]
        /\ Len(Out(p)) >= 2 => Out(p)'[2] = Out(p)[2]
    BY <2>1, GrowsEffect
  <2>4. SupervisorSound'
    <3>1. CASE p = "supervisor"
      BY <1>0, <1>a, <2>2, <2>3, <3>1 DEF peerVars
    <3>2. CASE p # "supervisor"
      BY <1>0, <2>1, <2>2, <3>2 DEF peerVars
    <3> QED
      BY <3>1, <3>2
  <2>5. RuntimeSound'
    <3>1. CASE p = "runtime"
      BY <1>0, <1>a, <2>2, <2>3, <3>1 DEF peerVars
    <3>2. CASE p # "runtime"
      BY <1>0, <2>1, <2>2, <3>2 DEF peerVars
    <3> QED
      BY <3>1, <3>2
  <2> QED
    BY <2>4, <2>5
<1>10. ASSUME NEW p \in SidecarPeerRole, Retire(p) PROVE SidesKept
  <2>1. \A q \in SidecarPeerRole : Out(q)' = Out(q) /\ In(q)' = In(q)
    BY <1>0, <1>10, QuietShape, ShapeEffect DEF Quiet
  <2> QED
    BY <1>0, <1>a, <1>10, <2>1 DEF Retire, peerVars
<1>11. ASSUME NEW p \in SidecarPeerRole, NEW n \in LowerTo, LowerFrameLimit(p, n)
       PROVE  SidesKept
  <2>1. \A q \in SidecarPeerRole : Out(q)' = Out(q) /\ In(q)' = In(q)
    BY <1>0, <1>11, QuietShape, ShapeEffect DEF Quiet
  <2> QED
    BY <1>0, <1>a, <1>11, <2>1 DEF LowerFrameLimit, peerVars
<1>12. ASSUME NEW p \in SidecarPeerRole, NEW c \in Configurations, ConfigurationStart(p, c)
       PROVE  SidesKept
  <2>0. ConfigureOf(c) \in Messages
    BY <1>0, MessagesTyped
  <2>1. /\ Grows(Out(p)', Out(p), ConfigureOf(c))
        /\ \A q \in SidecarPeerRole : In(q)' = In(q) /\ (q # p => Out(q)' = Out(q))
    BY <1>0, <1>12, <2>0, SealingShape, ShapeEffect
  <2>2. RuntimeSound'
    BY <1>0, <1>12, <2>1 DEF ConfigurationStart, ConfigureOf, Keep
  <2>3. /\ p = "supervisor" /\ hs'[p] = hs[p] /\ cfg[p] = "Starting"
        /\ cfg'[p] = "AwaitingAcknowledgement" /\ config'[p] = c
        /\ pending'[p] = pending[p] /\ selection'[p] = selection[p]
    BY <1>0, <1>12 DEF ConfigurationStart, ConfigureOf, Keep
  <2>4. SupervisorSound'
    <3> HIDE Roles DEF TypeOK, SupervisorAt, RuntimeAt, SidesKept, RuntimeSound
    <3>1. SupervisorAt(hs[p], selection[p], "Starting", config[p], Out(p), In(p))
      BY <1>0, <2>3
    <3>2. SupervisorAt(hs[p], selection[p], "AwaitingAcknowledgement", c, Out(p)', In(p))
      BY <2>1, <2>3, <3>1, ConfigurationStartAt DEF ConfigureOf
    <3> QED
      BY <2>1, <2>3, <3>2
  <2> QED
    BY <2>2, <2>4
<1>13. ASSUME NEW p \in SidecarPeerRole, NEW f \in wire, AcceptSupervisor(p, f)
       PROVE  SidesKept
  <2>0. AcceptOf(p, f) \in Messages
    BY <1>0, <1>13, MessagesTyped DEF AcceptSupervisor, HandshakeKinds
  <2>1. /\ Grows(In(p)', In(p), f.msg) /\ Grows(Out(p)', Out(p), AcceptOf(p, f))
        /\ \A q \in SidecarPeerRole : q # p => Out(q)' = Out(q) /\ In(q)' = In(q)
    BY <1>0, <1>13, <2>0, OpeningShape, ShapeEffect
  <2>2. SupervisorSound'
    BY <1>0, <1>13, <2>1 DEF AcceptSupervisor, AcceptOf
  <2>a. f.msg.offer \in Offers /\ offer[p] \in Offers
    BY <1>0, <1>13, MessagesTyped DEF AcceptSupervisor, HandshakeKinds
  <2>3. /\ p = "runtime" /\ hs[p] = "Starting" /\ hs'[p] = "AcceptancePending"
        /\ pending'[p] = Selection(offer[p], f.msg.offer) /\ selection'[p] = selection[p]
        /\ pending'[p] \in Selections
        /\ cfg'[p] = cfg[p] /\ config'[p] = config[p]
    BY <1>0, <1>13, <2>a DEF AcceptSupervisor, Selections
  <2>4. RuntimeSound'
    <3> HIDE Roles DEF TypeOK, SupervisorAt, RuntimeAt, SidesKept, SupervisorSound
    <3>1. RuntimeAt("Starting", pending[p], selection[p], cfg[p], config[p], Out(p), In(p))
      BY <1>0, <2>3
    <3>2. RuntimeAt("AcceptancePending", pending'[p], selection[p], cfg[p], config[p], Out(p)', In(p)')
      BY <2>1, <2>3, <3>1, AcceptSupervisorAt DEF AcceptOf
    <3> QED
      BY <2>1, <2>3, <3>2
  <2> QED
    BY <2>2, <2>4
<1>14. ASSUME NEW p \in SidecarPeerRole, NEW f \in wire, ConfirmRuntime(p, f)
       PROVE  SidesKept
  <2>1. /\ Grows(In(p)', In(p), f.msg)
        /\ \A q \in SidecarPeerRole : Out(q)' = Out(q) /\ (q # p => In(q)' = In(q))
    BY <1>0, <1>14, OpeningShape, ShapeEffect
  <2>2. RuntimeSound'
    BY <1>0, <1>14, <2>1 DEF ConfirmRuntime
  <2>3. /\ p = "supervisor" /\ hs[p] = "AwaitingAcceptance" /\ hs'[p] = "Authenticated"
        /\ selection'[p] = f.msg.selection
        /\ cfg'[p] = cfg[p] /\ config'[p] = config[p]
    BY <1>0, <1>14 DEF ConfirmRuntime
  <2>4. SupervisorSound'
    <3> HIDE Roles DEF TypeOK, SupervisorAt, RuntimeAt, SidesKept, RuntimeSound
    <3>1. SupervisorAt("AwaitingAcceptance", selection[p], cfg[p], config[p], Out(p), In(p))
      BY <1>0, <2>3
    <3>2. SupervisorAt("Authenticated", f.msg.selection, cfg[p], config[p], Out(p), In(p)')
      BY <2>1, <2>3, <3>1, ConfirmRuntimeAt
    <3> QED
      BY <2>1, <2>3, <3>2
  <2> QED
    BY <2>2, <2>4
<1>15. ASSUME NEW p \in SidecarPeerRole, NEW f \in wire, ReceiveConfiguration(p, f)
       PROVE  SidesKept
  <2>1. /\ Grows(In(p)', In(p), f.msg)
        /\ \A q \in SidecarPeerRole : Out(q)' = Out(q) /\ (q # p => In(q)' = In(q))
    BY <1>0, <1>15, OpeningShape, ShapeEffect
  <2>2. SupervisorSound'
    BY <1>0, <1>15, <2>1 DEF ReceiveConfiguration, Keep
  <2>3. /\ p = "runtime" /\ hs'[p] = hs[p] /\ cfg[p] = "AwaitingConfiguration"
        /\ cfg'[p] = "AwaitingAcknowledgement" /\ config'[p] = f.msg.configuration
        /\ f.msg.configuration \in Configurations
        /\ pending'[p] = pending[p] /\ selection'[p] = selection[p]
    BY <1>0, <1>15, MessagesTyped DEF ReceiveConfiguration, Keep
  <2>4. RuntimeSound'
    <3> HIDE Roles DEF TypeOK, SupervisorAt, RuntimeAt, SidesKept, SupervisorSound
    <3>1. RuntimeAt(hs[p], pending[p], selection[p], "AwaitingConfiguration", config[p], Out(p), In(p))
      BY <1>0, <2>3
    <3>2. RuntimeAt(hs[p], pending[p], selection[p], "AwaitingAcknowledgement", f.msg.configuration, Out(p), In(p)')
      BY <2>1, <2>3, <3>1, ReceiveConfigurationAt
    <3> QED
      BY <2>1, <2>3, <3>2
  <2> QED
    BY <2>2, <2>4
<1>16. ASSUME NEW p \in SidecarPeerRole, NEW f \in wire, ReceiveAcknowledgement(p, f)
       PROVE  SidesKept
  <2>1. /\ Grows(In(p)', In(p), f.msg)
        /\ \A q \in SidecarPeerRole : Out(q)' = Out(q) /\ (q # p => In(q)' = In(q))
    BY <1>0, <1>16, OpeningShape, ShapeEffect
  <2>2. RuntimeSound'
    BY <1>0, <1>16, <2>1 DEF ReceiveAcknowledgement
  <2>3. /\ p = "supervisor" /\ hs'[p] = hs[p] /\ cfg[p] = "AwaitingAcknowledgement"
        /\ cfg'[p] = "Configured" /\ config'[p] = config[p]
        /\ pending'[p] = pending[p] /\ selection'[p] = selection[p]
    BY <1>0, <1>16 DEF ReceiveAcknowledgement
  <2>4. SupervisorSound'
    <3> HIDE Roles DEF TypeOK, SupervisorAt, RuntimeAt, SidesKept, RuntimeSound
    <3>1. SupervisorAt(hs[p], selection[p], "AwaitingAcknowledgement", config[p], Out(p), In(p))
      BY <1>0, <2>3
    <3>2. SupervisorAt(hs[p], selection[p], "Configured", config[p], Out(p), In(p)')
      BY <2>1, <2>3, <3>1, ReceiveAcknowledgementAt
    <3> QED
      BY <2>1, <2>3, <3>2
  <2> QED
    BY <2>2, <2>4
<1>17. ASSUME NEW p \in SidecarPeerRole, NEW f \in wire, OpenMessage(p, f) PROVE SidesKept
  <2>1. /\ Grows(In(p)', In(p), f.msg)
        /\ \A q \in SidecarPeerRole : Out(q)' = Out(q) /\ (q # p => In(q)' = In(q))
    BY <1>0, <1>17, OpeningShape, ShapeEffect
  <2>2. UNCHANGED peerVars /\ cfg[p] \in {"Configured", "Activated"}
    BY <1>17 DEF OpenMessage, Active
  <2>3. /\ Out(p)' = Out(p) /\ Len(In(p)') = Len(In(p)) + 1
        /\ Len(In(p)) >= 1 => In(p)'[1] = In(p)[1]
        /\ Len(In(p)) >= 2 => In(p)'[2] = In(p)[2]
    BY <2>1, GrowsEffect
  <2>4. SupervisorSound'
    <3>1. CASE p = "supervisor"
      BY <1>0, <1>a, <2>2, <2>3, <3>1 DEF peerVars
    <3>2. CASE p # "supervisor"
      BY <1>0, <2>1, <2>2, <3>2 DEF peerVars
    <3> QED
      BY <3>1, <3>2
  <2>5. RuntimeSound'
    <3>1. CASE p = "runtime"
      BY <1>0, <1>a, <2>2, <2>3, <3>1 DEF peerVars
    <3>2. CASE p # "runtime"
      BY <1>0, <2>1, <2>2, <3>2 DEF peerVars
    <3> QED
      BY <3>1, <3>2
  <2> QED
    BY <2>4, <2>5
<1>18. ASSUME NEW p \in SidecarPeerRole, NEW n \in Ceilings, NEW o \in Offers, Restart(p, n, o)
       PROVE  SidesKept
  <2>1. /\ Len(Out(p)') = 0 /\ Len(In(p)') = 0
        /\ \A q \in SidecarPeerRole : q # p => Out(q)' = Out(q) /\ In(q)' = In(q)
    BY <1>0, <1>18, RestartShape, RestartKeepsHistory
  <2> QED
    BY <1>0, <1>a, <1>18, <2>1 DEF Restart
<1>19. CASE UNCHANGED vars
    BY <1>0, <1>19 DEF vars, wireVars, peerVars, Out, In
<1> HIDE Roles DEF TypeOK, SupervisorSound, RuntimeSound, SupervisorAt, RuntimeAt, SidesKept
<1> QED
    BY <1>1, <1>2, <1>3, <1>4, <1>5, <1>6, <1>7, <1>8, <1>9, <1>10, <1>11, <1>12, <1>13,
       <1>14, <1>15, <1>16, <1>17, <1>18, <1>19, NextCases

\* The budget and the ceiling it was computed from.
LEMMA BudgetStep ==
    ASSUME TypeOK, SidecarInv, [Next]_vars
    PROVE  BudgetKept
<1>0. BudgetLocked /\ StatusAlwaysFits
    BY DEF SidecarInv
<1> USE DEF TypeOK, BudgetLocked, StatusAlwaysFits, BudgetKept
<1>1. ASSUME NEW p \in SidecarPeerRole, HandshakeStart(p) PROVE BudgetKept
  <2>1. Goes(p) /\ SameCeiling(chan[p], chan'[p])
    BY <1>1, SealingShape
  <2>2. \A q \in SidecarPeerRole : q # p => chan'[q] = chan[q]
    BY <2>1 DEF Goes
  <2> QED
    BY <1>0, <1>1, <2>1, <2>2 DEF HandshakeStart, SameCeiling
<1>2. ASSUME NEW p \in SidecarPeerRole, CompleteAcceptance(p) PROVE BudgetKept
  <2>1. Goes(p) /\ LimitOpen(p)
    BY <1>2, QuietShape DEF Quiet
  <2>2. \A q \in SidecarPeerRole : q # p => chan'[q] = chan[q]
    BY <2>1 DEF Goes
  <2> QED
    BY <1>0, <1>2, <2>1, <2>2 DEF CompleteAcceptance, LimitOpen
<1>3. ASSUME NEW p \in SidecarPeerRole, HandshakeFails(p) PROVE BudgetKept
  <2>1. Goes(p) /\ SameCeiling(chan[p], chan'[p])
    BY <1>3, QuietShape DEF Quiet
  <2>2. \A q \in SidecarPeerRole : q # p => chan'[q] = chan[q]
    BY <2>1 DEF Goes
  <2> QED
    BY <1>0, <1>3, <2>1, <2>2 DEF HandshakeFails, SameCeiling
<1>4. ASSUME NEW p \in SidecarPeerRole, NewExchange(p) PROVE BudgetKept
  <2>1. Goes(p) /\ SameCeiling(chan[p], chan'[p])
    BY <1>4, QuietShape DEF Quiet
  <2>2. \A q \in SidecarPeerRole : q # p => chan'[q] = chan[q]
    BY <2>1 DEF Goes
  <2> QED
    BY <1>0, <1>4, <2>1, <2>2 DEF NewExchange, SameCeiling
<1>5. ASSUME NEW p \in SidecarPeerRole, Acknowledge(p) PROVE BudgetKept
  <2>1. Goes(p) /\ SameCeiling(chan[p], chan'[p])
    BY <1>5, SealingShape
  <2>2. \A q \in SidecarPeerRole : q # p => chan'[q] = chan[q]
    BY <2>1 DEF Goes
  <2> QED
    BY <1>0, <1>5, <2>1, <2>2 DEF Acknowledge, SameCeiling
<1>6. ASSUME NEW p \in SidecarPeerRole, CompleteAcknowledgement(p) PROVE BudgetKept
  <2>1. Goes(p) /\ SameCeiling(chan[p], chan'[p])
    BY <1>6, QuietShape DEF Quiet
  <2>2. \A q \in SidecarPeerRole : q # p => chan'[q] = chan[q]
    BY <2>1 DEF Goes
  <2> QED
    BY <1>0, <1>6, <2>1, <2>2 DEF CompleteAcknowledgement, SameCeiling
<1>7. ASSUME NEW p \in SidecarPeerRole, ConfigurationFails(p) PROVE BudgetKept
  <2>1. Goes(p) /\ SameCeiling(chan[p], chan'[p])
    BY <1>7, QuietShape DEF Quiet
  <2>2. \A q \in SidecarPeerRole : q # p => chan'[q] = chan[q]
    BY <2>1 DEF Goes
  <2> QED
    BY <1>0, <1>7, <2>1, <2>2 DEF ConfigurationFails, SameCeiling
<1>8. ASSUME NEW p \in SidecarPeerRole, Activate(p) PROVE BudgetKept
  <2>1. Goes(p) /\ SameCeiling(chan[p], chan'[p])
    BY <1>8, QuietShape DEF Quiet
  <2>2. \A q \in SidecarPeerRole : q # p => chan'[q] = chan[q]
    BY <2>1 DEF Goes
  <2> QED
    BY <1>0, <1>8, <2>1, <2>2 DEF Activate, SameCeiling
<1>9. ASSUME NEW p \in SidecarPeerRole, SealMessage(p) PROVE BudgetKept
  <2>1. Goes(p) /\ SameCeiling(chan[p], chan'[p])
    BY <1>9, SealingShape
  <2>2. \A q \in SidecarPeerRole : q # p => chan'[q] = chan[q]
    BY <2>1 DEF Goes
  <2> QED
    BY <1>0, <1>9, <2>1, <2>2 DEF SealMessage, SameCeiling, peerVars
<1>10. ASSUME NEW p \in SidecarPeerRole, Retire(p) PROVE BudgetKept
  <2>1. Goes(p) /\ SameCeiling(chan[p], chan'[p])
    BY <1>10, QuietShape DEF Quiet
  <2>2. \A q \in SidecarPeerRole : q # p => chan'[q] = chan[q]
    BY <2>1 DEF Goes
  <2> QED
    BY <1>0, <1>10, <2>1, <2>2 DEF Retire, SameCeiling, peerVars
<1>11. ASSUME NEW p \in SidecarPeerRole, NEW n \in LowerTo, LowerFrameLimit(p, n)
       PROVE  BudgetKept
  <2>1. Goes(p) /\ LimitOpen(p)
    BY <1>11, QuietShape DEF Quiet
  <2>2. \A q \in SidecarPeerRole : q # p => chan'[q] = chan[q]
    BY <2>1 DEF Goes
  <2> QED
    BY <1>0, <1>11, <2>1, <2>2 DEF LowerFrameLimit, LimitOpen, peerVars
<1>12. ASSUME NEW p \in SidecarPeerRole, NEW c \in Configurations, ConfigurationStart(p, c)
       PROVE  BudgetKept
  <2>1. Goes(p) /\ SameCeiling(chan[p], chan'[p]) /\ chan'[p].frame_limit_locked
    BY <1>12, SealingShape
  <2>2. \A q \in SidecarPeerRole : q # p => chan'[q] = chan[q]
    BY <2>1 DEF Goes
  <2> QED
    BY <1>0, <1>12, <2>1, <2>2 DEF ConfigurationStart, SameCeiling, Keep, StatusFits
<1>13. ASSUME NEW p \in SidecarPeerRole, NEW f \in wire, AcceptSupervisor(p, f)
       PROVE  BudgetKept
  <2>1. Goes(p) /\ SameCeiling(chan[p], chan'[p])
    BY <1>13, OpeningShape
  <2>2. \A q \in SidecarPeerRole : q # p => chan'[q] = chan[q]
    BY <2>1 DEF Goes
  <2> QED
    BY <1>0, <1>13, <2>1, <2>2 DEF AcceptSupervisor, SameCeiling
<1>14. ASSUME NEW p \in SidecarPeerRole, NEW f \in wire, ConfirmRuntime(p, f)
       PROVE  BudgetKept
  <2>1. Goes(p) /\ LimitOpen(p)
    BY <1>14, OpeningShape
  <2>2. \A q \in SidecarPeerRole : q # p => chan'[q] = chan[q]
    BY <2>1 DEF Goes
  <2> QED
    BY <1>0, <1>14, <2>1, <2>2 DEF ConfirmRuntime, LimitOpen
<1>15. ASSUME NEW p \in SidecarPeerRole, NEW f \in wire, ReceiveConfiguration(p, f)
       PROVE  BudgetKept
  <2>1. Goes(p) /\ SameCeiling(chan[p], chan'[p]) /\ chan'[p].frame_limit_locked
    BY <1>15, OpeningShape
  <2>2. \A q \in SidecarPeerRole : q # p => chan'[q] = chan[q]
    BY <2>1 DEF Goes
  <2>3. /\ budget' = [budget EXCEPT ![p] = chan[p].max_frame_bytes]
        /\ FrameBytes["active"] <= chan[p].max_frame_bytes
    BY <1>15 DEF ReceiveConfiguration, Keep, StatusFits
  <2> QED
    BY <1>0, <2>1, <2>2, <2>3 DEF SameCeiling
<1>16. ASSUME NEW p \in SidecarPeerRole, NEW f \in wire, ReceiveAcknowledgement(p, f)
       PROVE  BudgetKept
  <2>1. Goes(p) /\ SameCeiling(chan[p], chan'[p])
    BY <1>16, OpeningShape
  <2>2. \A q \in SidecarPeerRole : q # p => chan'[q] = chan[q]
    BY <2>1 DEF Goes
  <2> QED
    BY <1>0, <1>16, <2>1, <2>2 DEF ReceiveAcknowledgement, SameCeiling
<1>17. ASSUME NEW p \in SidecarPeerRole, NEW f \in wire, OpenMessage(p, f) PROVE BudgetKept
  <2>1. Goes(p) /\ SameCeiling(chan[p], chan'[p])
    BY <1>17, OpeningShape
  <2>2. \A q \in SidecarPeerRole : q # p => chan'[q] = chan[q]
    BY <2>1 DEF Goes
  <2> QED
    BY <1>0, <1>17, <2>1, <2>2 DEF OpenMessage, SameCeiling, peerVars
<1>18. ASSUME NEW p \in SidecarPeerRole, NEW n \in Ceilings, NEW o \in Offers, Restart(p, n, o)
       PROVE  BudgetKept
  <2>1. \A q \in SidecarPeerRole : q # p => chan'[q] = chan[q]
    BY <1>18 DEF Restart
  <2> QED
    BY <1>0, <1>18, <2>1 DEF Restart
<1>19. CASE UNCHANGED vars
    BY <1>0, <1>19 DEF vars, peerVars
<1> HIDE DEF TypeOK, BudgetLocked, StatusAlwaysFits, BudgetKept
<1> QED
    BY <1>1, <1>2, <1>3, <1>4, <1>5, <1>6, <1>7, <1>8, <1>9, <1>10, <1>11, <1>12, <1>13,
       <1>14, <1>15, <1>16, <1>17, <1>18, <1>19, NextCases

-----------------------------------------------------------------------------
(* The theorems.                                                           *)

\* Two new channels with nothing sealed are where the invariant starts.
LEMMA InitKeeps ==
    ASSUME Init
    PROVE  TypeOK /\ SidecarInv
<1>1. 1 \in Generations
    BY DEF Generations
<1>2. \A n \in Ceilings : NewChannel(1, n) \in Channel
    BY <1>1, NewChannelEffect
<1>3. chan \in [SidecarPeerRole -> Channel]
    BY <1>2 DEF Init
<1>4. \A p \in SidecarPeerRole :
         /\ chan[p].generation = 1 /\ chan[p].send_sequence = 0 /\ chan[p].receive_sequence = 0
    BY <1>1, NewChannelEffect DEF Init
<1>5. /\ sealed = [p \in SidecarPeerRole |-> [g \in Generations |-> <<>>]]
      /\ opened = [p \in SidecarPeerRole |-> [g \in Generations |-> <<>>]]
      /\ wire = {}
    BY DEF Init
<1>6. \A p \in SidecarPeerRole, g \in Generations : sealed[p][g] = <<>> /\ opened[p][g] = <<>>
    BY <1>5
<1>7. \A p \in SidecarPeerRole : Out(p) = <<>> /\ In(p) = <<>>
    BY <1>1, <1>4, <1>6 DEF Out, In
<1>8. TypeOK
    BY <1>3 DEF Init, TypeOK
<1>9. HistoryTyped
  <2>1. <<>> \in Seq(Messages)
    OBVIOUS
  <2> HIDE DEF Messages
  <2> QED
    BY <1>5, <2>1 DEF HistoryTyped
<1>10. Counted
    BY <1>4, <1>6, <1>7 DEF Counted
<1>11. Authentic
    BY <1>5 DEF Authentic
<1>12. Matching
    BY <1>6 DEF Matching
<1>13. SupervisorSound /\ RuntimeSound
    BY <1>7, Roles DEF Init, SupervisorSound, RuntimeSound, SupervisorAt, RuntimeAt
<1>14. BudgetLocked /\ StatusAlwaysFits
    BY DEF Init, BudgetLocked, StatusAlwaysFits
<1> QED
    BY <1>8, <1>9, <1>10, <1>11, <1>12, <1>13, <1>14 DEF SidecarInv

\* The two sides never leave the invariant, whatever the transport delivers and
\* in whatever order the embedding calls them.
THEOREM SidecarInvariant == Spec => [](TypeOK /\ SidecarInv)
<1>1. Init => TypeOK /\ SidecarInv
    BY InitKeeps
<1>2. (TypeOK /\ SidecarInv) /\ [Next]_vars => (TypeOK /\ SidecarInv)'
  <2> SUFFICES ASSUME TypeOK, SidecarInv, [Next]_vars
               PROVE  (TypeOK /\ SidecarInv)'
    OBVIOUS
  <2>1. TypeOK'
    BY TypeStep
  <2>2. HistoryTyped' /\ Counted' /\ Authentic' /\ Matching'
    BY HistoryStep DEF HistoryKept, HistoryInv
  <2>3. SupervisorSound' /\ RuntimeSound'
    BY SidesStep DEF SidesKept
  <2>4. BudgetLocked' /\ StatusAlwaysFits'
    BY BudgetStep DEF BudgetKept
  <2> QED
    BY <2>1, <2>2, <2>3, <2>4 DEF SidecarInv
<1> QED
    BY <1>1, <1>2, PTL DEF Spec

\* A sequence that agrees with another over its whole length is a prefix of it.
LEMMA PrefixByPlaces ==
    ASSUME NEW T, NEW s \in Seq(T), NEW t \in Seq(T),
           \A i \in 1 .. Len(s) : i \in 1 .. Len(t) /\ s[i] = t[i]
    PROVE  IsPrefix(s, t)
<1>1. Len(s) \in Nat /\ Len(t) \in Nat
    OBVIOUS
<1>2. Len(s) <= Len(t)
    BY <1>1
<1> QED
    BY <1>1, <1>2 DEF IsPrefix

\* open takes the frames of the other side's channel of the same generation one
\* by one from the first, although the transport may lose, repeat, reorder and
\* delay them and the process on either side may be replaced: what was opened is
\* always a prefix of what was sealed.
THEOREM FramesAreInOrder == Spec => []FramesInOrder
<1>1. TypeOK /\ SidecarInv => FramesInOrder
  <2> SUFFICES ASSUME HistoryTyped, Matching,
                      NEW p \in SidecarPeerRole, NEW g \in Generations
               PROVE  IsPrefix(opened[p][g], sealed[expected_remote(p)][g])
    BY DEF SidecarInv, FramesInOrder
  <2>1. opened[p][g] \in Seq(Messages) /\ sealed[expected_remote(p)][g] \in Seq(Messages)
    <3> HIDE DEF Messages
    <3> QED
      BY Roles DEF HistoryTyped
  <2> QED
    BY <2>1, PrefixByPlaces DEF Matching
<1> QED
    BY <1>1, SidecarInvariant, PTL

\* Where the two sides may be when each has opened what the other sealed: the
\* supervisor with a, j and the runtime with b, i.
LEMMA SidesFit ==
    ASSUME NEW h, NEW s, NEW c, NEW k, NEW a, NEW j, SupervisorAt(h, s, c, k, a, j),
           NEW g, NEW d, NEW t, NEW e, NEW l, NEW b, NEW i, RuntimeAt(g, d, t, e, l, b, i),
           e \in {None, "Starting", "AwaitingConfiguration", "AwaitingAcknowledgement",
                  "AcknowledgementPending", "Configured", "Activated", "Failed"},
           Len(a) \in Nat, Len(b) \in Nat, Len(i) \in Nat, Len(j) \in Nat,
           \A x \in 1 .. Len(j) : x \in 1 .. Len(b) /\ j[x] = b[x],
           \A x \in 1 .. Len(i) : x \in 1 .. Len(a) /\ i[x] = a[x]
    PROVE  /\ s # None /\ t # None => s = t
           /\ k # None /\ l # None => k = l
           /\ c = "Configured" =>
                 e \in {"AcknowledgementPending", "Configured", "Activated", "Failed"}
           /\ e = "Activated" => c \in {"AwaitingAcknowledgement", "Configured", "Failed"}
<1>1. /\ Len(j) >= 1 => j[1] = b[1]
      /\ Len(j) >= 2 => Len(b) >= 2
      /\ Len(i) >= 2 => Len(a) >= 2 /\ i[2] = a[2]
    OBVIOUS
<1>2. s # None /\ t # None => s = t
    BY <1>1 DEF SupervisorAt, RuntimeAt
<1>3. k # None /\ l # None => k = l
    BY <1>1 DEF SupervisorAt, RuntimeAt
<1>4. ASSUME c = "Configured"
      PROVE  e \in {"AcknowledgementPending", "Configured", "Activated", "Failed"}
  <2>1. Len(b) >= 2
    BY <1>1, <1>4 DEF SupervisorAt
  <2> QED
    BY <2>1 DEF RuntimeAt
<1>5. ASSUME e = "Activated"
      PROVE  c \in {"AwaitingAcknowledgement", "Configured", "Failed"}
  <2>1. Len(a) >= 2
    BY <1>1, <1>5 DEF RuntimeAt
  <2> QED
    BY <2>1 DEF SupervisorAt
<1> QED
    BY <1>2, <1>3, <1>4, <1>5

\* Supervisor and runtime of one generation agree on the protocol selected and
\* on the whole configuration as soon as both have one, and neither is further
\* than the other's messages allow.
THEOREM PeersAlwaysAgree == Spec => []PeersAgree
<1>1. TypeOK /\ SidecarInv => PeersAgree
  <2> DEFINE s == "supervisor"
             r == "runtime"
  <2> SUFFICES ASSUME TypeOK, SidecarInv, chan[s].generation = chan[r].generation
               PROVE  /\ selection[s] # None /\ selection[r] # None =>
                            selection[s] = selection[r]
                      /\ config[s] # None /\ config[r] # None => config[s] = config[r]
                      /\ cfg[s] = "Configured" =>
                            cfg[r] \in {"AcknowledgementPending", "Configured", "Activated",
                                        "Failed"}
                      /\ cfg[r] = "Activated" =>
                            cfg[s] \in {"AwaitingAcknowledgement", "Configured", "Failed"}
    BY DEF PeersAgree
  <2>1. HistoryTyped /\ Matching /\ SupervisorSound /\ RuntimeSound
    BY DEF SidecarInv
  <2>2. \A p \in SidecarPeerRole :
           Len(Out(p)) \in Nat /\ Len(In(p)) \in Nat /\ chan[p].generation \in Generations
    BY <2>1, HistorySequences
  <2>3. /\ \A x \in 1 .. Len(In(s)) : x \in 1 .. Len(Out(r)) /\ In(s)[x] = Out(r)[x]
        /\ \A x \in 1 .. Len(In(r)) : x \in 1 .. Len(Out(s)) /\ In(r)[x] = Out(s)[x]
    BY <2>1, <2>2, Roles, SMTT(30) DEF Matching, Out, In
  <2>4. SupervisorAt(hs[s], selection[s], cfg[s], config[s], Out(s), In(s))
    BY <2>1 DEF SupervisorSound
  <2>5. RuntimeAt(hs[r], pending[r], selection[r], cfg[r], config[r], Out(r), In(r))
    BY <2>1 DEF RuntimeSound
  <2>6. cfg[r] \in {None, "Starting", "AwaitingConfiguration", "AwaitingAcknowledgement",
                    "AcknowledgementPending", "Configured", "Activated", "Failed"}
    BY Roles DEF TypeOK
  <2>7. /\ Len(Out(s)) \in Nat /\ Len(Out(r)) \in Nat
        /\ Len(In(s)) \in Nat /\ Len(In(r)) \in Nat
    BY <2>2, Roles
  <2> HIDE DEF s, r
  <2> QED
    BY <2>3, <2>4, <2>5, <2>6, <2>7, SidesFit
<1> QED
    BY <1>1, SidecarInvariant, PTL

\* The ceiling a budget was computed from is the channel's for as long as the
\* budget is used, and the largest status fits it.
THEOREM StatusFitsForLife == Spec => []StatusAlwaysFits
<1>1. SidecarInv => StatusAlwaysFits
    BY DEF SidecarInv
<1> QED
    BY <1>1, SidecarInvariant, PTL
=============================================================================
