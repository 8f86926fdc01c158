--------------------------- MODULE SidecarSession ---------------------------
(***************************************************************************)
(* A supervisor and the runtime process it started, each with its end of   *)
(* the authenticated channel, its handshake and its configuration          *)
(* exchange.  The transport between them loses, repeats, delays and        *)
(* reorders frames, or hands over bytes that do not authenticate; either   *)
(* side may be started again with a new generation while frames of the old *)
(* one are still about.                                                    *)
(*                                                                         *)
(* The calls are made by the embedding, in any order; a handshake and an   *)
(* exchange get the channel of their own role.  Handing one of them        *)
(* another channel instance retires that other channel and changes nothing *)
(* here.  A key may be kept across generations (the library does not       *)
(* forbid it), so only the header tells generations apart.                 *)
(***************************************************************************)
EXTENDS SidecarNegotiation, SequencesExt

CONSTANTS
    None,
    Offers,          \* what a peer may offer, per role
    Configurations,  \* what a supervisor may configure
    Ceilings,        \* frame ceilings a channel may be created with
    LowerTo,         \* arguments of lower_frame_limit
    FrameBytes,      \* size of a sealed frame, by kind of message
    MinSession,      \* minimum_frame_bytes(session_id.len())
    MaxSequence,     \* u64::MAX, scaled down
    MaxGeneration    \* bound: how many times a side is started

ASSUME SidecarAssumption ==
    /\ MinSession \in Nat /\ MaxSequence \in Nat \ {0} /\ MaxGeneration \in Nat \ {0}
    /\ \A c \in Ceilings : c \in Nat /\ c >= MinSession
    /\ LowerTo \subseteq Nat
    /\ \A o \in Offers : LocalOfferValid(o)

\* The unsigned fields of SidecarProtocolOffer and SidecarLimits.
ASSUME OffersAssumption ==
    /\ ProtocolMinor \in Nat
    /\ \A o \in Offers :
          /\ o.protocol_minor \in Nat
          /\ o.limits \in [max_frame_bytes : Nat, max_in_flight : Nat,
                           bootstrap_timeout_ms : Nat]

\* No exchange yet is not one of its states.
ASSUME NoneAssumption ==
    None \notin {"Starting", "AwaitingConfiguration", "AwaitingAcknowledgement",
                 "AcknowledgementPending", "Configured", "Activated", "Failed"}

VARIABLES
    chan,        \* the AuthenticatedSidecarChannel of each side
    offer,       \* local_offer
    hs,          \* SidecarHandshakeState; "Consumed" by the exchange
    pending,     \* pending_negotiated
    selection,   \* negotiated, and selection once the exchange owns it
    cfg,         \* SidecarConfigurationState; None before the exchange
    config,      \* configuration
    budget,      \* max_payload_bytes, as the ceiling it was computed from
    wire,        \* every frame sealed so far; the transport may deliver any
    sealed,      \* history: what each side sealed, by generation
    opened       \* history: what each side opened, by generation

peerVars == <<offer, hs, pending, selection, cfg, config, budget>>
wireVars == <<wire, sealed, opened>>
vars == <<chan, peerVars, wireVars>>

Generations == 1 .. MaxGeneration

\* AuthenticatedSidecarChannel::new
NewChannel(generation, ceiling) ==
    [generation |-> generation, protocol_minor |-> 0, max_frame_bytes |-> ceiling,
     frame_limit_locked |-> FALSE, send_sequence |-> 0, receive_sequence |-> 0,
     retired |-> FALSE]

Init ==
    /\ chan \in [SidecarPeerRole -> {NewChannel(1, c) : c \in Ceilings}]
    /\ offer \in {o \in [SidecarPeerRole -> Offers] : \A p \in SidecarPeerRole : o[p].role = p}
    /\ hs = [p \in SidecarPeerRole |-> "Starting"]
    /\ pending = [p \in SidecarPeerRole |-> None]
    /\ selection = [p \in SidecarPeerRole |-> None]
    /\ cfg = [p \in SidecarPeerRole |-> None]
    /\ config = [p \in SidecarPeerRole |-> None]
    /\ budget = [p \in SidecarPeerRole |-> None]
    /\ wire = {}
    /\ sealed = [p \in SidecarPeerRole |-> [g \in Generations |-> <<>>]]
    /\ opened = sealed

-----------------------------------------------------------------------------
(* The channel.                                                            *)

\* checked_add(1) on the send sequence.
SequenceLeft(p) == chan[p].send_sequence < MaxSequence

CanSeal(p, kind) ==
    /\ ~chan[p].retired
    /\ SequenceLeft(p)
    /\ MinSession - 1 < chan[p].max_frame_bytes
    /\ FrameBytes[kind] <= chan[p].max_frame_bytes

\* seal: the frame carries the next sequence number, and goes to the transport.
Seal(p, msg) ==
    LET c == chan[p] IN
    /\ CanSeal(p, msg.kind)
    /\ wire' = wire \cup {[from |-> p, generation |-> c.generation,
                           minor |-> c.protocol_minor,
                           sequence |-> c.send_sequence + 1, msg |-> msg]}
    /\ sealed' = [sealed EXCEPT ![p][c.generation] = Append(@, msg)]

\* Mutants: a gap is accepted; the generation of the header is not compared.
NotSeenBefore(p, f) == f.sequence > chan[p].receive_sequence
AnyGeneration(p, f) == TRUE

InSequence(p, f) ==
    /\ chan[p].receive_sequence < MaxSequence
    /\ f.sequence = chan[p].receive_sequence + 1

SameGeneration(p, f) == f.generation = chan[p].generation

\* open returns a message of the type asked for.
CanOpen(p, f, kinds) ==
    /\ ~chan[p].retired
    /\ FrameBytes[f.msg.kind] <= chan[p].max_frame_bytes
    /\ f.minor = chan[p].protocol_minor
    /\ f.from = expected_remote(p)
    /\ SameGeneration(p, f)
    /\ InSequence(p, f)
    /\ f.msg.kind \in kinds

Open(p, f, kinds) ==
    /\ CanOpen(p, f, kinds)
    /\ opened' = [opened EXCEPT ![p][chan[p].generation] = Append(@, f.msg)]

Sent(c) == [c EXCEPT !.send_sequence = @ + 1]
Received(c, f) == [c EXCEPT !.receive_sequence = f.sequence]
Retired(c) == [c EXCEPT !.retired = TRUE]
Locked(c) == [c EXCEPT !.frame_limit_locked = TRUE]

\* Mutant: lower_frame_limit forgets the lock.
NeverLocked(p) == TRUE

LimitOpen(p) == ~chan[p].frame_limit_locked

\* lower_frame_limit accepts n.
CanLower(p, n) == LimitOpen(p) /\ n >= MinSession /\ n <= chan[p].max_frame_bytes

\* apply_negotiated_protocol
CanApply(p, s) ==
    /\ s.protocol_minor <= ProtocolMinor
    /\ CanLower(p, s.limits.max_frame_bytes)

Applied(c, s) ==
    [c EXCEPT !.max_frame_bytes = s.limits.max_frame_bytes,
              !.protocol_minor = s.protocol_minor]

\* The embedding lowers the ceiling itself.
LowerFrameLimit(p, n) ==
    /\ CanLower(p, n)
    /\ chan' = [chan EXCEPT ![p].max_frame_bytes = n]
    /\ UNCHANGED <<peerVars, wireVars>>

\* retire after a failed read or write, Drop, or an open that fails outside
\* of the two exchanges.
Retire(p) ==
    /\ ~chan[p].retired
    /\ chan' = [chan EXCEPT ![p] = Retired(@)]
    /\ UNCHANGED <<peerVars, wireVars>>

\* The side is started again: a new generation, channel and handshake.
Restart(p, ceiling, o) ==
    /\ chan[p].generation < MaxGeneration
    /\ o.role = p
    /\ chan' = [chan EXCEPT ![p] = NewChannel(@.generation + 1, ceiling)]
    /\ offer' = [offer EXCEPT ![p] = o]
    /\ hs' = [hs EXCEPT ![p] = "Starting"]
    /\ pending' = [pending EXCEPT ![p] = None]
    /\ selection' = [selection EXCEPT ![p] = None]
    /\ cfg' = [cfg EXCEPT ![p] = None]
    /\ config' = [config EXCEPT ![p] = None]
    /\ budget' = [budget EXCEPT ![p] = None]
    /\ UNCHANGED wireVars

-----------------------------------------------------------------------------
(* The handshake.  A frame that does not open, a message or a call out of  *)
(* order and a failed negotiation all end in HandshakeFails, which bytes   *)
(* that do not authenticate can cause in every state.                      *)

HandshakeKinds == {"offer", "accept"}

\* start: the supervisor's offer.
HandshakeStart(p) ==
    /\ p = "supervisor"
    /\ hs[p] = "Starting"
    /\ Seal(p, [kind |-> "offer", offer |-> offer[p]])
    /\ chan' = [chan EXCEPT ![p] = Sent(@)]
    /\ hs' = [hs EXCEPT ![p] = "AwaitingAcceptance"]
    /\ UNCHANGED <<offer, pending, selection, cfg, config, budget, opened>>

\* receive, on the runtime: open the offer, negotiate, seal the acceptance
\* under the bootstrap ceiling.  Nothing is applied to the channel yet.
AcceptSupervisor(p, f) ==
    /\ p = "runtime"
    /\ hs[p] = "Starting"
    /\ Open(p, f, HandshakeKinds)
    /\ f.msg.kind = "offer"
    /\ f.msg.offer.role = "supervisor"
    /\ f.msg.offer.identified
    /\ Negotiable(offer[p], f.msg.offer)
    /\ LET s == Selection(offer[p], f.msg.offer)
       IN /\ Seal(p, [kind |-> "accept", offer |-> offer[p], selection |-> s])
          /\ pending' = [pending EXCEPT ![p] = s]
    /\ chan' = [chan EXCEPT ![p] = Sent(Received(@, f))]
    /\ hs' = [hs EXCEPT ![p] = "AcceptancePending"]
    /\ UNCHANGED <<offer, selection, cfg, config, budget>>

\* complete_acceptance: the acceptance was written; switch to the selection.
CompleteAcceptance(p) ==
    /\ p = "runtime"
    /\ ~chan[p].retired
    /\ hs[p] = "AcceptancePending"
    /\ CanApply(p, pending[p])
    /\ chan' = [chan EXCEPT ![p] = Applied(@, pending[p])]
    /\ selection' = [selection EXCEPT ![p] = pending[p]]
    /\ pending' = [pending EXCEPT ![p] = None]
    /\ hs' = [hs EXCEPT ![p] = "Authenticated"]
    /\ UNCHANGED <<offer, cfg, config, budget, wireVars>>

\* receive, on the supervisor: negotiate independently and compare.
ConfirmRuntime(p, f) ==
    /\ p = "supervisor"
    /\ hs[p] = "AwaitingAcceptance"
    /\ Open(p, f, HandshakeKinds)
    /\ f.msg.kind = "accept"
    /\ f.msg.offer.role = "runtime"
    /\ f.msg.offer.identified
    /\ Negotiable(offer[p], f.msg.offer)
    /\ LET s == Selection(offer[p], f.msg.offer)
       IN /\ f.msg.selection = s
          /\ CanApply(p, s)
          /\ chan' = [chan EXCEPT ![p] = Applied(Received(@, f), s)]
          /\ selection' = [selection EXCEPT ![p] = s]
    /\ hs' = [hs EXCEPT ![p] = "Authenticated"]
    /\ UNCHANGED <<offer, pending, cfg, config, budget, wire, sealed>>

\* fail, and the error path of receive.
HandshakeFails(p) ==
    /\ hs[p] # "Consumed"
    /\ chan' = [chan EXCEPT ![p] = Retired(@)]
    /\ hs' = [hs EXCEPT ![p] = "Failed"]
    /\ selection' = [selection EXCEPT ![p] = None]
    /\ pending' = [pending EXCEPT ![p] = None]
    /\ UNCHANGED <<offer, cfg, config, budget, wireVars>>

-----------------------------------------------------------------------------
(* The configuration exchange.                                             *)

RuntimeKinds == {"configure", "configured", "active"}

\* SidecarConfigurationExchange::new consumes an authenticated handshake.
NewExchange(p) ==
    /\ hs[p] = "Authenticated"
    /\ hs' = [hs EXCEPT ![p] = "Consumed"]
    /\ cfg' = [cfg EXCEPT ![p] =
                  IF p = "supervisor" THEN "Starting" ELSE "AwaitingConfiguration"]
    /\ UNCHANGED <<chan, offer, pending, selection, config, budget, wireVars>>

\* validate_status_budget: the largest status fits the channel's ceiling.
StatusFits(p) == FrameBytes["active"] <= chan[p].max_frame_bytes

\* The configuration is kept with the ceiling it was checked against.
Keep(p, c) ==
    /\ config' = [config EXCEPT ![p] = c]
    /\ budget' = [budget EXCEPT ![p] = chan[p].max_frame_bytes]
    /\ cfg' = [cfg EXCEPT ![p] = "AwaitingAcknowledgement"]

\* start: the supervisor's only configuration.
ConfigurationStart(p, c) ==
    /\ p = "supervisor"
    /\ cfg[p] = "Starting"
    /\ ConfigurationValid(c, selection[p])
    /\ StatusFits(p)
    /\ Seal(p, [kind |-> "configure", configuration |-> c])
    /\ chan' = [chan EXCEPT ![p] = Sent(Locked(@))]
    /\ Keep(p, c)
    /\ UNCHANGED <<offer, hs, pending, selection, opened>>

\* receive, on the runtime.
ReceiveConfiguration(p, f) ==
    /\ p = "runtime"
    /\ cfg[p] = "AwaitingConfiguration"
    /\ Open(p, f, RuntimeKinds)
    /\ f.msg.kind = "configure"
    /\ ConfigurationValid(f.msg.configuration, selection[p])
    /\ StatusFits(p)
    /\ chan' = [chan EXCEPT ![p] = Received(Locked(@), f)]
    /\ Keep(p, f.msg.configuration)
    /\ UNCHANGED <<offer, hs, pending, selection, wire, sealed>>

\* acknowledge, with the manifest derived from the configuration.
Acknowledge(p) ==
    /\ p = "runtime"
    /\ cfg[p] = "AwaitingAcknowledgement"
    /\ Seal(p, [kind |-> "configured", manifest |-> Manifest(config[p])])
    /\ chan' = [chan EXCEPT ![p] = Sent(@)]
    /\ cfg' = [cfg EXCEPT ![p] = "AcknowledgementPending"]
    /\ UNCHANGED <<offer, hs, pending, selection, config, budget, opened>>

\* complete_acknowledgement: the acknowledgement was written.
CompleteAcknowledgement(p) ==
    /\ p = "runtime"
    /\ ~chan[p].retired
    /\ cfg[p] = "AcknowledgementPending"
    /\ cfg' = [cfg EXCEPT ![p] = "Configured"]
    /\ UNCHANGED <<chan, offer, hs, pending, selection, config, budget, wireVars>>

\* receive, on the supervisor: the manifest must be the expected one.
ReceiveAcknowledgement(p, f) ==
    /\ p = "supervisor"
    /\ cfg[p] = "AwaitingAcknowledgement"
    /\ Open(p, f, RuntimeKinds)
    /\ f.msg.kind = "configured"
    /\ f.msg.manifest = Manifest(config[p])
    /\ chan' = [chan EXCEPT ![p] = Received(Locked(@), f)]
    /\ cfg' = [cfg EXCEPT ![p] = "Configured"]
    /\ UNCHANGED <<offer, hs, pending, selection, config, budget, wire, sealed>>

\* fail: every other call or frame.
ConfigurationFails(p) ==
    /\ cfg[p] # None
    /\ chan' = [chan EXCEPT ![p] = Retired(@)]
    /\ config' = [config EXCEPT ![p] = None]
    /\ budget' = [budget EXCEPT ![p] = None]
    /\ cfg' = [cfg EXCEPT ![p] = "Failed"]
    /\ UNCHANGED <<offer, hs, pending, selection, wireVars>>

\* SidecarRuntimeBridge::activate.  On a retired channel it ends as fail does.
Activate(p) ==
    /\ p = "runtime"
    /\ ~chan[p].retired
    /\ cfg[p] = "Configured"
    /\ cfg' = [cfg EXCEPT ![p] = "Activated"]
    /\ UNCHANGED <<chan, offer, hs, pending, selection, config, budget, wireVars>>

-----------------------------------------------------------------------------
(* Traffic after the configuration, sealed and opened by the embedding;    *)
(* the body makes every message a different one.                           *)

Active(p) == cfg[p] \in {"Configured", "Activated"}

SealMessage(p) ==
    /\ Active(p)
    /\ Seal(p, [kind |-> "active", body |-> Len(sealed[p][chan[p].generation])])
    /\ chan' = [chan EXCEPT ![p] = Sent(@)]
    /\ UNCHANGED <<peerVars, opened>>

OpenMessage(p, f) ==
    /\ Active(p)
    /\ Open(p, f, RuntimeKinds)
    /\ chan' = [chan EXCEPT ![p] = Received(@, f)]
    /\ UNCHANGED <<peerVars, wire, sealed>>

Next ==
    \E p \in SidecarPeerRole :
        \/ HandshakeStart(p) \/ CompleteAcceptance(p) \/ HandshakeFails(p)
        \/ NewExchange(p) \/ Acknowledge(p) \/ CompleteAcknowledgement(p)
        \/ ConfigurationFails(p) \/ Activate(p) \/ SealMessage(p) \/ Retire(p)
        \/ \E n \in LowerTo : LowerFrameLimit(p, n)
        \/ \E c \in Configurations : ConfigurationStart(p, c)
        \/ \E c \in Ceilings, o \in Offers : Restart(p, c, o)
        \/ \E f \in wire : AcceptSupervisor(p, f)
        \/ \E f \in wire : ConfirmRuntime(p, f)
        \/ \E f \in wire : ReceiveConfiguration(p, f)
        \/ \E f \in wire : ReceiveAcknowledgement(p, f)
        \/ \E f \in wire : OpenMessage(p, f)

Spec == Init /\ [][Next]_vars

-----------------------------------------------------------------------------
(* Properties.                                                             *)

\* The fields of an AuthenticatedSidecarChannel.
Channel ==
    [generation : Generations, protocol_minor : 0 .. ProtocolMinor, max_frame_bytes : Nat,
     frame_limit_locked : BOOLEAN, send_sequence : 0 .. MaxSequence,
     receive_sequence : 0 .. MaxSequence, retired : BOOLEAN]

\* Type invariant of both sides.
TypeOK ==
    /\ chan \in [SidecarPeerRole -> Channel]
    /\ offer \in [SidecarPeerRole -> Offers]
    /\ hs \in [SidecarPeerRole -> {"Starting", "AwaitingAcceptance", "AcceptancePending",
                                   "Authenticated", "Failed", "Consumed"}]
    /\ pending \in [SidecarPeerRole -> {Selection(o, q) : o, q \in Offers} \cup {None}]
    /\ selection \in [SidecarPeerRole -> {Selection(o, q) : o, q \in Offers} \cup {None}]
    /\ cfg \in [SidecarPeerRole -> {None, "Starting", "AwaitingConfiguration",
                                    "AwaitingAcknowledgement", "AcknowledgementPending",
                                    "Configured", "Activated", "Failed"}]
    /\ config \in [SidecarPeerRole -> Configurations \cup {None}]
    /\ budget \in [SidecarPeerRole -> Nat \cup {None}]

\* Whatever the transport does, what a side opens in a generation is a prefix
\* of what the other sealed in it: no frame lost in between, repeated,
\* reordered or taken from an earlier process.
FramesInOrder ==
    \A p \in SidecarPeerRole, g \in Generations :
        IsPrefix(opened[p][g], sealed[expected_remote(p)][g])

\* Two sides of one generation that have both finished a step of the exchange
\* agree on its outcome: on the protocol, and on the whole configuration,
\* though only its manifest is acknowledged.  A supervisor that is Configured
\* has a runtime that acknowledged it, and an activated bridge runs what its
\* supervisor sent.
PeersAgree ==
    LET s == "supervisor"
        r == "runtime"
    IN chan[s].generation = chan[r].generation =>
          /\ selection[s] # None /\ selection[r] # None => selection[s] = selection[r]
          /\ config[s] # None /\ config[r] # None => config[s] = config[r]
          /\ cfg[s] = "Configured" =>
                cfg[r] \in {"AcknowledgementPending", "Configured", "Activated", "Failed"}
          /\ cfg[r] = "Activated" =>
                cfg[s] \in {"AwaitingAcknowledgement", "Configured", "Failed"}

\* The budget checked at configuration time stays true for the life of the
\* channel: the ceiling cannot be lowered behind it, so the bridge's messages
\* are measured against the real one and a status can always be sealed.
StatusAlwaysFits ==
    \A p \in SidecarPeerRole :
        budget[p] # None =>
            budget[p] = chan[p].max_frame_bytes /\ FrameBytes["active"] <= chan[p].max_frame_bytes
=============================================================================
