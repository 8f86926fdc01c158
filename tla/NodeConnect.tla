----------------------------- MODULE NodeConnect ----------------------------
(***************************************************************************)
(* One NodeClient::connect (crates/openclaw-node-host/src/node.rs) over     *)
(* GatewayClient::connect_with_protocol_fallback and connect_once           *)
(* (crates/openclaw-gateway-client/src/session.rs): dial, wait for the      *)
(* challenge, ask the embedding for its options, fit them to the protocol,  *)
(* sign, send, wait for the answer, and start over once with the legacy     *)
(* envelope if the Gateway says so.                                         *)
(*                                                                          *)
(* The embedding's callback may return other options on the second call.    *)
(* Signatures are ideal: a proof is the tuple it was made over.             *)
(***************************************************************************)
EXTENDS Naturals

CONSTANTS
    Commands,   \* command names the embedding may declare
    Nonces,     \* nonces the Gateway may issue
    None        \* no value, and no nonce

VARIABLES
    pc,        \* where connect is
    attempt,   \* ConnectAttempt
    opened,    \* connections opened by this call
    issued,    \* the nonce the Gateway issued on the current connection
    challenge, \* the challenge connect_once returned
    surface,   \* connection_surface, shared by the callback and connect
    envelope,  \* the connect request written on the current connection
    hello,     \* the Gateway's answer to it
    refusal,   \* the Gateway's refusal of the first attempt
    session,   \* what the NodeSession took from connection_surface
    error      \* what connect returned instead

connectionVars == <<opened, issued, challenge>>
vars == <<pc, attempt, connectionVars, surface, envelope, hello, refusal, session, error>>

V3 == 3
V4 == 4

Over == {"connected", "failed"}

-----------------------------------------------------------------------------
(* Options and envelopes.                                                  *)

Platforms == {"macos", "macOS", "linux"}

\* A device token and a bootstrap token are signed as a token is.
Credentials == {"token", "password", None}

\* What make_options may return: who signs, and what is declared.
Options ==
    [platform : Platforms, device_family : {"Mac", None}, auth : Credentials,
     signer : {"library", "external", "foreign", "nobody"}, activated : BOOLEAN,
     declared : SUBSET Commands]

protocol == IF attempt = "current" THEN V4 ELSE V3

legacy_node_platform(p) == IF p = "macos" THEN "darwin" ELSE p

\* normalize_metadata: trimmed, in lower case
normalize_metadata(p) == IF p = "macOS" THEN "macos" ELSE IF p = "Mac" THEN "mac" ELSE p

\* ConnectAuth::signature_token: a password is not signed.
signature_token(auth) == IF auth = "password" THEN None ELSE auth

for_protocol(o, v) ==
    IF v = V3
    THEN [o EXCEPT !.platform = legacy_node_platform(@), !.device_family = None]
    ELSE o

\* The canonical payload that is signed.
Payload(nonce, platform, device_family, auth) ==
    [nonce |-> nonce, platform |-> normalize_metadata(platform),
     device_family |-> normalize_metadata(device_family), token |-> signature_token(auth)]

\* Mutant: the metadata of an external signature ignores the dialect.
current_metadata(o, v) == [platform |-> o.platform, device_family |-> o.device_family]

identity_metadata(o, v) ==
    IF v = V3
    THEN [platform |-> legacy_node_platform(o.platform), device_family |-> None]
    ELSE [platform |-> o.platform, device_family |-> o.device_family]

\* external_signing_request, which the embedding calls for a challenge and a
\* dialect, on options that are not fitted to the dialect yet.
ExternalProof(nonce, o, v) ==
    LET metadata == identity_metadata(o, v)
    IN  Payload(nonce, metadata.platform, metadata.device_family, o.auth)

\* What device() is given otherwise: a proof about nothing in particular.
ForeignProof == [made |-> "elsewhere"]

\* finalize_identity signs what it has; a proof set by device() is left as it is.
SignedByLibrary(nonce, o) == Payload(nonce, o.platform, o.device_family, o.auth)

Advertised(o) == IF o.activated THEN o.declared ELSE {}

\* Mutant: the identity is finalized before the options are fitted to the protocol.
FinalizedFirst(o, nonce, v) ==
    LET fitted == for_protocol(o, v)
    IN  [protocol |-> v, platform |-> fitted.platform, device_family |-> fitted.device_family,
         auth |-> o.auth, commands |-> Advertised(o),
         proof |-> IF o.signer = "nobody" THEN None ELSE SignedByLibrary(nonce, o)]

\* for_protocol, then finalize_identity: the request as it is written.
Envelope(o, nonce, v) ==
    LET fitted == for_protocol(o, v)
    IN  [protocol |-> v, platform |-> fitted.platform, device_family |-> fitted.device_family,
         auth |-> o.auth, commands |-> Advertised(o),
         proof |-> CASE o.signer = "library" -> SignedByLibrary(nonce, fitted)
                     [] o.signer = "external" -> ExternalProof(nonce, o, v)
                     [] o.signer = "foreign" -> ForeignProof
                     [] OTHER -> None]

Surface(o, v) == [activated |-> o.activated, commands |-> Advertised(o), protocol |-> v]

Init ==
    /\ pc = "dial"
    /\ attempt = "current"
    /\ opened = 0
    /\ issued = None
    /\ challenge = None
    /\ surface = [activated |-> FALSE, commands |-> {}, protocol |-> V4]
    /\ envelope = None
    /\ hello = None
    /\ refusal = None
    /\ session = None
    /\ error = None

Goto(where) == pc' = where /\ UNCHANGED error

Fail(e) == pc' = "failed" /\ error' = e

-----------------------------------------------------------------------------
(* connect_once.                                                           *)

\* A connection is opened in time, or refused, or not secure, or too slow.
Dial ==
    /\ pc = "dial"
    /\ opened' = opened + 1
    /\ issued' = None
    /\ challenge' = None
    /\ envelope' = None
    /\ \/ Goto("challenge")
       \/ \E e \in {"ConnectTimeout", "Tls", "Transport"} : Fail(e)
    /\ UNCHANGED <<attempt, surface, hello, refusal, session>>

\* The Gateway issues a nonce for this connection, a fresh one each time.
GatewayChallenges ==
    /\ pc = "challenge"
    /\ issued = None
    /\ issued' \in Nonces
    /\ UNCHANGED <<pc, attempt, opened, challenge, surface, envelope, hello, refusal, session,
                   error>>

\* wait_for_challenge: the nonce and the timestamp are both there.  Other frames
\* are skipped and pings are answered without a trace here.
TakeChallenge ==
    /\ pc = "challenge"
    /\ issued # None
    /\ challenge' = issued
    /\ Goto("params")
    /\ UNCHANGED <<attempt, opened, issued, surface, envelope, hello, refusal, session>>

\* Mutant: the wait for a frame has no deadline of its own.
ReadErrors == {"Closed", "Transport", "InvalidFrame", "WriteTimeout"}

\* What waiting for a frame may end with: the deadline around it, the stream's
\* end, a transport error, text that is no frame, a pong that cannot be written.
WaitErrors == {"timeout", "Closed", "Transport", "InvalidFrame", "WriteTimeout"}

Deadline(where) == IF where = "challenge" THEN "ChallengeTimeout" ELSE "RequestTimeout"

WaitFails(where) ==
    /\ pc = where
    /\ \E e \in WaitErrors \cup (IF where = "challenge" THEN {"InvalidChallenge"} ELSE {}) :
          Fail(IF e = "timeout" THEN Deadline(where) ELSE e)
    /\ UNCHANGED <<attempt, connectionVars, surface, envelope, hello, refusal, session>>

\* Mutant: the surface of the first attempt is kept.
FirstSurface(o) == IF attempt = "current" THEN Surface(o, protocol) ELSE surface

\* connection_surface is overwritten by every call of the callback.
StoredSurface(o) == Surface(o, protocol)

\* The embedding returns its options.  Nothing bounds how long it takes.
MakeParams ==
    /\ pc = "params"
    /\ \E o \in Options :
          /\ envelope' = Envelope(o, challenge, protocol)
          /\ surface' = StoredSurface(o)
    /\ Goto("send")
    /\ UNCHANGED <<attempt, connectionVars, hello, refusal, session>>

MakeParamsFails ==
    /\ pc = "params"
    /\ Fail("ConnectParams")
    /\ UNCHANGED <<attempt, connectionVars, surface, envelope, hello, refusal, session>>

\* send_request within the write timeout
SendConnect ==
    /\ pc = "send"
    /\ \/ Goto("response")
       \/ \E e \in {"WriteTimeout", "Transport"} : Fail(e)
    /\ UNCHANGED <<attempt, connectionVars, surface, envelope, hello, refusal, session>>

-----------------------------------------------------------------------------
(* The answer.                                                             *)

\* hello-ok, with whatever protocol the Gateway settled on.  NodeClient::connect
\* compares it with the protocol of the surface, then builds the session from it.
Accepted ==
    /\ pc = "response"
    /\ \E v \in {V3, V4, None} :
          /\ hello' = v
          /\ \/ v = surface.protocol /\ Goto("connected") /\ session' = surface
             \/ v # surface.protocol /\ Fail("InvalidFrame") /\ UNCHANGED session
    /\ UNCHANGED <<attempt, connectionVars, surface, envelope, refusal>>

\* What the Gateway may say of a refused connect, as far as it is looked at.
Refusals == [expected : {V3, V4, None}, code : {"PROTOCOL_MISMATCH", "OTHER"}, text : BOOLEAN]

\* Mutant: any protocol mismatch is answered with the legacy envelope.
AnyMismatch(r) == r.code = "PROTOCOL_MISMATCH" \/ r.text

is_expected_protocol_mismatch(r) ==
    /\ r.expected = V3
    /\ r.code = "PROTOCOL_MISMATCH" \/ r.text

\* Mutant: the fallback may be taken again.
Again == TRUE

\* Only the first attempt has a fallback.
MayFallBack == attempt = "current"

Refused ==
    /\ pc = "response"
    /\ \E r \in Refusals :
          /\ refusal' = IF attempt = "current" THEN r ELSE refusal
          /\ \/ /\ MayFallBack
                /\ is_expected_protocol_mismatch(r)
                /\ attempt' = "fallback"
                /\ Goto("dial")
             \/ /\ ~ (MayFallBack /\ is_expected_protocol_mismatch(r))
                /\ Fail("Gateway")
                /\ UNCHANGED attempt
    /\ UNCHANGED <<connectionVars, surface, envelope, hello, session>>

-----------------------------------------------------------------------------
\* The deadlines around the two waits.
ChallengeTimesOut == WaitFails("challenge") /\ error' = "ChallengeTimeout"
ResponseTimesOut == WaitFails("response") /\ error' = "RequestTimeout"

Next ==
    \/ Dial \/ GatewayChallenges \/ TakeChallenge
    \/ WaitFails("challenge") \/ WaitFails("response")
    \/ MakeParams \/ MakeParamsFails \/ SendConnect
    \/ Accepted \/ Refused

Spec == Init /\ [][Next]_vars

-----------------------------------------------------------------------------
(* Properties.                                                             *)

\* The proof the Gateway receives is about this connection and this request: it
\* is made over the nonce of the connection it is sent on and over the platform,
\* family and credential that the request itself carries, in both dialects and
\* whether the library signs or the embedding signs what external_signing_request
\* prepares from the same options.  A proof from elsewhere is not looked at.
ProofMatchesRequest ==
    pc \in {"send", "response", "connected"} /\ envelope.proof \notin {None, ForeignProof} =>
        envelope.proof =
            [nonce |-> issued, platform |-> normalize_metadata(envelope.platform),
             device_family |-> normalize_metadata(envelope.device_family),
             token |-> signature_token(envelope.auth)]

\* The session serves exactly what the accepted request advertised: the commands
\* of the envelope the Gateway said hello to, in the dialect it said hello in,
\* even if the embedding answered the two attempts differently.
SessionMatchesRequest ==
    pc = "connected" =>
        /\ session.commands = envelope.commands
        /\ session.protocol = envelope.protocol
        /\ session.protocol = hello
        /\ ~session.activated => envelope.commands = {}

\* The legacy dialect is never spoken unless the Gateway has said, in answer to
\* the current one, that it expects exactly that.
NoUnaskedDowngrade ==
    envelope # None /\ envelope.protocol = V3 => refusal # None /\ refusal.expected = V3

\* A connect call opens at most two connections.
AtMostTwoConnections == opened <= 2

\* What the end of connect is about: it has returned; it waits for the callback.
Returned == pc \in Over
InCallback == pc = "params"

-----------------------------------------------------------------------------
(* The inductive invariant.                                                *)

Places == {"dial", "challenge", "params", "send", "response", "connected", "failed"}

\* Each attempt opens one connection.
OneEach ==
    /\ pc \in Places
    /\ attempt \in {"current", "fallback"}
    /\ opened = (IF pc = "dial" THEN 0 ELSE 1) + (IF attempt = "current" THEN 0 ELSE 1)

\* The request was made from one answer of the embedding, over the challenge of
\* this connection, and connection_surface is that answer's.
MadeTogether ==
    /\ pc \in {"params", "send", "response", "connected"} => challenge = issued
    /\ pc \in {"send", "response", "connected"} =>
          \E o \in Options :
              envelope = Envelope(o, challenge, protocol) /\ surface = Surface(o, protocol)
    /\ pc = "connected" => session = surface /\ hello = surface.protocol

\* The fallback follows a refusal that asked for it, and only then is the legacy
\* dialect spoken.
Downgraded ==
    /\ attempt = "fallback" => refusal \in Refusals /\ refusal.expected = V3
    /\ envelope # None /\ envelope.protocol = V3 => attempt = "fallback"

ConnectInv == OneEach /\ MadeTogether /\ Downgraded
=============================================================================
