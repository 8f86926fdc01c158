------------------------ MODULE SidecarNegotiation ------------------------
(***************************************************************************)
(* The pure checks of the sidecar protocol: negotiation of an offer, and   *)
(* validation of a runtime configuration against the negotiated limits.    *)
(* A peer identity is reduced to whether its fields are nonempty, feature  *)
(* bits to the set of bits, and a name to a model value.                   *)
(***************************************************************************)
EXTENDS Integers, Sequences, FiniteSets

CONSTANTS
    ProtocolMinor,   \* SIDECAR_PROTOCOL_MINOR
    MinFrame,        \* MIN_FRAME_BYTES
    MaxPortable,     \* MAX_PORTABLE_JSON_INTEGER
    PortableBits,    \* the bits below SIDECAR_MAX_FEATURE_BITS
    Names,           \* the well-formed names: 1 to 128 of the allowed bytes
    ReservedNames,   \* "system" and "system.*"
    MinOutput        \* minimum_bridge_failure_bytes()

SidecarPeerRole == {"supervisor", "runtime"}

expected_remote(role) == IF role = "supervisor" THEN "runtime" ELSE "supervisor"

\* The smaller of two limits.
Lower(a, b) == IF a <= b THEN a ELSE b

\* SidecarLimits::validate
LimitsValid(limits) ==
    /\ limits.max_frame_bytes >= MinFrame
    /\ limits.max_in_flight # 0
    /\ limits.bootstrap_timeout_ms # 0

\* negotiate_sidecar_protocol succeeds.
Negotiable(local, remote) ==
    /\ LimitsValid(local.limits)
    /\ LimitsValid(remote.limits)
    /\ local.role # remote.role
    /\ local.feature_bits \cup remote.feature_bits \subseteq PortableBits
    /\ local.protocol_major = 1 /\ remote.protocol_major = 1
    /\ local.protocol_minor <= ProtocolMinor

\* What it selects then: neither peer raises a ceiling of the other.
Selection(local, remote) ==
    [protocol_minor |-> Lower(local.protocol_minor, remote.protocol_minor),
     feature_bits |-> local.feature_bits \cap remote.feature_bits,
     limits |-> [l \in DOMAIN local.limits |-> Lower(local.limits[l], remote.limits[l])]]

\* SidecarHandshake::new accepts the local offer: validate_local_offer
\* negotiates it with a counterpart of the other role.
LocalOfferValid(offer) ==
    /\ offer.identified
    /\ Negotiable(offer, [offer EXCEPT !.role = expected_remote(@)])

\* validate_names
NamesValid(names, commands) ==
    /\ \A i \in 1 .. Len(names) : names[i] \in Names
    /\ \A i, j \in 1 .. Len(names) : names[i] = names[j] => i = j
    /\ commands => \A i \in 1 .. Len(names) : names[i] \notin ReservedNames

\* validate_configuration
ConfigurationValid(c, selection) ==
    /\ c.manifest_generation \in 1 .. MaxPortable
    /\ c.max_concurrency \in 1 .. selection.limits.max_in_flight
    /\ c.max_input_bytes \in 1 .. selection.limits.max_frame_bytes
    /\ c.max_output_bytes # 0
    /\ c.max_output_bytes \in MinOutput .. selection.limits.max_frame_bytes
    /\ c.default_timeout_ms # 0 /\ c.max_timeout_ms # 0
    /\ c.default_timeout_ms <= c.max_timeout_ms
    /\ c.result_grace_ms < c.default_timeout_ms
    /\ NamesValid(c.capabilities, FALSE)
    /\ NamesValid(c.commands, TRUE)

\* manifest_from_configuration.  The names are distinct once validated, so
\* their sorted list stands for their set.
Manifest(c) ==
    [manifest_generation |-> c.manifest_generation,
     capabilities |-> {c.capabilities[i] : i \in 1 .. Len(c.capabilities)},
     commands |-> {c.commands[i] : i \in 1 .. Len(c.commands)}]
=============================================================================
