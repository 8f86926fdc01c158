-------------------------- MODULE MCSidecarSession --------------------------
(* A small instance: sizes in abstract units, two kinds of offer per side. *)
EXTENDS SidecarSession

CONSTANTS a, b, sys

MCLimits(frame, inflight) ==
    [max_frame_bytes |-> frame, max_in_flight |-> inflight, bootstrap_timeout_ms |-> 1]

MCOffer(role, minor, frame, inflight) ==
    [role |-> role, protocol_major |-> 1, protocol_minor |-> minor, identified |-> TRUE,
     feature_bits |-> {minor}, limits |-> MCLimits(frame, inflight)]

\* A side with an older minor and wide limits, and a newer, narrower one.
MCOffers ==
    {MCOffer(role, 0, 8, 2) : role \in SidecarPeerRole}
        \cup {MCOffer(role, 1, 6, 1) : role \in SidecarPeerRole}

MCConfiguration(concurrency, commands) ==
    [manifest_generation |-> 1, max_concurrency |-> concurrency, max_input_bytes |-> 4,
     max_output_bytes |-> 4, default_timeout_ms |-> 2, max_timeout_ms |-> 2,
     result_grace_ms |-> 1, capabilities |-> <<>>, commands |-> commands]

\* Two with one manifest, and one that names a reserved command.
MCConfigurations ==
    {MCConfiguration(1, <<a, b>>), MCConfiguration(2, <<b, a>>), MCConfiguration(1, <<sys>>)}

MCFrameBytes ==
    [kind \in {"offer", "accept", "configure", "configured", "active"} |->
        CASE kind \in {"offer", "accept"} -> 7
          [] kind \in {"configure", "configured"} -> 6
          [] OTHER -> 5]
=============================================================================
