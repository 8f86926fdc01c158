----------------------------- MODULE MCEventHub -----------------------------
(* EventHub for TLC. *)
EXTENDS EventHub

=============================================================================
