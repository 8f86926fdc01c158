--------------------------- MODULE MCDuplexInput ----------------------------
(* DuplexInput for TLC. *)
EXTENDS DuplexInput
=============================================================================
