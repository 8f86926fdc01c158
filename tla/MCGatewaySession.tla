------------------------- MODULE MCGatewaySession ---------------------------
(* GatewaySession for TLC: two callers compete for one request slot, so the  *)
(* channel is full whenever a request or a cancellation waits in it.         *)
EXTENDS GatewaySession
=============================================================================
