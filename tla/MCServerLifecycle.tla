------------------------- MODULE MCServerLifecycle -------------------------
(* Three connections, up to two requests in flight on each.                *)
EXTENDS ServerLifecycle
=============================================================================
