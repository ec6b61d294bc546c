----------------------------- MODULE MCDaemon -----------------------------
(***************************************************************************)
(* One watch that needs two sightings a tick apart, both inside a window   *)
(* and a freshness of one tick, so that a grant comes and goes inside a    *)
(* run of two ticks; a client that waits one tick.                         *)
(***************************************************************************)
EXTENDS Daemon

CONSTANT watch

MCPolicyOf == [d \in Device |->
  [threshold |-> -75, min |-> 2, window |-> 1, freshness |-> 1]]

MCRule == [kind |-> "any", n |-> 0]

MCRssi == {-70}
=============================================================================
