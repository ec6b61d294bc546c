------------------------------ MODULE MCFleet ------------------------------
(***************************************************************************)
(* A watch that needs two sightings and a phone whose freshness outlasts   *)
(* its window, both needed.  Spacing is two ticks, so a tick is 25 ms of   *)
(* the code's scale and a policy's ratio of window to spacing is kept      *)
(* small: what matters is that windows hold several spaced sightings,      *)
(* expire before and after freshness does, and end inside the run.         *)
(***************************************************************************)
EXTENDS Fleet

CONSTANTS watch, phone

MCPolicyOf == [d \in Device |->
  IF d = watch
    THEN [threshold |-> -75, min |-> 2, window |-> 4, freshness |-> 3]
    ELSE [threshold |-> -75, min |-> 1, window |-> 2, freshness |-> 4]]

MCRule == [kind |-> "at-least", n |-> 2]

MCRssi == {-80, -70}
=============================================================================
