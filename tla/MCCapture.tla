----------------------------- MODULE MCCapture -----------------------------
(***************************************************************************)
(* Two peers, each of which may have been there before: a watch on a       *)
(* resolvable address, and a headset on a fixed one, which claims an       *)
(* identity of its own or the watch's.  Two attempts at restoring stand    *)
(* for ten.                                                                *)
(***************************************************************************)
EXTENDS Capture

CONSTANTS watch, headset

MCClaims == [p \in Peer |-> {p, watch}]
=============================================================================
