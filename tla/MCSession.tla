----------------------------- MODULE MCSession -----------------------------
(***************************************************************************)
(* Two operations and three requests to leave: one that is polled, one     *)
(* that forces the exit, one more against that.                            *)
(***************************************************************************)
EXTENDS Session
=============================================================================
