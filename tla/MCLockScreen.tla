---------------------------- MODULE MCLockScreen ----------------------------
(***************************************************************************)
(* Two locks, so that what one began may end in the next.                  *)
(***************************************************************************)
EXTENDS LockScreen
=============================================================================
