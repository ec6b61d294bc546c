--------------------------- MODULE MCControlSocket ---------------------------
(***************************************************************************)
(* The user service and a standalone daemon, which may die three times     *)
(* between them, one listener without the lock, one removal of the         *)
(* runtime directory.                                                      *)
(***************************************************************************)
EXTENDS ControlSocket

CONSTANTS unit, standalone, squatter
=============================================================================
