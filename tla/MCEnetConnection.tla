-------------------------- MODULE MCEnetConnection --------------------------
(***************************************************************************)
(* EnetConnection on a small instance: a connection and the one after it,  *)
(* two slots, so that a late CONNECT may take another slot or the old one. *)
(***************************************************************************)
EXTENDS EnetConnection
=============================================================================
