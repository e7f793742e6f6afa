---------------------------- MODULE MCEnetChannel ----------------------------
(***************************************************************************)
(* EnetChannel on a small instance.                                        *)
(***************************************************************************)
EXTENDS EnetChannel
=============================================================================
