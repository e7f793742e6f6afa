------------------------------ MODULE MCWorld ------------------------------
(***************************************************************************)
(* World on a small instance: a world with up to three others, and the     *)
(* world after it.                                                         *)
(***************************************************************************)
EXTENDS World
=============================================================================
