---------------------------- MODULE MCRangeCoder ----------------------------
(* Small instance of RangeCoder. *)
EXTENDS RangeCoder

=============================================================================
