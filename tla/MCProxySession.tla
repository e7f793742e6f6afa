--------------------------- MODULE MCProxySession ---------------------------
(***************************************************************************)
(* ProxySession on a small instance: two peer slots, one subserver.  The   *)
(* handlers treat all peer slots alike, so the safety runs identify states *)
(* that differ by a permutation of them.                                   *)
(***************************************************************************)
EXTENDS ProxySession, TLC

PeerSymmetry == Permutations(Peers)
=============================================================================
