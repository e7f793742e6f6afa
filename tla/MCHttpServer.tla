---------------------------- MODULE MCHttpServer ----------------------------
(***************************************************************************)
(* HttpServer on a small instance: a request without a body, one whose     *)
(* body looks like the end of a header and is followed by a stray byte,    *)
(* and one that is not HTTP.                                               *)
(***************************************************************************)
EXTENDS HttpServer

MCRequests == {
    [kind |-> "server_data", length |-> NoLength, bytes |-> <<"h", "e">>],
    [kind |-> "other", length |-> 1, bytes |-> <<"e", "e", "b">>],
    [kind |-> "malformed", length |-> 0, bytes |-> <<"e">>]}

Symmetry == Permutations(Conns)
=============================================================================
