---------------------------- MODULE MCHostsFile ----------------------------
(***************************************************************************)
(* HostsFile on a small instance: a run that is killed or ends, the run    *)
(* after it, and two clients that ask at the same time.                    *)
(***************************************************************************)
EXTENDS HostsFile
=============================================================================
