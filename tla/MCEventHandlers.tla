--------------------------- MODULE MCEventHandlers ---------------------------
(***************************************************************************)
(* The handlers of the options and the resolution of user ids.  /setuid is *)
(* a step of both; else they share no variable, and each is checked while  *)
(* the other stands still.                                                 *)
(***************************************************************************)
EXTENDS EventHandlers, UidResolver

VARIABLE part       \* the component that moves

vars == <<optVars, uidVars, part>>

IgnoredBefore == << 3, 1 >>

Init == OptInit /\ UidInit /\ part \in {"options", "resolver"}

\* /setuid: uidz becomes the id, but for what is not a number, or the process ends.
SetUidCommand ==
    \E which \in Uids \cup {"number"} :
        /\ SetUid(which)
        /\ \/ alive' /\ \E id \in Given : SetUidz(id)
           \/ alive' /\ which = "number" /\ UNCHANGED uidVars
           \/ ~alive' /\ ProcessEnds

Next ==
    /\ \/ part = "options" /\ OptStep /\ UNCHANGED uidVars
       \/ part = "resolver" /\ alive /\ UidStep /\ UNCHANGED optVars
       \/ SetUidCommand
    /\ UNCHANGED part

\* Types of both, and what a form or a request may hold: a form has no box of an
\* option it does not show, a request about a player names one.
TypesOK == OptTypeOK /\ UidTypeOK

Spec == Init /\ [][Next]_vars /\ UidFairness

=============================================================================
