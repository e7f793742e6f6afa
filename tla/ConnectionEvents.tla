-------------------------- MODULE ConnectionEvents --------------------------
(***************************************************************************)
(* What an application that accepts ENet connections may rely on: the      *)
(* events of a peer slot alternate between CONNECT and the end of the      *)
(* connection (a DISCONNECT event, or the application's own reset), and    *)
(* one connection attempt of the other host is announced at most once,     *)
(* however often its datagrams arrive.                                     *)
(***************************************************************************)
EXTENDS Naturals

CONSTANTS Slots, Connections

VARIABLES told,      \* the connection each slot stands for to the application
          announced  \* connections announced so far

Init == told = [p \in Slots |-> 0] /\ announced = {}

Connect(p, c) ==
    /\ told[p] = 0
    /\ c \notin announced
    /\ told' = [told EXCEPT ![p] = c]
    /\ announced' = announced \cup {c}

End(p) ==
    /\ told[p] # 0
    /\ told' = [told EXCEPT ![p] = 0]
    /\ UNCHANGED announced

Next == \E p \in Slots : End(p) \/ \E c \in Connections : Connect(p, c)

Spec == Init /\ [][Next]_<<told, announced>>
=============================================================================
