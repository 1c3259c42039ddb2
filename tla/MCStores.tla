------------------------------- MODULE MCStores -------------------------------
(* Notifications and EntityNames for TLC.  They share nothing: each behaviour is *)
(* one of either, so that their states add up.                                   *)
EXTENDS Notifications, EntityNames, TLC

VARIABLE store  \* the one this behaviour is about

MCInit == Init /\ NamesInit /\ store \in {"notifications", "names"}

MCNext ==
    \/ store = "notifications" /\ Next /\ UNCHANGED <<nameVars, store>>
    \/ store = "names" /\ NamesNext /\ UNCHANGED <<vars, store>>

MCSpec == MCInit /\ [][MCNext]_<<vars, nameVars, store>>

Interchangeable == Permutations(Calls)

==============================================================================
