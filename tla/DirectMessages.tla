---------------------------- MODULE DirectMessages ----------------------------
(***************************************************************************)
(* routes/directMessages.js: opening the direct channel of a pair.  Each   *)
(* user has a setting after how many days without a message a channel      *)
(* counts as dormant; a dormant one is not reused.                         *)
(***************************************************************************)
EXTENDS Access

Made == {d \in Directs : direct[d] # "none"}

\* Under the pair's advisory lock: the channel fresh enough for the caller's setting
\* is found, or a new one is made with both members.
OpenDirect(h) ==
    \/ /\ kind = "PAIR" /\ Free(<<"pair", 0>>, h)
       /\ \E u \in accounts, age \in {"recent", "anyAge"} :
             Ask(h, "openDirect", u, Nobody, age, <<"freshDirect">>)
    \/ /\ Writes(h, "openDirect")
       /\ IF req[h].saw = "found" THEN UNCHANGED directs
          ELSE \E d \in Directs :
                  /\ direct[d] = "none" /\ \A e \in Directs : e < d => direct[e] # "none"
                  /\ direct' = [direct EXCEPT ![d] = "fresh"]
                  /\ doubled' = (doubled \/ Cardinality(Made) # req[h].row)
       /\ UNCHANGED <<scope, members, rooms, links, offer, administrators>>

\* Time passes without a message in a channel, or one is sent there.
DirectAges ==
    \E d \in Made, age \in {"fresh", "aged"} :
        /\ direct[d] # age
        /\ direct' = [direct EXCEPT ![d] = age]
        /\ UNCHANGED <<scope, members, rooms, links, offer, administrators, doubled, req, started>>

==============================================================================
