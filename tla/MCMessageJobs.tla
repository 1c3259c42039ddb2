---------------------------- MODULE MCMessageJobs ----------------------------
(* TLC instances of MessageJobs: a text that mentions bob and names an        *)
(* entity, and one that does neither.                                         *)
EXTENDS MessageJobs

MCTexts == {"rich", "plain"}
MCMentions == [t \in MCTexts |-> IF t = "rich" THEN Users ELSE {}]
MCTokens == [t \in MCTexts |-> IF t = "rich" THEN Entities ELSE {}]
==============================================================================
