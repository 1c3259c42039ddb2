----------------------------- MODULE AppendOnlyLog -----------------------------
(***************************************************************************)
(* What the audit trail promises, whoever writes to it: one history that   *)
(* only ever grows at its end, one event at a time.  Nothing recorded is   *)
(* altered, dropped or reordered, and no two writers continue the same     *)
(* history separately.                                                     *)
(***************************************************************************)
EXTENDS Naturals, Sequences

CONSTANT Events     \* what can be recorded

VARIABLE history    \* the recorded events, oldest first

Init == history = <<>>

Record(e) == history' = Append(history, e)

Next == \E e \in Events : Record(e)

Spec == Init /\ [][Next]_history
================================================================================
