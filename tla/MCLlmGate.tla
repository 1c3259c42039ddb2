------------------------------ MODULE MCLlmGate ------------------------------
(* LlmGate on an instance with more clients than slots and queue places.     *)
EXTENDS LlmGate

MCLimits == {1, 2}
==============================================================================
