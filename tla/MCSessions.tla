------------------------------ MODULE MCSessions ------------------------------
(* Sessions for TLC.  Browsers and handlers are interchangeable, and only      *)
(* safety is checked, so the symmetry is sound.                                *)
EXTENDS Sessions, TLC

Interchangeable == Permutations(Browsers) \cup Permutations(Handlers)
==============================================================================
