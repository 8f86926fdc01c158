-------------------------- MODULE MCCommandRuntime --------------------------
(* CommandRuntime for TLC: slots are interchangeable within each entry point, *)
(* and ids are only compared.                                                 *)
EXTENDS CommandRuntime, TLC

Interchangeable == Permutations(Direct) \cup Permutations(Slots \ Direct) \cup Permutations(Ids)
=============================================================================
