------------------------- MODULE MCSandboxScenarios -------------------------
(* Instances of SandboxScenarios for TLC: the constants are in the .cfg file. *)
EXTENDS SandboxScenarios, TLC

Symmetric == Permutations(Callers) \cup Permutations(Suggestions)
=============================================================================
