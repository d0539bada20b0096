---------------------------- MODULE MCSupervisor ----------------------------
(* Small instances of Supervisor for TLC.                                  *)
EXTENDS Supervisor, TLC

Symmetry == Permutations(Sandboxes) \cup Permutations(Killers)
                \cup Permutations(Callers) \cup Permutations(Ports)
=============================================================================
