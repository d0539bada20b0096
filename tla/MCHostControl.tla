---------------------------- MODULE MCHostControl ----------------------------
(* Small instances of HostControl for TLC.  Ports are numbers (the lowest    *)
(* free one is taken), so they are not symmetric.                            *)
EXTENDS HostControl, TLC

Symmetry == Permutations(Sandboxes) \cup Permutations(Exposers)
=============================================================================
