------------------------------- MODULE MCAgent -------------------------------
(* A small instance of Agent for TLC: one call opens a repl, the other a     *)
(* file, an upload or a process.                                             *)
EXTENDS Agent

CONSTANTS k1, k2

MCCalls == {k1, k2}
MCKinds == [k \in MCCalls |-> IF k = k1 THEN {"repl"} ELSE {"file", "upload", "process"}]
=============================================================================
