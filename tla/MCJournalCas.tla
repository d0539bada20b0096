---------------------------- MODULE MCJournalCas ----------------------------
(* Small instances of JournalCas for TLC: calls of every kind on one       *)
(* sandbox id, and a create of another one in the same file.               *)
EXTENDS JournalCas, TLC

CONSTANTS a, b, create, owned, sweep, bind, drop

MCKind == [w \in Writers |->
              CASE w = create -> "create" [] w = owned -> "owned"
                [] w = sweep -> "sweep" [] w = bind -> "bind" [] w = drop -> "drop"]
MCTargets == [w \in Writers |-> IF w = create THEN {b} ELSE {a}]
=============================================================================
