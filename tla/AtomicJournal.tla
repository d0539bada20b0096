--------------------------- MODULE AtomicJournal ---------------------------
(***************************************************************************)
(* What rootd's components believe of the journal: an update takes effect  *)
(* at one instant, on the record as it is at that instant, or not at all.  *)
(* A writer is one call: store.create, SupervisorCore.#update with a       *)
(* guarded or a blind mutation, or a create / remove of the jail registry. *)
(***************************************************************************)
EXTENDS Naturals

CONSTANTS Ids,      \* sandbox ids
          Writers,  \* update calls
          Kind      \* what each call does

Kinds == {"create", "owned", "sweep", "bind", "drop"}

VARIABLES journal,  \* the records
          out       \* what each call has answered, "none" before it returns

\* A record, cut down to what the guards of a mutation read.  edits is the set
\* of calls whose changes the record carries.
Absent == [closed |-> FALSE, machine |-> "absent", edits |-> {}]
Unbound == [Absent EXCEPT !.machine = "unbound"]
Record == [closed : BOOLEAN, machine : {"absent", "unbound", "jailed", "reclaiming"},
           edits : SUBSET Writers]

Exists(r) == r.machine # "absent"

\* What a mutation asks of the record: a supervisor writer stops at a record
\* the sweep or a terminate has converged (#assertWriterOwns); the sweep is
\* blind; the registry binds an unbound record and drops what is bound.
Allows(w, r) ==
    CASE Kind[w] = "create" -> ~Exists(r)
      [] Kind[w] = "owned"  -> Exists(r) /\ ~r.closed
      [] Kind[w] = "sweep"  -> Exists(r)
      [] Kind[w] = "bind"   -> r.machine = "unbound"
      [] Kind[w] = "drop"   -> r.machine = "jailed"

Mutated(w, r) ==
    [closed  |-> r.closed \/ Kind[w] = "sweep",
     machine |-> CASE Kind[w] = "create" -> "unbound"
                   [] Kind[w] = "bind"   -> "jailed"
                   [] Kind[w] = "drop"   -> "reclaiming"
                   [] OTHER              -> r.machine,
     edits   |-> r.edits \cup {w}]

Outcomes == {"none", "done", "refused", "exhausted", "failed", "lost"}

Applied(w) == \E id \in Ids : w \in journal[id].edits

\* Records of earlier processes may be there.
Init == /\ journal \in [Ids -> {Absent, Unbound}]
        /\ out = [w \in Writers |-> "none"]

\* The call takes effect.
Apply(w, id) ==
    /\ out[w] = "none" /\ ~Applied(w)
    /\ Allows(w, journal[id])
    /\ journal' = [journal EXCEPT ![id] = Mutated(w, @)]
    /\ UNCHANGED out

\* The call returns: with its effect in place,
Done(w) ==
    /\ out[w] = "none" /\ Applied(w)
    /\ out' = [out EXCEPT ![w] = "done"]
    /\ UNCHANGED journal

\* refused by a record that does not admit it,
Refused(w, id) ==
    /\ out[w] = "none" /\ ~Applied(w)
    /\ ~Allows(w, journal[id])
    /\ out' = [out EXCEPT ![w] = "refused"]
    /\ UNCHANGED journal

\* or having given up, with no effect.
GivesUp(w) ==
    /\ out[w] = "none" /\ ~Applied(w)
    /\ out' \in {[out EXCEPT ![w] = o] : o \in {"exhausted", "failed"}}
    /\ UNCHANGED journal

\* The process dies: calls under way never return, applied or not.
Dies ==
    /\ \E S \in SUBSET {w \in Writers : out[w] = "none"} :
          out' = [w \in Writers |-> IF w \in S THEN "lost" ELSE out[w]]
    /\ UNCHANGED journal

Next == \/ \E w \in Writers : \/ Done(w) \/ GivesUp(w)
                              \/ \E id \in Ids : Apply(w, id) \/ Refused(w, id)
        \/ Dies

Spec == Init /\ [][Next]_<<journal, out>>
=============================================================================
