---------------------------- MODULE SandboxLife ----------------------------
(***************************************************************************)
(* What rootd promises about a sandbox, whatever fails and however often   *)
(* it is restarted: the life of its record, of the JailRecord in it and of *)
(* its VMM.  Journal before spawn, reclaim before forget, one VMM at a     *)
(* time, which boots only for a launch, and a verdict that stays.          *)
(***************************************************************************)
CONSTANTS Sandboxes,
          Leaky     \* a launch may be closed as terminated with its VMM alive

VARIABLES life,     \* what the record says
          jail,     \* the machine the record is bound to: unbound | jailed | reclaiming
          alive     \* the sandboxes that have a live VMM

lifeVars == <<life, jail, alive>>

Open == {"launching", "ready", "stopping", "sweeping"}
Verdicts == {"terminated", "quarantined"}

Init ==
    /\ life = [s \in Sandboxes |-> "absent"]
    /\ jail = [s \in Sandboxes |-> "unbound"]
    /\ alive = {}

Becomes(s, to) == life' = [life EXCEPT ![s] = to] /\ UNCHANGED <<jail, alive>>

\* A sandbox id is used once.
Register(s) == life[s] = "absent" /\ Becomes(s, "launching")

\* A launch binds the record, then boots; it may do so again once the first
\* VMM is reclaimed and its binding cleared.
Bind(s) ==
    /\ life[s] = "launching" /\ jail[s] = "unbound"
    /\ jail' = [jail EXCEPT ![s] = "jailed"]
    /\ UNCHANGED <<life, alive>>

Boot(s) ==
    /\ life[s] = "launching" /\ jail[s] = "jailed" /\ s \notin alive
    /\ alive' = alive \cup {s}
    /\ UNCHANGED <<life, jail>>

Unbind(s) ==
    /\ life[s] = "launching" /\ jail[s] = "reclaiming" /\ s \notin alive
    /\ jail' = [jail EXCEPT ![s] = "unbound"]
    /\ UNCHANGED <<life, alive>>

\* A VMM dies by itself, and the JailRecord stays;
Exits(s) ==
    /\ s \in alive
    /\ alive' = alive \ {s}
    /\ UNCHANGED <<life, jail>>

\* or VMMs are put down, each before its JailRecord is dropped.
Reclaim(S) ==
    /\ \A s \in S : jail[s] = "jailed"
    /\ alive' = alive \ S
    /\ jail' = [s \in Sandboxes |-> IF s \in S THEN "reclaiming" ELSE jail[s]]
    /\ UNCHANGED life

\* A launch succeeds once, with its machine bound.
Ready(s) == life[s] = "launching" /\ jail[s] = "jailed" /\ Becomes(s, "ready")

\* Only a ready sandbox is stopped; a sweep takes whatever is open.
Stop(s) == life[s] = "ready" /\ Becomes(s, "stopping")
Sweep(s) == life[s] \in Open /\ Becomes(s, "sweeping")

\* A launch that failed, a stop or a sweep decides: terminated says that no
\* VMM is left.
Close(s, verdict) ==
    /\ life[s] \in Open \ {"ready"}
    /\ verdict = "terminated" =>
           s \notin alive \/ (Leaky /\ life[s] = "launching")
    /\ Becomes(s, verdict)

Next ==
    \/ \E s \in Sandboxes :
          \/ Register(s) \/ Bind(s) \/ Boot(s) \/ Unbind(s) \/ Exits(s)
          \/ Ready(s) \/ Stop(s) \/ Sweep(s)
          \/ \E verdict \in Verdicts : Close(s, verdict)
    \/ \E S \in SUBSET Sandboxes : Reclaim(S)

Spec == Init /\ [][Next]_lifeVars
=============================================================================
