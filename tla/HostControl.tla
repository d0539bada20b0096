---------------------------- MODULE HostControl ----------------------------
(***************************************************************************)
(* hostd's HostControlCore (src/hostd/control_core.ts): creates, leases,   *)
(* the capacity ledger and the exposeHttp ports, over rootd as hostd sees  *)
(* it: a peer that answers bounded calls and goes on with a call that      *)
(* hostd has stopped waiting for.  An action is one segment between two    *)
(* awaits.  A sandbox id is minted by one create and never reused.         *)
(***************************************************************************)
EXTENDS Integers, FiniteSets

CONSTANTS Sandboxes,      \* ids that creates will mint
          ForwardPorts,   \* FORWARD_PORT_MIN..FORWARD_PORT_MAX
          SandboxLimit,   \* how many reservations the ledger admits
          Exposers,       \* concurrent exposeHttp calls
          MaxEpoch,       \* bound on revokeAll
          Faults,
          None

HostFaults == {"launch", "register", "timeout", "kill", "expose", "revoke", "restart"}

ASSUME HostPortsAssumption == ForwardPorts \subseteq Nat
ASSUME HostLimitsAssumption == SandboxLimit \in Nat /\ MaxEpoch \in Nat
ASSUME HostFaultsAssumption == Faults \subseteq HostFaults
ASSUME HostNoneAssumption == None \notin Sandboxes \cup ForwardPorts

VARIABLES
    \* rootd.
    vm,        \* none | launching | ready | gone
    fwd,       \* the host ports its sbx_pf table forwards
    late,      \* installs rootd still has to do for calls hostd gave up on
    \* hostd.
    epoch,     \* #epoch
    reserved,  \* sandboxes with a reservation in the ledger
    entry,     \* #sandboxes: none | running | terminated
    lease,     \* none | live | settled | revoked
    used,      \* ForwardPortAllocator
    leased,    \* #forwardLeases
    \* Calls under way.
    cpc, cepoch, undo,   \* create, its captured epoch, whether its rollback kills
    reclaim,             \* the reclaim #onLeaseExpire started
    xpc, xtgt, xport     \* exposeHttp

rootdVars == <<vm, fwd, late>>
hostVars  == <<epoch, reserved, entry, lease, used, leased>>
createVars == <<cpc, cepoch, undo>>
callVars  == <<xpc, xtgt, xport>>
vars == <<rootdVars, hostVars, createVars, reclaim, callVars>>

CreatePcs == {"idle", "reserve", "admitted", "launch", "rollback", "undo", "failed", "done"}

\* Every variable holds a value of its declared kind.
TypeOK ==
    /\ vm \in [Sandboxes -> {"none", "launching", "ready", "gone"}]
    /\ fwd \in [Sandboxes -> SUBSET ForwardPorts]
    /\ late \subseteq Sandboxes \X ForwardPorts
    /\ epoch \in 0..MaxEpoch
    /\ reserved \subseteq Sandboxes
    /\ entry \in [Sandboxes -> {"none", "running", "terminated"}]
    /\ lease \in [Sandboxes -> {"none", "live", "settled", "revoked"}]
    /\ used \subseteq ForwardPorts
    /\ leased \in [Sandboxes -> SUBSET ForwardPorts]
    /\ cpc \in [Sandboxes -> CreatePcs]
    /\ cepoch \in [Sandboxes -> 0..MaxEpoch]
    /\ undo \in [Sandboxes -> BOOLEAN]
    /\ reclaim \in [Sandboxes -> {"idle", "release", "kill", "done"}]
    /\ xpc \in [Exposers -> {"idle", "rpc", "installed"}]
    /\ xtgt \in [Exposers -> Sandboxes \cup {None}]
    /\ xport \in [Exposers -> ForwardPorts \cup {None}]
    /\ \A x \in Exposers : xpc[x] # "idle" =>
           xtgt[x] \in Sandboxes /\ xport[x] \in ForwardPorts

Init ==
    /\ vm = [s \in Sandboxes |-> "none"]
    /\ fwd = [s \in Sandboxes |-> {}]
    /\ late = {}
    /\ epoch = 0 /\ reserved = {}
    /\ entry = [s \in Sandboxes |-> "none"]
    /\ lease = [s \in Sandboxes |-> "none"]
    /\ used = {}
    /\ leased = [s \in Sandboxes |-> {}]
    /\ cpc = [s \in Sandboxes |-> "idle"]
    /\ cepoch = [s \in Sandboxes |-> 0]
    /\ undo = [s \in Sandboxes |-> FALSE]
    /\ reclaim = [s \in Sandboxes |-> "idle"]
    /\ xpc = [x \in Exposers |-> "idle"]
    /\ xtgt = [x \in Exposers |-> None]
    /\ xport = [x \in Exposers |-> None]

-----------------------------------------------------------------------------
(* rootd, as the gateway reaches it.                                       *)

RootdLaunched(s) ==
    /\ vm[s] = "launching"
    /\ vm' = [vm EXCEPT ![s] = "ready"]
    /\ UNCHANGED <<fwd, late, hostVars, createVars, reclaim, callVars>>

RootdLaunchFails(s) ==
    /\ vm[s] = "launching" /\ "launch" \in Faults
    /\ vm' = [vm EXCEPT ![s] = "gone"]
    /\ UNCHANGED <<fwd, late, hostVars, createVars, reclaim, callVars>>

\* gateway.kill: stops the machine and reaps its tables; refused for an
\* execution that has no live machine.
RootdKills(s) ==
    /\ vm' = [vm EXCEPT ![s] = IF @ = "ready" THEN "gone" ELSE @]
    /\ fwd' = [fwd EXCEPT ![s] = IF vm[s] = "ready" THEN {} ELSE @]

-----------------------------------------------------------------------------
(* create().                                                               *)

CreateTo(s, pc) == cpc' = [cpc EXCEPT ![s] = pc]

Create(s) ==
    /\ cpc[s] = "idle"
    /\ cepoch' = [cepoch EXCEPT ![s] = epoch]
    /\ CreateTo(s, "reserve")
    /\ UNCHANGED <<rootdVars, hostVars, undo, reclaim, callVars>>

\* Mutant: one reservation too many is admitted.
ReserveOneMore(s) ==
    /\ cpc[s] = "reserve"
    /\ IF Cardinality(reserved) <= SandboxLimit
       THEN reserved' = reserved \cup {s} /\ CreateTo(s, "admitted")
       ELSE CreateTo(s, "failed") /\ UNCHANGED reserved
    /\ UNCHANGED <<rootdVars, epoch, entry, lease, used, leased, cepoch, undo,
                   reclaim, callVars>>

\* Mutant: a full ledger makes the create wait instead of refusing it.
ReserveWaits(s) ==
    /\ cpc[s] = "reserve"
    /\ Cardinality(reserved) < SandboxLimit
    /\ reserved' = reserved \cup {s} /\ CreateTo(s, "admitted")
    /\ UNCHANGED <<rootdVars, epoch, entry, lease, used, leased, cepoch, undo,
                   reclaim, callVars>>

\* capacity.reserve: check and commit under the ledger's mutex.
Reserve(s) ==
    /\ cpc[s] = "reserve"
    /\ IF Cardinality(reserved) < SandboxLimit
       THEN reserved' = reserved \cup {s} /\ CreateTo(s, "admitted")
       ELSE CreateTo(s, "failed") /\ UNCHANGED reserved
    /\ UNCHANGED <<rootdVars, epoch, entry, lease, used, leased, cepoch, undo,
                   reclaim, callVars>>

\* The first epoch check, then gateway.launch goes out.
Admitted(s) ==
    /\ cpc[s] = "admitted"
    /\ IF epoch = cepoch[s]
       THEN vm' = [vm EXCEPT ![s] = "launching"] /\ CreateTo(s, "launch")
       ELSE CreateTo(s, "rollback") /\ UNCHANGED vm
    /\ UNCHANGED <<fwd, late, hostVars, cepoch, undo, reclaim, callVars>>

\* Mutant: the epoch is not looked at again after the launch.
RegisterAnyEpoch(s) ==
    /\ cpc[s] = "launch" /\ vm[s] = "ready"
    /\ entry' = [entry EXCEPT ![s] = "running"]
    /\ lease' = [lease EXCEPT ![s] = "live"]
    /\ CreateTo(s, "done")
    /\ UNCHANGED <<rootdVars, epoch, reserved, used, leased, cepoch, undo, reclaim,
                   callVars>>

\* The launch came back in the same epoch: the lease is armed and the entry
\* registered.
Register(s) ==
    /\ cpc[s] = "launch" /\ vm[s] = "ready"
    /\ epoch = cepoch[s]
    /\ entry' = [entry EXCEPT ![s] = "running"]
    /\ lease' = [lease EXCEPT ![s] = "live"]
    /\ CreateTo(s, "done")
    /\ UNCHANGED <<rootdVars, epoch, reserved, used, leased, cepoch, undo, reclaim,
                   callVars>>

\* It came back to a restarted hostd, or a later step threw: only the latter
\* rolls back with a kill.
RegisterFails(s) ==
    /\ cpc[s] = "launch" /\ vm[s] = "ready"
    /\ epoch # cepoch[s] \/ "register" \in Faults
    /\ undo' = [undo EXCEPT ![s] = epoch = cepoch[s]]
    /\ CreateTo(s, "rollback")
    /\ UNCHANGED <<rootdVars, hostVars, cepoch, reclaim, callVars>>

\* rootd answers an error, or the call's 15 s are over while rootd works on:
\* launched is still false.
LaunchRejected(s) ==
    /\ cpc[s] = "launch"
    /\ vm[s] = "gone" \/ "timeout" \in Faults
    /\ CreateTo(s, "rollback")
    /\ UNCHANGED <<rootdVars, hostVars, cepoch, undo, reclaim, callVars>>

RollbackRelease(s) ==
    /\ cpc[s] = "rollback"
    /\ reserved' = reserved \ {s}
    /\ CreateTo(s, IF undo[s] THEN "undo" ELSE "failed")
    /\ UNCHANGED <<rootdVars, epoch, entry, lease, used, leased, cepoch, undo,
                   reclaim, callVars>>

RollbackKill(s) ==
    /\ cpc[s] = "undo"
    /\ \/ RootdKills(s)
       \/ "kill" \in Faults /\ UNCHANGED <<vm, fwd>>
    /\ CreateTo(s, "failed")
    /\ UNCHANGED <<late, hostVars, cepoch, undo, reclaim, callVars>>

-----------------------------------------------------------------------------
(* The single kill path.                                                   *)

\* #releaseForwardPorts of every sandbox in S.
ReleaseForwardPorts(S) ==
    /\ used' = used \ UNION {leased[s] : s \in S}
    /\ leased' = [s \in Sandboxes |-> IF s \in S THEN {} ELSE leased[s]]

\* A deadline, a closed session, a release or a kill settles the lease;
\* #onLeaseExpire runs to its first await.
Settle(s) ==
    /\ lease[s] = "live"
    /\ lease' = [lease EXCEPT ![s] = "settled"]
    /\ entry' = [entry EXCEPT ![s] = "terminated"]
    /\ ReleaseForwardPorts({s})
    /\ reclaim' = [reclaim EXCEPT ![s] = "release"]
    /\ UNCHANGED <<rootdVars, epoch, reserved, createVars, callVars>>

\* Mutant: the budget is released and the kill forgotten.
ReleaseWithoutKill(s) ==
    /\ reclaim[s] = "release"
    /\ reserved' = reserved \ {s}
    /\ reclaim' = [reclaim EXCEPT ![s] = "done"]
    /\ UNCHANGED <<rootdVars, epoch, entry, lease, used, leased, createVars, callVars>>

ReclaimRelease(s) ==
    /\ reclaim[s] = "release"
    /\ reserved' = reserved \ {s}
    /\ reclaim' = [reclaim EXCEPT ![s] = "kill"]
    /\ UNCHANGED <<rootdVars, epoch, entry, lease, used, leased, createVars, callVars>>

\* gateway.kill, whose failure is swallowed.
ReclaimKill(s) ==
    /\ reclaim[s] = "kill"
    /\ \/ RootdKills(s)
       \/ "kill" \in Faults /\ UNCHANGED <<vm, fwd>>
    /\ reclaim' = [reclaim EXCEPT ![s] = "done"]
    /\ UNCHANGED <<late, hostVars, createVars, callVars>>

\* revokeAll at shutdown: every lease is dropped silently, ports are freed,
\* reservations and entries stay.
RevokeAll ==
    /\ "revoke" \in Faults /\ epoch < MaxEpoch
    /\ epoch' = epoch + 1
    /\ lease' = [s \in Sandboxes |-> IF lease[s] = "live" THEN "revoked" ELSE lease[s]]
    /\ ReleaseForwardPorts({s \in Sandboxes : entry[s] # "none"})
    /\ UNCHANGED <<rootdVars, reserved, entry, createVars, reclaim, callVars>>

\* The process is gone and a new one starts with empty maps; rootd keeps its
\* machines and the calls it was working on.
Restart ==
    /\ "restart" \in Faults
    /\ epoch' = 0 /\ reserved' = {} /\ used' = {}
    /\ entry' = [s \in Sandboxes |-> "none"]
    /\ lease' = [s \in Sandboxes |-> "none"]
    /\ leased' = [s \in Sandboxes |-> {}]
    /\ cpc' = [s \in Sandboxes |-> IF cpc[s] = "idle" THEN "idle" ELSE "failed"]
    /\ cepoch' = [s \in Sandboxes |-> 0]
    /\ undo' = [s \in Sandboxes |-> FALSE]
    /\ reclaim' = [s \in Sandboxes |-> "idle"]
    /\ xpc' = [x \in Exposers |-> "idle"]
    /\ xtgt' = [x \in Exposers |-> None]
    /\ xport' = [x \in Exposers |-> None]
    /\ late' = late \cup {<<xtgt[x], xport[x]>> : x \in {y \in Exposers : xpc[y] = "rpc"}}
    /\ UNCHANGED <<vm, fwd>>

-----------------------------------------------------------------------------
(* exposeHttp().                                                           *)

CallEnds(x) == /\ xpc' = [xpc EXCEPT ![x] = "idle"]
               /\ xtgt' = [xtgt EXCEPT ![x] = None]
               /\ xport' = [xport EXCEPT ![x] = None]

\* The lowest free port is leased and recorded before the call to rootd.
ExposeHttp(x, s) ==
    /\ xpc[x] = "idle"
    /\ entry[s] = "running" /\ lease[s] = "live"
    /\ \E p \in ForwardPorts \ used :
          /\ \A q \in ForwardPorts \ used : p <= q
          /\ used' = used \cup {p}
          /\ leased' = [leased EXCEPT ![s] = @ \cup {p}]
          /\ xport' = [xport EXCEPT ![x] = p]
    /\ xpc' = [xpc EXCEPT ![x] = "rpc"]
    /\ xtgt' = [xtgt EXCEPT ![x] = s]
    /\ UNCHANGED <<rootdVars, epoch, reserved, entry, lease, createVars, reclaim>>

RootdInstalls(x) ==
    /\ xpc[x] = "rpc" /\ vm[xtgt[x]] = "ready"
    /\ fwd' = [fwd EXCEPT ![xtgt[x]] = @ \cup {xport[x]}]
    /\ xpc' = [xpc EXCEPT ![x] = "installed"]
    /\ UNCHANGED <<vm, late, hostVars, createVars, reclaim, xtgt, xport>>

ExposeReturns(x) ==
    /\ xpc[x] = "installed"
    /\ CallEnds(x)
    /\ UNCHANGED <<rootdVars, hostVars, createVars, reclaim>>

\* Mutant: the port is freed whoever leases it now.
ReleaseBlindly(s, p) == used' = used \ {p} /\ leased' = [leased EXCEPT ![s] = @ \ {p}]

\* #releaseForwardLease: nothing happens if the sandbox was terminated and
\* its ports released meanwhile.
ReleaseForwardLease(s, p) ==
    IF p \in leased[s]
    THEN used' = used \ {p} /\ leased' = [leased EXCEPT ![s] = @ \ {p}]
    ELSE UNCHANGED <<used, leased>>

ExposeRejected(x) ==
    /\ xpc[x] = "rpc"
    /\ vm[xtgt[x]] # "ready" \/ "expose" \in Faults
    /\ ReleaseForwardLease(xtgt[x], xport[x])
    /\ CallEnds(x)
    /\ UNCHANGED <<rootdVars, epoch, reserved, entry, lease, createVars, reclaim>>

\* hostd stops waiting; rootd does not.
ExposeTimesOut(x) ==
    /\ xpc[x] \in {"rpc", "installed"} /\ "timeout" \in Faults
    /\ late' = IF xpc[x] = "rpc" THEN late \cup {<<xtgt[x], xport[x]>>} ELSE late
    /\ ReleaseForwardLease(xtgt[x], xport[x])
    /\ CallEnds(x)
    /\ UNCHANGED <<vm, fwd, epoch, reserved, entry, lease, createVars, reclaim>>

LateInstall(s, p) ==
    /\ <<s, p>> \in late
    /\ late' = late \ {<<s, p>>}
    /\ fwd' = IF vm[s] = "ready" THEN [fwd EXCEPT ![s] = @ \cup {p}] ELSE fwd
    /\ UNCHANGED <<vm, hostVars, createVars, reclaim, callVars>>

-----------------------------------------------------------------------------
CreateStep(s) == \/ Reserve(s) \/ Admitted(s) \/ Register(s) \/ RegisterFails(s)
                 \/ LaunchRejected(s) \/ RollbackRelease(s) \/ RollbackKill(s)

RootdStep(s) == RootdLaunched(s) \/ RootdLaunchFails(s)

ReclaimStep(s) == ReclaimRelease(s) \/ ReclaimKill(s)

ExposeStep(x) == \/ RootdInstalls(x) \/ ExposeReturns(x) \/ ExposeRejected(x)
                 \/ ExposeTimesOut(x)

Next ==
    \/ \E s \in Sandboxes : \/ Create(s) \/ CreateStep(s) \/ RootdStep(s)
                            \/ Settle(s) \/ ReclaimStep(s)
                            \/ \E p \in ForwardPorts : LateInstall(s, p)
    \/ RevokeAll \/ Restart
    \/ \E x \in Exposers : ExposeStep(x) \/ \E s \in Sandboxes : ExposeHttp(x, s)

Spec == Init /\ [][Next]_vars

\* Calls that have begun are run on, and rootd works on every launch.  No
\* client has to call and no lease has to end.
FairSpec ==
    /\ Spec
    /\ \A s \in Sandboxes : WF_vars(CreateStep(s)) /\ WF_vars(RootdStep(s))
                            /\ WF_vars(ReclaimStep(s))
    /\ \A x \in Exposers : WF_vars(ExposeStep(x))

-----------------------------------------------------------------------------
\* A reservation always has someone who will give it back: a create that is
\* still running, a running sandbox, or a reclaim that has not got to it; and
\* a running sandbox never loses its reservation.  Creates that are refused,
\* fail, time out or meet a restart, and kills at any moment, keep it so.
ReservationsOwned ==
    \A s \in Sandboxes :
        /\ s \in reserved =>
               \/ cpc[s] \in {"admitted", "launch", "rollback"}
               \/ entry[s] = "running"
               \/ reclaim[s] = "release"
        /\ entry[s] = "running" => s \in reserved

\* The allocator's bitmap is exactly the ports some sandbox leases, and no
\* port is leased twice, even when a sandbox terminates while its exposeHttp
\* is in flight and its port goes to another one before the call fails.
PortsPartitioned ==
    /\ used = UNION {leased[s] : s \in Sandboxes}
    /\ \A s, t \in Sandboxes : s # t => leased[s] \cap leased[t] = {}

\* What rootd forwards to a sandbox with a live lease are ports leased to it.
ForwardsLeased ==
    \A s \in Sandboxes : lease[s] = "live" => fwd[s] \subseteq leased[s]

\* "a hostd restart landing mid-create never leaves a live lease": no live
\* lease was created by a create that began before the last revokeAll.
LeasesOfThisEpoch ==
    \A s \in Sandboxes : lease[s] = "live" => cepoch[s] = epoch

\* revokeAll "fires no rootd kills": the machine of a sandbox whose lease was
\* dropped silently is still there, whatever else ends later.
RevokedNotKilled ==
    \A s \in Sandboxes : lease[s] = "revoked" => vm[s] = "ready"

\* The budget is given back before rootd confirms the kill, so machines may
\* exceed it, but never by more than the kills that are still outstanding.
OvercommitIsKills ==
    Cardinality({s \in Sandboxes : vm[s] \in {"launching", "ready"}})
        <= SandboxLimit + Cardinality({s \in Sandboxes :
                                          reclaim[s] = "kill" \/ cpc[s] = "undo"})

\* Every create answers, under FairSpec: a full ledger, a failing launch and a
\* roll-back leave no caller waiting.
CreatesEnd == \A s \in Sandboxes : cpc[s] = "reserve" ~> cpc[s] \in {"done", "failed"}

\* A settled lease ends with its machine gone and its budget and ports free,
\* under FairSpec: no exposeHttp in flight brings a forward or a port back.
SettledIsReclaimed ==
    \A s \in Sandboxes :
        lease[s] = "settled"
            ~> vm[s] = "gone" /\ s \notin reserved /\ leased[s] = {} /\ fwd[s] = {}

\* "a failed create leaks neither budget nor a live VM".  Does not hold when the
\* launch outlives the bounded call.
FailedCreateLeaksNothing ==
    \A s \in Sandboxes :
        cpc[s] = "failed" => s \notin reserved /\ vm[s] \in {"none", "gone"}

\* hostd's books are right after every create, expose, kill, revocation, time-out
\* and restart: budget and ports (capacity.ts, control_core.ts).
Accounted == TypeOK /\ ReservationsOwned /\ PortsPartitioned

\* What revokeAll promises, with creates and reclaims in flight.
RevocationHolds == LeasesOfThisEpoch /\ RevokedNotKilled

\* Budget and ports are lent a second time only over an outstanding kill
\* (control_core.ts #onLeaseExpire).
LentOnce == OvercommitIsKills /\ ForwardsLeased

=============================================================================
