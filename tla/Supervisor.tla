----------------------------- MODULE Supervisor -----------------------------
(***************************************************************************)
(* rootd's SupervisorCore (src/rootd/supervisor_core.ts) over its durable  *)
(* journal, the launch planner, the Firecracker adapter and the network    *)
(* dataplane.  Every action is one run-to-completion segment of the        *)
(* single-threaded process: the code between two awaits.  A journal update *)
(* (#update: read, compare-and-swap, retry) is one step; module JournalCas *)
(* shows that this is what the loop amounts to.                            *)
(*                                                                         *)
(* A launch is for one (sandbox id, execution id) pair, and store.create   *)
(* refuses a second launch of a journaled id, so a sandbox stands for both *)
(* ids.                                                                    *)
(***************************************************************************)
EXTENDS Integers, FiniteSets

CONSTANTS Sandboxes,   \* sandbox ids a client may launch
          Slots,       \* /30 subnet slots of the allocator
          Ports,       \* host ports leased for exposeHttp
          Killers,     \* concurrent kill / shutdown calls
          Callers,     \* concurrent exposeHttp / openBridge calls
          Faults,      \* which outside operations may fail in this run
          None         \* "no sandbox", "no slot"

FaultKinds == {"plan", "unwind", "boot", "dial", "stop", "hook", "sweep",
               "forward", "exit", "crash"}

ASSUME SlotsAssumption == Slots \subseteq Nat
ASSUME FaultsAssumption == Faults \subseteq FaultKinds
ASSUME NoneAssumption == None \notin Sandboxes \cup Slots

VARIABLES
    \* The journal: one SandboxRecord per sandbox, durable.
    phase,          \* record.phase, "none" before store.create
    machine,        \* record.machine: unbound | jailed (holds a JailRecord) | reclaiming
    tapSlot,        \* the slot of record.resources.tapName
    exposedPorts,   \* record.resources.exposedPorts
    \* The host: survives a rootd crash.
    vmm,            \* the live VMM processes of a sandbox, by how they booted
    tap,            \* the sandbox whose TAP, filter and dnsmasq stand on a slot
    pfTable,        \* the DNAT rules of the sandbox's sbx_pf table
    \* rootd's memory.
    up,             \* down | starting | serving
    used,           \* the allocator's bitmap
    machines,       \* executions with an entry in #machines
    exits,          \* executions with an entry in #exits
    bridges,        \* executions with an unexpired bridge grant
    \* Where each operation is: launches by sandbox, kills by call, ...
    lpc, lkind, lslot,
    kpc, ktgt,
    xpc, xtgt, xport, xfwd,
    rpc, ropen, rfail, rcur

journal == <<phase, machine, tapSlot, exposedPorts>>
host    == <<vmm, tap, pfTable>>
memory  == <<used, machines, exits, bridges>>
launchVars  == <<lpc, lkind, lslot>>
killVars    == <<kpc, ktgt>>
callVars    == <<xpc, xtgt, xport, xfwd>>
sweepVars   == <<rpc, ropen, rfail, rcur>>
vars == <<journal, host, up, memory, launchVars, killVars, callVars, sweepVars>>

Terminal   == {"terminated", "quarantined"}
Reconciled == {"reconciling", "terminated", "quarantined"}
Phases     == Terminal \cup
              {"none", "allocating", "staging", "booting", "ready",
               "terminating", "reconciling"}
Kinds      == {"cold", "restore"}
LaunchPcs  == {"idle", "stage", "resolve", "provision", "commit", "bind",
               "spawn", "boot", "dial", "flip", "track", "unbind",
               "park", "parkDirty", "terminate", "quarantine"}
KillPcs    == {"idle", "mark", "stop", "hookPf", "hookTap", "finish",
               "quarantine", "untrack"}
CallPcs    == {"idle", "queued", "install", "journal", "undo", "bridge"}
SweepPcs   == {"idle", "mark", "records", "hookPf", "hookTap", "terminate",
               "quarantine"}

\* Every variable holds a value of its declared kind.
TypeOK ==
    /\ phase \in [Sandboxes -> Phases]
    /\ machine \in [Sandboxes -> {"unbound", "jailed", "reclaiming"}]
    /\ tapSlot \in [Sandboxes -> Slots \cup {None}]
    /\ exposedPorts \in [Sandboxes -> SUBSET Ports]
    /\ vmm \in [Sandboxes -> SUBSET Kinds]
    /\ tap \in [Slots -> Sandboxes \cup {None}]
    /\ pfTable \in [Sandboxes -> SUBSET Ports]
    /\ up \in {"down", "starting", "serving"}
    /\ used \subseteq Slots
    /\ machines \subseteq Sandboxes
    /\ exits \subseteq Sandboxes
    /\ bridges \subseteq Sandboxes
    /\ lpc \in [Sandboxes -> LaunchPcs]
    /\ lkind \in [Sandboxes -> Kinds]
    /\ lslot \in [Sandboxes -> Slots \cup {None}]
    /\ \A s \in Sandboxes : lpc[s] = "provision" => lslot[s] \in Slots
    /\ kpc \in [Killers -> KillPcs]
    /\ ktgt \in [Killers -> Sandboxes \cup {None}]
    /\ \A k \in Killers : kpc[k] # "idle" => ktgt[k] \in Sandboxes
    /\ xpc \in [Callers -> CallPcs]
    /\ xtgt \in [Callers -> Sandboxes \cup {None}]
    /\ \A x \in Callers : xpc[x] # "idle" => xtgt[x] \in Sandboxes
    /\ xport \in [Callers -> Ports \cup {None}]
    /\ \A x \in Callers : xpc[x] \in {"queued", "install", "journal"}
                              => xport[x] \in Ports
    /\ xfwd \in [Callers -> SUBSET Ports]
    /\ rpc \in SweepPcs
    /\ ropen \subseteq Sandboxes
    /\ rfail \subseteq Sandboxes
    /\ rcur \in Sandboxes \cup {None}
    /\ rpc \in {"hookPf", "hookTap", "terminate", "quarantine"}
           => rcur \in Sandboxes

-----------------------------------------------------------------------------
(* The guards the operations share.                                        *)

reconciling == rpc # "idle"

\* #rejectDuringReconcile, on a supervisor that answers calls.
Accepting == up = "serving" /\ ~reconciling

\* The #inflight set: launches and terminates, not exposeHttp.
Inflight == \/ \E s \in Sandboxes : lpc[s] # "idle"
            \/ \E k \in Killers : kpc[k] # "idle"

\* Mutant of WriterOwns: only a foreign execution is stale, whatever the phase.
OwnsAnyPhase(s) == TRUE

\* #assertWriterOwns.  A record has one execution for life, so only the
\* phase can make a writer stale.
WriterOwns(s) == phase[s] \notin Reconciled

\* #ownedTransition: the record moves only for its owner and only from an
\* expected phase.
CanMove(s, from) == WriterOwns(s) /\ phase[s] \in from
Move(s, from, to) ==
    phase' = IF CanMove(s, from) THEN [phase EXCEPT ![s] = to] ELSE phase

\* Where a launch goes after #ownedTransition: on, out (SBX_SUP_STALE, which
\* #parkFailedLaunch leaves alone), or to #parkFailedLaunch.
AfterMove(s, from, next) ==
    IF ~WriterOwns(s) THEN "idle" ELSE IF phase[s] \in from THEN next ELSE "park"

\* #byExecution resolves the id through record.machine.
Bound(s) == machine[s] # "unbound"

\* #requireReadyAndLive's half that reads memory.
Live(s) == s \in machines /\ s \notin exits

\* isLive of the orphan sweep: a record that still owns its dataplane.
OwnsDataplane(s) == phase[s] \notin {"none", "terminated"}

-----------------------------------------------------------------------------
(* The outside world as rootd drives it.                                   *)

\* Mutant of Reclaimed: the JailRecord is dropped and the process lives on.
ForgetsOnly(S) ==
    /\ machine' = [s \in Sandboxes |->
                      IF s \in S /\ machine[s] = "jailed" THEN "reclaiming"
                      ELSE machine[s]]
    /\ UNCHANGED vmm

\* Machine.kill + dispose, or a scoped package reconcile, that works: the
\* process is dead before its JailRecord is dropped.
Reclaimed(S) ==
    /\ vmm' = [s \in Sandboxes |-> IF s \in S THEN {} ELSE vmm[s]]
    /\ machine' = [s \in Sandboxes |->
                      IF s \in S /\ machine[s] = "jailed" THEN "reclaiming"
                      ELSE machine[s]]

\* NetworkReclaimHook's last two steps: delete the TAP by slot, free the slot.
ReclaimTap(s) ==
    /\ tap' = IF tapSlot[s] = None THEN tap ELSE [tap EXCEPT ![tapSlot[s]] = None]
    /\ used' = used \ {tapSlot[s]}

\* NetworkReclaimHook's table steps; a record that journaled no TAP is skipped.
ReclaimForwards(s) == pfTable' = [pfTable EXCEPT ![s] = {}]

-----------------------------------------------------------------------------
Init ==
    /\ phase = [s \in Sandboxes |-> "none"]
    /\ machine = [s \in Sandboxes |-> "unbound"]
    /\ tapSlot = [s \in Sandboxes |-> None]
    /\ exposedPorts = [s \in Sandboxes |-> {}]
    /\ vmm = [s \in Sandboxes |-> {}]
    /\ tap = [n \in Slots |-> None]
    /\ pfTable = [s \in Sandboxes |-> {}]
    /\ up = "down"
    /\ used = {} /\ machines = {} /\ exits = {} /\ bridges = {}
    /\ lpc = [s \in Sandboxes |-> "idle"]
    /\ lkind = [s \in Sandboxes |-> "cold"]
    /\ lslot = [s \in Sandboxes |-> None]
    /\ kpc = [k \in Killers |-> "idle"]
    /\ ktgt = [k \in Killers |-> None]
    /\ xpc = [x \in Callers |-> "idle"]
    /\ xtgt = [x \in Callers |-> None]
    /\ xport = [x \in Callers |-> None]
    /\ xfwd = [x \in Callers |-> {}]
    /\ rpc = "idle" /\ ropen = {} /\ rfail = {} /\ rcur = None

-----------------------------------------------------------------------------
(* main(): cold start.  The startup path rebuilds the allocator and sweeps *)
(* network orphans; it does not call SupervisorCore.reconcile.             *)

\* Mutants of StartReserve: quarantined records reserve nothing; the bitmap
\* starts empty.
ReserveOpenOnly ==
    /\ up = "down"
    /\ up' = "starting"
    /\ used' = {tapSlot[s] : s \in {r \in Sandboxes : phase[r] \notin Terminal}} \ {None}
    /\ UNCHANGED <<journal, host, machines, exits, bridges,
                   launchVars, killVars, callVars, sweepVars>>
ReserveNothing ==
    /\ up = "down"
    /\ up' = "starting"
    /\ used' = {}
    /\ UNCHANGED <<journal, host, machines, exits, bridges,
                   launchVars, killVars, callVars, sweepVars>>

\* reserveLiveSlots over the journal as read at start.
StartReserve ==
    /\ up = "down"
    /\ up' = "starting"
    /\ used' = {tapSlot[s] : s \in {r \in Sandboxes : OwnsDataplane(r)}} \ {None}
    /\ UNCHANGED <<journal, host, machines, exits, bridges,
                   launchVars, killVars, callVars, sweepVars>>

\* sweepNetworkOrphans, then the supervisor socket is bound.
StartSweep ==
    /\ up = "starting"
    /\ up' = "serving"
    /\ tap' = [n \in Slots |->
                  IF \E s \in Sandboxes : OwnsDataplane(s) /\ tapSlot[s] = n
                  THEN tap[n] ELSE None]
    /\ pfTable' = [s \in Sandboxes |->
                      IF OwnsDataplane(s) THEN pfTable[s] ELSE {}]
    /\ UNCHANGED <<journal, vmm, memory, launchVars, killVars, callVars, sweepVars>>

\* rootd is killed: memory is lost, the journal, the VMMs and the dataplane
\* stay.
Crash ==
    /\ "crash" \in Faults
    /\ up # "down"
    /\ up' = "down"
    /\ used' = {} /\ machines' = {} /\ exits' = {} /\ bridges' = {}
    /\ lpc' = [s \in Sandboxes |-> "idle"]
    /\ lkind' = [s \in Sandboxes |-> "cold"]
    /\ lslot' = [s \in Sandboxes |-> None]
    /\ kpc' = [k \in Killers |-> "idle"]
    /\ ktgt' = [k \in Killers |-> None]
    /\ xpc' = [x \in Callers |-> "idle"]
    /\ xtgt' = [x \in Callers |-> None]
    /\ xport' = [x \in Callers |-> None]
    /\ xfwd' = [x \in Callers |-> {}]
    /\ rpc' = "idle" /\ ropen' = {} /\ rfail' = {} /\ rcur' = None
    /\ UNCHANGED <<journal, host>>

\* A VMM dies by itself; #track's observer records the exit.
VmmExit(s) ==
    /\ "exit" \in Faults
    /\ vmm[s] # {}
    /\ vmm' = [vmm EXCEPT ![s] = {}]
    /\ exits' = exits \cup ({s} \cap machines)
    /\ UNCHANGED <<journal, tap, pfTable, up, used, machines, bridges,
                   launchVars, killVars, callVars, sweepVars>>

-----------------------------------------------------------------------------
(* launch(): journal-before-spawn.                                         *)

LaunchTo(s, pc) == lpc' = [lpc EXCEPT ![s] = pc]

\* launch + store.create; a sandbox already journaled is SBX_SUP_DUPLICATE.
Launch(s) ==
    /\ Accepting
    /\ lpc[s] = "idle" /\ phase[s] = "none"
    /\ phase' = [phase EXCEPT ![s] = "allocating"]
    /\ LaunchTo(s, "stage")
    /\ UNCHANGED <<machine, tapSlot, exposedPorts, host, up, memory, lkind, lslot,
                   killVars, callVars, sweepVars>>

LaunchStage(s) ==
    /\ lpc[s] = "stage"
    /\ Move(s, {"allocating"}, "staging")
    /\ LaunchTo(s, AfterMove(s, {"allocating"}, "resolve"))
    /\ UNCHANGED <<machine, tapSlot, exposedPorts, host, up, memory, lkind, lslot,
                   killVars, callVars, sweepVars>>

\* planner.resolve for a netless request, or with no dataplane: always cold.
ResolveNetless(s) ==
    /\ lpc[s] = "resolve"
    /\ LaunchTo(s, "commit")
    /\ UNCHANGED <<journal, host, up, memory, lkind, lslot,
                   killVars, callVars, sweepVars>>

\* Mutant of ResolveAllocate: slots are counted from one.
AllocateFromOne(s) ==
    /\ lpc[s] = "resolve"
    /\ used # Slots
    /\ LET n == Cardinality(used) + 1
       IN  /\ used' = used \cup {n}
           /\ lslot' = [lslot EXCEPT ![s] = n]
    /\ LaunchTo(s, "provision")
    /\ UNCHANGED <<journal, host, up, machines, exits, bridges, lkind,
                   killVars, callVars, sweepVars>>

\* #provisionNetwork takes the lowest free slot.
ResolveAllocate(s) ==
    /\ lpc[s] = "resolve"
    /\ \E n \in Slots \ used :
          /\ \A m \in Slots \ used : n <= m
          /\ used' = used \cup {n}
          /\ lslot' = [lslot EXCEPT ![s] = n]
    /\ LaunchTo(s, "provision")
    /\ UNCHANGED <<journal, host, up, machines, exits, bridges, lkind,
                   killVars, callVars, sweepVars>>

\* The pool is exhausted, the artifact set is missing, or the overlay exists.
ResolveRefused(s) ==
    /\ lpc[s] = "resolve"
    /\ used = Slots \/ "plan" \in Faults
    /\ LaunchTo(s, "park")
    /\ UNCHANGED <<journal, host, up, memory, lkind, lslot,
                   killVars, callVars, sweepVars>>

\* TAP, egress filter and dnsmasq are up; a valid template makes the plan a
\* restore that carries a cold fallback.
ResolveProvision(s) ==
    /\ lpc[s] = "provision"
    /\ tap' = [tap EXCEPT ![lslot[s]] = s]
    /\ \E kind \in Kinds : lkind' = [lkind EXCEPT ![s] = kind]
    /\ LaunchTo(s, "commit")
    /\ UNCHANGED <<journal, vmm, pfTable, up, memory, lslot,
                   killVars, callVars, sweepVars>>

\* A later provisioning step throws: #unwindNetwork deletes the TAP (its own
\* failure is swallowed) and frees the slot in any case.
ResolveUnwind(s) ==
    /\ lpc[s] = "provision" /\ "plan" \in Faults
    /\ \/ tap' = [tap EXCEPT ![lslot[s]] = None]
       \/ "unwind" \in Faults /\ tap' = [tap EXCEPT ![lslot[s]] = s]
    /\ used' = used \ {lslot[s]}
    /\ lslot' = [lslot EXCEPT ![s] = None]
    /\ LaunchTo(s, "park")
    /\ UNCHANGED <<journal, vmm, pfTable, up, machines, exits, bridges, lkind,
                   killVars, callVars, sweepVars>>

\* staging -> booting carries the network resources into the journal.
LaunchCommit(s) ==
    /\ lpc[s] = "commit"
    /\ Move(s, {"staging"}, "booting")
    /\ tapSlot' = IF CanMove(s, {"staging"})
                  THEN [tapSlot EXCEPT ![s] = lslot[s]] ELSE tapSlot
    /\ lslot' = [lslot EXCEPT ![s] = None]
    /\ LaunchTo(s, AfterMove(s, {"staging"}, "bind"))
    /\ UNCHANGED <<machine, exposedPorts, host, up, memory, lkind,
                   killVars, callVars, sweepVars>>

\* The package puts the JailRecord before it spawns; the create-only registry
\* refuses a record whose machine is already bound.
LaunchBind(s) ==
    /\ lpc[s] = "bind"
    /\ machine' = [machine EXCEPT ![s] = IF Bound(s) THEN @ ELSE "jailed"]
    /\ LaunchTo(s, IF Bound(s) THEN "park" ELSE "spawn")
    /\ UNCHANGED <<phase, tapSlot, exposedPorts, host, up, memory, lkind, lslot,
                   killVars, callVars, sweepVars>>

LaunchSpawn(s) ==
    /\ lpc[s] = "spawn"
    /\ vmm' = [vmm EXCEPT ![s] = @ \cup {lkind[s]}]
    /\ LaunchTo(s, "boot")
    /\ UNCHANGED <<journal, tap, pfTable, up, memory, lkind, lslot,
                   killVars, callVars, sweepVars>>

\* adapter.launch / adapter.restore resolve.
LaunchBooted(s) ==
    /\ lpc[s] = "boot"
    /\ LaunchTo(s, "dial")
    /\ UNCHANGED <<journal, host, up, memory, lkind, lslot,
                   killVars, callVars, sweepVars>>

\* Where a launch whose VMM is confirmed down goes: a restore falls back.
AfterPutDown(s) == IF lkind[s] = "restore" THEN "unbind" ELSE "park"

\* The boot fails and the adapter's scoped reconcile reclaims the execution.
LaunchBootFailed(s) ==
    /\ lpc[s] = "boot" /\ "boot" \in Faults
    /\ Reclaimed({s})
    /\ LaunchTo(s, AfterPutDown(s))
    /\ UNCHANGED <<phase, tapSlot, exposedPorts, tap, pfTable, up, memory,
                   lkind, lslot, killVars, callVars, sweepVars>>

\* The boot fails and so does the scoped reconcile: SBX_FC_CLEANUP.
LaunchBootStuck(s) ==
    /\ lpc[s] = "boot" /\ {"boot", "stop"} \subseteq Faults
    /\ LaunchTo(s, "parkDirty")
    /\ UNCHANGED <<journal, host, up, memory, lkind, lslot,
                   killVars, callVars, sweepVars>>

\* The vsock dial (cold) or dial + personalize (restore) answers.
LaunchDialed(s) ==
    /\ lpc[s] = "dial"
    /\ LaunchTo(s, "flip")
    /\ UNCHANGED <<journal, host, up, memory, lkind, lslot,
                   killVars, callVars, sweepVars>>

\* Mutant of LaunchDialFailed: the cold boot starts over the binding of the
\* restored VMM, which nobody put down.
FallsBackAtOnce(s) ==
    /\ lpc[s] = "dial" /\ "dial" \in Faults
    /\ lkind' = [lkind EXCEPT ![s] = "cold"]
    /\ LaunchTo(s, IF lkind[s] = "restore" THEN "spawn" ELSE "park")
    /\ UNCHANGED <<journal, host, up, memory, lslot, killVars, callVars, sweepVars>>

\* It does not, and kill + dispose put the VMM down.
LaunchDialFailed(s) ==
    /\ lpc[s] = "dial" /\ "dial" \in Faults
    /\ Reclaimed({s})
    /\ LaunchTo(s, AfterPutDown(s))
    /\ UNCHANGED <<phase, tapSlot, exposedPorts, tap, pfTable, up, memory,
                   lkind, lslot, killVars, callVars, sweepVars>>

\* Nor can the VMM be put down.  #putRestoredVmmDown reports it; the cold
\* path swallows both failures and parks with the dial error.
LaunchDialStuck(s) ==
    /\ lpc[s] = "dial" /\ {"dial", "stop"} \subseteq Faults
    /\ LaunchTo(s, IF lkind[s] = "restore" THEN "parkDirty" ELSE "park")
    /\ UNCHANGED <<journal, host, up, memory, lkind, lslot,
                   killVars, callVars, sweepVars>>

\* #fallbackToCold clears the binding the dead restore left.
LaunchFallback(s) ==
    /\ lpc[s] = "unbind"
    /\ machine' = [machine EXCEPT ![s] = IF WriterOwns(s) THEN "unbound" ELSE @]
    /\ lkind' = [lkind EXCEPT ![s] = "cold"]
    /\ LaunchTo(s, IF WriterOwns(s) THEN "bind" ELSE "idle")
    /\ UNCHANGED <<phase, tapSlot, exposedPorts, host, up, memory, lslot,
                   killVars, callVars, sweepVars>>

LaunchFlip(s) ==
    /\ lpc[s] = "flip"
    /\ Move(s, {"booting"}, "ready")
    /\ LaunchTo(s, AfterMove(s, {"booting"}, "track"))
    /\ UNCHANGED <<machine, tapSlot, exposedPorts, host, up, memory, lkind, lslot,
                   killVars, callVars, sweepVars>>

\* #track, after the ready write returned; an exited VMM is observed at once.
LaunchTrack(s) ==
    /\ lpc[s] = "track"
    /\ machines' = machines \cup {s}
    /\ exits' = IF vmm[s] = {} THEN exits \cup {s} ELSE exits
    /\ lkind' = [lkind EXCEPT ![s] = "cold"]
    /\ LaunchTo(s, "idle")
    /\ UNCHANGED <<journal, host, up, used, bridges, lslot,
                   killVars, callVars, sweepVars>>

\* #parkFailedLaunch runs the reclaim hooks, then writes a terminal phase.
ParkHooks(s) ==
    /\ lpc[s] \in {"park", "parkDirty"}
    /\ ReclaimTap(s)
    /\ LaunchTo(s, IF lpc[s] = "park" THEN "terminate" ELSE "quarantine")
    /\ UNCHANGED <<journal, vmm, pfTable, up, machines, exits, bridges,
                   lkind, lslot, killVars, callVars, sweepVars>>

ParkHooksFail(s) ==
    /\ lpc[s] \in {"park", "parkDirty"}
    /\ "hook" \in Faults /\ tapSlot[s] # None
    /\ LaunchTo(s, "quarantine")
    /\ UNCHANGED <<journal, host, up, memory, lkind, lslot,
                   killVars, callVars, sweepVars>>

ParkWrite(s) ==
    /\ lpc[s] \in {"terminate", "quarantine"}
    /\ phase' = [phase EXCEPT ![s] =
                    IF ~WriterOwns(s) THEN @
                    ELSE IF lpc[s] = "terminate" THEN "terminated" ELSE "quarantined"]
    /\ lkind' = [lkind EXCEPT ![s] = "cold"]
    /\ LaunchTo(s, "idle")
    /\ UNCHANGED <<machine, tapSlot, exposedPorts, host, up, memory, lslot,
                   killVars, callVars, sweepVars>>

-----------------------------------------------------------------------------
(* kill() and shutdown(): #terminate.                                      *)

KillTo(k, pc) == kpc' = [kpc EXCEPT ![k] = pc]
KillDone(k) == KillTo(k, "idle") /\ ktgt' = [ktgt EXCEPT ![k] = None]

\* #terminateInflight's checks; every refused call changes nothing.
Kill(k, s) ==
    /\ Accepting
    /\ kpc[k] = "idle"
    /\ Bound(s) /\ phase[s] \notin Terminal /\ s \in machines
    /\ KillTo(k, "mark")
    /\ ktgt' = [ktgt EXCEPT ![k] = s]
    /\ UNCHANGED <<journal, host, up, memory, launchVars, callVars, sweepVars>>

\* A second kill may join a record that is already terminating.
KillMark(k) ==
    /\ kpc[k] = "mark"
    /\ LET s == ktgt[k]
           from == {"booting", "ready", "terminating"}
       IN  /\ Move(s, from, "terminating")
           /\ IF CanMove(s, from) THEN KillTo(k, "stop") /\ UNCHANGED ktgt
              ELSE KillDone(k)
    /\ UNCHANGED <<machine, tapSlot, exposedPorts, host, up, memory,
                   launchVars, callVars, sweepVars>>

\* machine.kill / shutdown and the disposal that drops the JailRecord.
KillStop(k) ==
    /\ kpc[k] = "stop"
    /\ Reclaimed({ktgt[k]})
    /\ exits' = exits \cup ({ktgt[k]} \cap machines)
    /\ KillTo(k, IF tapSlot[ktgt[k]] = None THEN "finish" ELSE "hookPf")
    /\ UNCHANGED <<phase, tapSlot, exposedPorts, tap, pfTable, up, used,
                   machines, bridges, launchVars, ktgt, callVars, sweepVars>>

KillStopFails(k) ==
    /\ kpc[k] = "stop" /\ "stop" \in Faults
    /\ KillTo(k, "quarantine")
    /\ UNCHANGED <<journal, host, up, memory, launchVars, ktgt, callVars, sweepVars>>

\* #runReclaimHooks: the network hook, keyed on the journaled record alone.
KillHookPf(k) ==
    /\ kpc[k] = "hookPf"
    /\ ReclaimForwards(ktgt[k])
    /\ KillTo(k, "hookTap")
    /\ UNCHANGED <<journal, vmm, tap, up, memory, launchVars, ktgt, callVars,
                   sweepVars>>

KillHookTap(k) ==
    /\ kpc[k] = "hookTap"
    /\ ReclaimTap(ktgt[k])
    /\ KillTo(k, "finish")
    /\ UNCHANGED <<journal, vmm, pfTable, up, machines, exits, bridges,
                   launchVars, ktgt, callVars, sweepVars>>

\* Mutant of KillHookFails: the error ends the call before it quarantines.
HookErrorEscapes(k) ==
    /\ kpc[k] \in {"hookPf", "hookTap"} /\ "hook" \in Faults
    /\ KillDone(k)
    /\ UNCHANGED <<journal, host, up, memory, launchVars, callVars, sweepVars>>

KillHookFails(k) ==
    /\ kpc[k] \in {"hookPf", "hookTap"} /\ "hook" \in Faults
    /\ KillTo(k, "quarantine")
    /\ UNCHANGED <<journal, host, up, memory, launchVars, ktgt, callVars, sweepVars>>

\* #quarantine with an owner: a record some other writer converged stays.
KillQuarantine(k) ==
    /\ kpc[k] = "quarantine"
    /\ phase' = [phase EXCEPT ![ktgt[k]] =
                    IF WriterOwns(ktgt[k]) THEN "quarantined" ELSE @]
    /\ KillDone(k)
    /\ UNCHANGED <<machine, tapSlot, exposedPorts, host, up, memory,
                   launchVars, callVars, sweepVars>>

\* The terminated write; a stale completion throws before it drops the maps.
KillFinish(k) ==
    /\ kpc[k] = "finish"
    /\ LET s == ktgt[k]
       IN  IF WriterOwns(s)
           THEN /\ phase' = [phase EXCEPT ![s] = "terminated"]
                /\ KillTo(k, "untrack") /\ UNCHANGED ktgt
           ELSE KillDone(k) /\ UNCHANGED phase
    /\ UNCHANGED <<machine, tapSlot, exposedPorts, host, up, memory,
                   launchVars, callVars, sweepVars>>

KillUntrack(k) ==
    /\ kpc[k] = "untrack"
    /\ machines' = machines \ {ktgt[k]}
    /\ exits' = exits \ {ktgt[k]}
    /\ bridges' = bridges \ {ktgt[k]}
    /\ KillDone(k)
    /\ UNCHANGED <<journal, host, up, used, launchVars, callVars, sweepVars>>

-----------------------------------------------------------------------------
(* exposeHttp() and openBridge(): refused while a sweep runs, but not part *)
(* of #inflight.                                                           *)

CallTo(x, pc) == xpc' = [xpc EXCEPT ![x] = pc]
CallDone(x) == /\ CallTo(x, "idle")
               /\ xtgt' = [xtgt EXCEPT ![x] = None]
               /\ xport' = [xport EXCEPT ![x] = None]
               /\ xfwd' = [xfwd EXCEPT ![x] = {}]

Expose(x, s, p) ==
    /\ Accepting
    /\ xpc[x] = "idle"
    /\ CallTo(x, "queued")
    /\ xtgt' = [xtgt EXCEPT ![x] = s]
    /\ xport' = [xport EXCEPT ![x] = p]
    /\ UNCHANGED <<journal, host, up, memory, launchVars, killVars, xfwd, sweepVars>>

\* Mutant of ExposeLockFree: no per-execution lock.
NoExposeLock(x) == TRUE

\* #withExposeLock: the section of another call on this execution has settled.
ExposeLockFree(x) ==
    \A y \in Callers : xtgt[y] = xtgt[x] =>
                           xpc[y] \notin {"install", "journal", "undo"}

\* #doExposeHttp reads the record and plans the complete forward table.
ExposeRead(x) ==
    /\ xpc[x] = "queued"
    /\ ExposeLockFree(x)
    /\ LET s == xtgt[x]
       IN  IF phase[s] = "ready" /\ Bound(s) /\ Live(s) /\ tapSlot[s] # None
           THEN /\ xfwd' = [xfwd EXCEPT ![x] = exposedPorts[s] \cup {xport[x]}]
                /\ CallTo(x, "install")
                /\ UNCHANGED <<xtgt, xport>>
           ELSE CallDone(x)
    /\ UNCHANGED <<journal, host, up, memory, launchVars, killVars, sweepVars>>

\* portForward.expose replaces the whole sbx_pf table.
ExposeInstall(x) ==
    /\ xpc[x] = "install"
    /\ pfTable' = [pfTable EXCEPT ![xtgt[x]] = xfwd[x]]
    /\ xfwd' = [xfwd EXCEPT ![x] = {}]
    /\ CallTo(x, "journal")
    /\ UNCHANGED <<journal, vmm, tap, up, memory, launchVars, killVars,
                   xtgt, xport, sweepVars>>

ExposeInstallFails(x) ==
    /\ xpc[x] = "install" /\ "forward" \in Faults
    /\ CallDone(x)
    /\ UNCHANGED <<journal, host, up, memory, launchVars, killVars, sweepVars>>

ExposeJournal(x) ==
    /\ xpc[x] = "journal"
    /\ LET s == xtgt[x]
       IN  IF WriterOwns(s)
           THEN /\ exposedPorts' = [exposedPorts EXCEPT ![s] = @ \cup {xport[x]}]
                /\ CallDone(x)
           ELSE /\ CallTo(x, "undo")
                /\ UNCHANGED <<exposedPorts, xtgt, xport, xfwd>>
    /\ UNCHANGED <<phase, machine, tapSlot, host, up, memory, launchVars,
                   killVars, sweepVars>>

\* The journal refused: drop the table, swallowing a failure to do so.
ExposeUndo(x) ==
    /\ xpc[x] = "undo"
    /\ \/ ReclaimForwards(xtgt[x])
       \/ "forward" \in Faults /\ UNCHANGED pfTable
    /\ CallDone(x)
    /\ UNCHANGED <<journal, vmm, tap, up, memory, launchVars, killVars, sweepVars>>

\* openBridge reads the record, waits for it, and decides with memory only.
OpenBridge(x, s) ==
    /\ Accepting
    /\ xpc[x] = "idle"
    /\ phase[s] = "ready" /\ Bound(s)
    /\ CallTo(x, "bridge")
    /\ xtgt' = [xtgt EXCEPT ![x] = s]
    /\ UNCHANGED <<journal, host, up, memory, launchVars, killVars, xport, xfwd,
                   sweepVars>>

\* Mutant of GrantBridge: the machine is not looked up again after the read.
GrantUnchecked(x) ==
    /\ xpc[x] = "bridge"
    /\ bridges' = bridges \cup {xtgt[x]}
    /\ CallDone(x)
    /\ UNCHANGED <<journal, host, up, used, machines, exits, launchVars, killVars,
                   sweepVars>>

GrantBridge(x) ==
    /\ xpc[x] = "bridge"
    /\ bridges' = IF Live(xtgt[x]) THEN bridges \cup {xtgt[x]} ELSE bridges
    /\ CallDone(x)
    /\ UNCHANGED <<journal, host, up, used, machines, exits, launchVars, killVars,
                   sweepVars>>

\* #purgeExpiredBridges.
ExpireBridge(s) ==
    /\ s \in bridges
    /\ bridges' = bridges \ {s}
    /\ UNCHANGED <<journal, host, up, used, machines, exits, launchVars, killVars,
                   callVars, sweepVars>>

-----------------------------------------------------------------------------
(* reconcile(): the destructive sweep.                                     *)

OpenRecords == {s \in Sandboxes : phase[s] \notin Terminal \cup {"none"}}

\* Refused while a launch or a terminate is in flight.
Reconcile ==
    /\ Accepting /\ ~Inflight
    /\ OpenRecords # {}
    /\ rpc' = "mark"
    /\ ropen' = OpenRecords
    /\ UNCHANGED <<journal, host, up, memory, launchVars, killVars, callVars,
                   rfail, rcur>>

\* The sweep's early return: nothing open, nothing swept.
ReconcileNothing ==
    /\ Accepting /\ ~Inflight
    /\ OpenRecords = {}
    /\ UNCHANGED vars

ReconcileMark(s) ==
    /\ rpc = "mark"
    /\ s \in ropen /\ phase[s] # "reconciling"
    /\ phase' = [phase EXCEPT ![s] = "reconciling"]
    /\ UNCHANGED <<machine, tapSlot, exposedPorts, host, up, memory, launchVars,
                   killVars, callVars, sweepVars>>

\* The package sweep over every JailRecord in the journal, whatever the phase
\* of its sandbox; failed is the set it could not reclaim.
PackageSweep(failed) ==
    LET killed == {s \in Sandboxes : machine[s] = "jailed"} \ failed
    IN  /\ Reclaimed(killed)
        /\ exits' = exits \cup (killed \cap machines)

SweepFailures ==
    {F \in SUBSET {s \in Sandboxes : machine[s] = "jailed"} :
        F # {} => "sweep" \in Faults}

ReconcilePackage ==
    /\ rpc = "mark"
    /\ \A s \in ropen : phase[s] = "reconciling"
    /\ \E F \in SweepFailures : PackageSweep(F) /\ rfail' = F
    /\ rpc' = "records"
    /\ UNCHANGED <<phase, tapSlot, exposedPorts, tap, pfTable, up, used, machines,
                   bridges, launchVars, killVars, callVars, ropen, rcur>>

\* The package call itself throws: reconcile() ends with the marks in place.
ReconcileThrows ==
    /\ rpc = "mark" /\ "sweep" \in Faults
    /\ \A s \in ropen : phase[s] = "reconciling"
    /\ \E F \in SweepFailures : PackageSweep(F)
    /\ rpc' = "idle" /\ ropen' = {}
    /\ UNCHANGED <<phase, tapSlot, exposedPorts, tap, pfTable, up, used, machines,
                   bridges, launchVars, killVars, callVars, rfail, rcur>>

\* Mutant of ReconcilePick: the package's failed list is not consulted.
PickIgnoringFailures(s) ==
    /\ rpc = "records" /\ s \in ropen
    /\ rcur' = s
    /\ rpc' = IF tapSlot[s] = None THEN "terminate" ELSE "hookPf"
    /\ UNCHANGED <<journal, host, up, memory, launchVars, killVars, callVars,
                   ropen, rfail>>

ReconcilePick(s) ==
    /\ rpc = "records" /\ s \in ropen
    /\ rcur' = s
    /\ rpc' = IF s \in rfail THEN "quarantine"
              ELSE IF tapSlot[s] = None THEN "terminate" ELSE "hookPf"
    /\ UNCHANGED <<journal, host, up, memory, launchVars, killVars, callVars,
                   ropen, rfail>>

ReconcileHookPf ==
    /\ rpc = "hookPf"
    /\ ReclaimForwards(rcur)
    /\ rpc' = "hookTap"
    /\ UNCHANGED <<journal, vmm, tap, up, memory, launchVars, killVars, callVars,
                   ropen, rfail, rcur>>

ReconcileHookTap ==
    /\ rpc = "hookTap"
    /\ ReclaimTap(rcur)
    /\ rpc' = "terminate"
    /\ UNCHANGED <<journal, vmm, pfTable, up, machines, exits, bridges, launchVars,
                   killVars, callVars, ropen, rfail, rcur>>

ReconcileHookFails ==
    /\ rpc \in {"hookPf", "hookTap"} /\ "hook" \in Faults
    /\ rpc' = "quarantine"
    /\ UNCHANGED <<journal, host, up, memory, launchVars, killVars, callVars,
                   ropen, rfail, rcur>>

\* The sweep's writes are blind: no ownership guard.
ReconcileWrite ==
    /\ rpc \in {"terminate", "quarantine"}
    /\ phase' = [phase EXCEPT ![rcur] =
                    IF rpc = "terminate" THEN "terminated" ELSE "quarantined"]
    /\ rpc' = "records"
    /\ ropen' = ropen \ {rcur}
    /\ rcur' = None
    /\ UNCHANGED <<machine, tapSlot, exposedPorts, host, up, memory, launchVars,
                   killVars, callVars, rfail>>

ReconcileEnd ==
    /\ rpc = "records" /\ ropen = {}
    /\ machines' = {} /\ exits' = {} /\ bridges' = {}
    /\ rpc' = "idle" /\ rfail' = {}
    /\ UNCHANGED <<journal, host, up, used, launchVars, killVars, callVars,
                   ropen, rcur>>

-----------------------------------------------------------------------------
LaunchStep(s) ==
    \/ LaunchStage(s) \/ ResolveNetless(s) \/ ResolveAllocate(s)
    \/ ResolveRefused(s) \/ ResolveProvision(s) \/ ResolveUnwind(s)
    \/ LaunchCommit(s) \/ LaunchBind(s) \/ LaunchSpawn(s) \/ LaunchBooted(s)
    \/ LaunchBootFailed(s) \/ LaunchBootStuck(s) \/ LaunchDialed(s)
    \/ LaunchDialFailed(s) \/ LaunchDialStuck(s) \/ LaunchFallback(s)
    \/ LaunchFlip(s) \/ LaunchTrack(s) \/ ParkHooks(s) \/ ParkHooksFail(s)
    \/ ParkWrite(s)

KillStep(k) ==
    \/ KillMark(k) \/ KillStop(k) \/ KillStopFails(k) \/ KillHookPf(k)
    \/ KillHookTap(k) \/ KillHookFails(k) \/ KillQuarantine(k) \/ KillFinish(k)
    \/ KillUntrack(k)

CallStep(x) ==
    \/ ExposeRead(x) \/ ExposeInstall(x) \/ ExposeInstallFails(x)
    \/ ExposeJournal(x) \/ ExposeUndo(x) \/ GrantBridge(x)

SweepStep ==
    \/ \E s \in Sandboxes : ReconcileMark(s) \/ ReconcilePick(s)
    \/ ReconcilePackage \/ ReconcileThrows \/ ReconcileHookPf \/ ReconcileHookTap
    \/ ReconcileHookFails \/ ReconcileWrite \/ ReconcileEnd

Next ==
    \/ StartReserve \/ StartSweep \/ Crash
    \/ \E s \in Sandboxes : VmmExit(s) \/ Launch(s) \/ LaunchStep(s) \/ ExpireBridge(s)
    \/ \E k \in Killers : KillStep(k) \/ \E s \in Sandboxes : Kill(k, s)
    \/ \E x \in Callers : \/ CallStep(x)
                          \/ \E s \in Sandboxes : OpenBridge(x, s)
                          \/ \E s \in Sandboxes, p \in Ports : Expose(x, s, p)
    \/ Reconcile \/ ReconcileNothing \/ SweepStep

Spec == Init /\ [][Next]_vars

\* An operation that has begun is run on by the event loop, and a stopped
\* rootd is started again by its unit (Restart=on-failure).  Nothing obliges
\* a client to call.
Fairness ==
    /\ WF_vars(StartReserve) /\ WF_vars(StartSweep)
    /\ \A s \in Sandboxes : WF_vars(LaunchStep(s))
    /\ \A k \in Killers : WF_vars(KillStep(k))
    /\ \A x \in Callers : WF_vars(CallStep(x))
    /\ WF_vars(SweepStep)

FairSpec == Spec /\ Fairness

-----------------------------------------------------------------------------
(* Safety.                                                                 *)

\* Journal before spawn, reclaim before forget: as long as a VMM process of a
\* sandbox is alive, the journal holds the JailRecord a sweep finds it by.
\* No step of a failed restore, a fallback, a kill, a sweep or a crash may
\* lose it.
VmmJournaled ==
    \A s \in Sandboxes : vmm[s] # {} => machine[s] = "jailed"

\* A failed restore that falls back to a cold boot never boots beside the
\* restored VMM: a sandbox has at most one live VMM.
SingleVmm ==
    \A s \in Sandboxes : \A a, b \in vmm[s] : a = b

\* So the journal accounts for every VMM process there is, one to a record,
\* through every failure and crash (supervisor_core.ts, adapter.ts).
VmmAccounted == VmmJournaled /\ SingleVmm

\* A terminal record was reclaimed: terminated means no VMM is left; only
\* quarantined may keep one.
TerminatedHasNoVmm ==
    \A s \in Sandboxes : phase[s] = "terminated" => vmm[s] = {}

\* "reuse-after-reclaim finds a clean sbxtap": a slot the allocator may hand
\* out carries no TAP of an earlier sandbox.
CleanSlotReuse ==
    up = "serving" => \A n \in Slots : tap[n] # None => n \in used

\* A ready sandbox that journaled a slot still has its own dataplane on it:
\* nobody else's teardown or provisioning took it away.
ReadyHasNetwork ==
    \A s \in Sandboxes :
        phase[s] = "ready" /\ tapSlot[s] # None => tap[tapSlot[s]] = s

\* "a slot is handed to exactly one live execution": two ready sandboxes never
\* stand on one subnet.  Does not hold when two terminates of one sandbox reach
\* the network hook one after the other.
SlotExclusive ==
    \A s, t \in Sandboxes :
        /\ s # t
        /\ phase[s] = "ready" /\ phase[t] = "ready"
        /\ tapSlot[s] # None
        => tapSlot[s] # tapSlot[t]

\* No bridge grant outlives the machine it leads to: a grant decided on a
\* record read before a terminate or a sweep is revoked with the machine.
BridgesHaveMachine == bridges \subseteq machines

\* Two exposeHttp calls on one sandbox never lose a forward: once no call is
\* between its install and its journal write, the table of a ready sandbox of
\* this process holds exactly the forwards the journal records.
ForwardsMatchJournal ==
    \A s \in machines :
        /\ phase[s] = "ready"
        /\ \A x \in Callers : xtgt[x] = s => xpc[x] # "journal"
        => pfTable[s] = exposedPorts[s]

\* A terminated sandbox leaves no DNAT rule behind once no exposeHttp call is
\* still running on it.  Does not hold when the call installs its table after
\* the terminate's port-forward hook.
NoStrandedForward ==
    \A s \in Sandboxes :
        /\ phase[s] = "terminated"
        /\ \A x \in Callers : xtgt[x] = s => xpc[x] \in {"idle", "queued", "bridge"}
        => pfTable[s] = {}

(* The life cycle, as an abstract specification.                           *)

\* What a phase of the record tells its readers.
LifeOf(p) ==
    CASE p = "none" -> "absent"
      [] p \in {"allocating", "staging", "booting"} -> "launching"
      [] p = "terminating" -> "stopping"
      [] p = "reconciling" -> "sweeping"
      [] OTHER -> p

Life == INSTANCE SandboxLife WITH
            Leaky <- {"dial", "stop"} \subseteq Faults,
            life  <- [s \in Sandboxes |-> LifeOf(phase[s])],
            jail  <- machine,
            alive <- {s \in Sandboxes : vmm[s] # {}}

\* Whatever launches, kills, sweeps, failures and crashes interleave, each
\* sandbox lives as SandboxLife says: a VMM boots only for a launch, after the
\* journal has its JailRecord, and never beside another; the JailRecord goes
\* after the VMM; a stop or a sweep decides once, no later writer moves the
\* record, and terminated is only written with the VMM down (supervisor_core.ts
\* #launch, #terminateInflight, #reconcileSweep, #assertWriterOwns).
LivesAsPromised == Life!Spec

\* A cold launch whose dial fails and whose VMM cannot be put down is parked as
\* terminated all the same (#bootColdPlan swallows both failures), so the two
\* faults are excluded together where terminated must mean down.
NoStuckDial == ~({"dial", "stop"} \subseteq Faults)

\* A reconcile() that returns has left no record open, whichever phase a crash
\* or a failure had left it in, and no VMM alive but those its package sweep
\* could not reclaim, which a quarantined record keeps on the books.
SweepSettled ==
    ReconcileEnd =>
        /\ OpenRecords = {}
        /\ \A s \in Sandboxes : vmm[s] # {} =>
               s \in rfail /\ (NoStuckDial => phase[s] = "quarantined")

\* However exposes, bridge grants, exits and hook failures interleave with it
\* (supervisor_core.ts #reconcileSweep).
SweepsSettle == [][SweepSettled]_vars

\* A sweep or a terminate decides a record once: no later writer, stale or
\* not, moves a record out of terminated or quarantined.
KeepsTerminal ==
    \A s \in Sandboxes : phase[s] \in Terminal => phase'[s] = phase[s]

(* Liveness, under FairSpec.                                               *)

\* A launch, a terminate that took the record, or a sweep is at work on s.
Working(s) ==
    \/ lpc[s] # "idle"
    \/ \E k \in Killers : kpc[k] \notin {"idle", "mark"} /\ ktgt[k] = s
    \/ rcur = s

\* Whatever fails on the way, an operation leaves its record settled: launches
\* end ready or parked, terminates and sweeps end terminal, unless rootd itself
\* goes down first.
OperationsSettle ==
    \A s \in Sandboxes :
        Working(s) ~> \/ ~Working(s) /\ phase[s] \in Terminal \cup {"ready"}
                      \/ up # "serving"

\* "the journal converges on the next start's sweep instead" (rootd/main.ts): a
\* record that a restarted rootd finds in a transient phase ends terminal, unless
\* rootd goes down again.  No start of rootd or hostd calls reconcile.
NextStartConverges ==
    \A s \in Sandboxes :
        up = "starting" /\ phase[s] \notin Terminal \cup {"none"}
            ~> phase[s] \in Terminal \/ up = "down"
=============================================================================
