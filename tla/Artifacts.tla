----------------------------- MODULE Artifacts -----------------------------
(***************************************************************************)
(* Who keeps an image alive: the artifact cache (refcounts, gc), the warm  *)
(* template store (pins, publish), the launch planner that acquires both,  *)
(* and the reclaim hooks that release them from the journaled record.      *)
(*                                                                         *)
(* Module Supervisor has the machines and the network of the same          *)
(* lifecycle; here a launch is what it does to references, overlay files   *)
(* and the record fields the hooks read.  The cache and the template store *)
(* each serialise their writers with a promise-chain mutex; reads do not   *)
(* take it.  A template is keyed by the hash of its artifact set.          *)
(***************************************************************************)
EXTENDS Integers, FiniteSets

CONSTANTS Sets,      \* manifest hashes
          Execs,     \* launches: a sandbox id with its execution id
          Killers,   \* concurrent kill / shutdown calls
          Faults,
          None

ArtifactFaults == {"plan", "journal", "boot", "stop", "hook", "corrupt",
                   "crash"}

ASSUME ArtifactFaultsAssumption == Faults \subseteq ArtifactFaults
ASSUME ArtifactNone == /\ None \notin Sets \cup Execs
                       /\ \A S \in (SUBSET Sets) \cup (SUBSET Execs) : None # S

Sweep == "sweep"                    \* the reconcile sweep, as a hook runner
Runners == Execs \cup Killers \cup {Sweep}

ASSUME ArtifactRunners == Execs \cap Killers = {} /\ Sweep \notin Execs \cup Killers

VARIABLES
    \* The journal.
    phase, ref, pinned, bound,
    \* The disk.
    present, count,     \* cached sets and their refcount files
    tmpl, pins,         \* absent | valid | invalid, and its refcount file
    overlay,            \* executions whose overlay file exists
    \* rootd's memory.
    lpc, lset, lrestore,
    templatePins, machines,
    rpc, rexec,         \* who runs reclaim hooks, and for which execution
    todo,               \* records the sweep still has to visit, or None
    gc, gcRefs,         \* sets the running gc still has to visit, or None
    publishing,         \* set whose template is between two renames, or None
    untracked           \* history: a crash or a lost journal write happened

journal  == <<phase, ref, pinned, bound>>
cache    == <<present, count>>
store    == <<tmpl, pins>>
launches == <<lpc, lset, lrestore>>
runs     == <<rpc, rexec>>
gcVars   == <<gc, gcRefs>>
vars == <<journal, cache, store, overlay, launches, templatePins, machines,
          runs, todo, gcVars, publishing, untracked>>

Terminal == {"terminated", "quarantined"}
Phases == Terminal \cup {"none", "staging", "booting", "ready", "terminating",
                         "reconciling"}
LaunchPcs == {"idle", "acquire", "overlay", "provision", "validate", "resolve",
              "pin", "commit", "bind", "boot", "undo", "park"}
RunPcs == {"idle", "stop", "network", "artifact", "release", "template",
           "unpin", "terminate", "quarantine"}

\* Every variable holds a value of its declared kind, and a launch past the
\* cache lookup or a reclaim run knows its set or its execution.
TypeOK ==
    /\ phase \in [Execs -> Phases]
    /\ ref \in [Execs -> Sets \cup {None}]
    /\ pinned \subseteq Execs /\ bound \subseteq Execs
    /\ present \subseteq Sets
    /\ count \in [Sets -> Nat] /\ pins \in [Sets -> Nat]
    /\ tmpl \in [Sets -> {"absent", "valid", "invalid"}]
    /\ overlay \subseteq Execs
    /\ lpc \in [Execs -> LaunchPcs]
    /\ lset \in [Execs -> Sets \cup {None}]
    /\ lrestore \subseteq Execs
    /\ templatePins \subseteq Execs /\ machines \subseteq Execs
    /\ rpc \in [Runners -> RunPcs]
    /\ rexec \in [Runners -> Execs \cup {None}]
    /\ todo \in (SUBSET Execs) \cup {None}
    /\ gc \in (SUBSET Sets) \cup {None} /\ gcRefs \subseteq Sets
    /\ publishing \in Sets \cup {None}
    /\ untracked \in BOOLEAN
    /\ \A e \in Execs : lpc[e] \notin {"idle", "park"} => lset[e] \in Sets
    /\ \A a \in Runners : rpc[a] # "idle" => rexec[a] \in Execs

Init ==
    /\ phase = [e \in Execs |-> "none"]
    /\ ref = [e \in Execs |-> None]
    /\ pinned = {} /\ bound = {}
    /\ present = Sets
    /\ count = [h \in Sets |-> 0]
    /\ tmpl = [h \in Sets |-> "absent"]
    /\ pins = [h \in Sets |-> 0]
    /\ overlay = {}
    /\ lpc = [e \in Execs |-> "idle"]
    /\ lset = [e \in Execs |-> None]
    /\ lrestore = {} /\ templatePins = {} /\ machines = {}
    /\ rpc = [a \in Runners |-> "idle"]
    /\ rexec = [a \in Runners |-> None]
    /\ todo = None
    /\ gc = None /\ gcRefs = {}
    /\ publishing = None
    /\ untracked = FALSE

-----------------------------------------------------------------------------
(* The two mutexes, and the refcount files behind them.                    *)

CacheFree == gc = None
StoreFree == publishing = None

Serving == todo = None

\* acquire and release of the cache; a release at zero, or of a set that is
\* gone, throws and every caller swallows it.
Acquired(h) == count' = [count EXCEPT ![h] = @ + 1]
Released(h) ==
    count' = IF h \in present /\ count[h] > 0
             THEN [count EXCEPT ![h] = @ - 1] ELSE count

Unpinned(h) ==
    pins' = IF tmpl[h] # "absent" /\ pins[h] > 0
            THEN [pins EXCEPT ![h] = @ - 1] ELSE pins

LaunchTo(e, pc) == lpc' = [lpc EXCEPT ![e] = pc]
RunTo(a, pc) == rpc' = [rpc EXCEPT ![a] = pc]
RunDone(a) ==
    /\ RunTo(a, "idle")
    /\ rexec' = [rexec EXCEPT ![a] = None]

-----------------------------------------------------------------------------
(* A launch: planner.resolve, then the commit and the boot.                *)

\* store.create, staging, #resolveHash and cache.has.
Launch(e, h) ==
    /\ Serving /\ phase[e] = "none"
    /\ phase' = [phase EXCEPT ![e] = "staging"]
    /\ lset' = [lset EXCEPT ![e] = h]
    /\ LaunchTo(e, IF h \in present THEN "acquire" ELSE "park")
    /\ UNCHANGED <<ref, pinned, bound, cache, store, overlay, lrestore,
                   templatePins, machines, runs, todo, gcVars, publishing, untracked>>

\* cache.acquire, under the mutex; gc may have been first.
AcquireSet(e) ==
    /\ lpc[e] = "acquire" /\ CacheFree
    /\ IF lset[e] \in present
       THEN Acquired(lset[e]) /\ LaunchTo(e, "overlay")
       ELSE LaunchTo(e, "park") /\ UNCHANGED count
    /\ UNCHANGED <<journal, present, store, overlay, lset, lrestore,
                   templatePins, machines, runs, todo, gcVars, publishing, untracked>>

CreateOverlay(e) ==
    /\ lpc[e] = "overlay"
    /\ overlay' = overlay \cup {e}
    /\ LaunchTo(e, "provision")
    /\ UNCHANGED <<journal, cache, store, lset, lrestore, templatePins,
                   machines, runs, todo, gcVars, publishing, untracked>>

\* The credential and the dataplane; snapshot restore is a configuration, so
\* whether the template is looked at is free.
Provision(e) ==
    /\ lpc[e] = "provision"
    /\ \E pc \in {"validate", "commit"} : LaunchTo(e, pc)
    /\ UNCHANGED <<journal, cache, store, overlay, lset, lrestore, templatePins,
                   machines, runs, todo, gcVars, publishing, untracked>>

\* A throw inside resolve's try block, before or after the overlay exists.
PlanFails(e) ==
    /\ "plan" \in Faults
    /\ lpc[e] \in {"overlay", "provision"}
    /\ LaunchTo(e, "undo")
    /\ UNCHANGED <<journal, cache, store, overlay, lset, lrestore, templatePins,
                   machines, runs, todo, gcVars, publishing, untracked>>

\* #shouldRestore.
Validate(e) ==
    /\ lpc[e] = "validate"
    /\ LaunchTo(e, IF tmpl[lset[e]] = "valid" THEN "resolve" ELSE "commit")
    /\ UNCHANGED <<journal, cache, store, overlay, lset, lrestore, templatePins,
                   machines, runs, todo, gcVars, publishing, untracked>>

\* #resolveRestorePlan: templateStore.resolve, then acquire.  A template that
\* went away in between is a TemplateStoreError: fall back to a cold plan.
ResolveTemplate(e) ==
    /\ lpc[e] = "resolve"
    /\ LaunchTo(e, IF tmpl[lset[e]] = "valid" THEN "pin" ELSE "commit")
    /\ UNCHANGED <<journal, cache, store, overlay, lset, lrestore, templatePins,
                   machines, runs, todo, gcVars, publishing, untracked>>

PinTemplate(e) ==
    /\ lpc[e] = "pin" /\ StoreFree
    /\ LaunchTo(e, "commit")
    /\ IF tmpl[lset[e]] = "absent"
       THEN UNCHANGED <<pins, templatePins, lrestore>>
       ELSE /\ pins' = [pins EXCEPT ![lset[e]] = @ + 1]
            /\ templatePins' = templatePins \cup {e}
            /\ lrestore' = lrestore \cup {e}
    /\ UNCHANGED <<journal, cache, tmpl, overlay, lset, machines, runs, todo,
                   gcVars, publishing, untracked>>

\* Mutant: a failed resolve keeps its reference.
UndoKeepsRef(e) ==
    /\ lpc[e] = "undo" /\ CacheFree
    /\ overlay' = overlay \ {e}
    /\ LaunchTo(e, "park")
    /\ UNCHANGED <<journal, cache, store, lset, lrestore, templatePins,
                   machines, runs, todo, gcVars, publishing, untracked>>

\* resolve's catch: release the set, then the pin and the overlay.
UndoAcquire(e) ==
    /\ lpc[e] = "undo" /\ CacheFree
    /\ Released(lset[e])
    /\ overlay' = overlay \ {e}
    /\ LaunchTo(e, "park")
    /\ UNCHANGED <<journal, present, store, lset, lrestore, templatePins,
                   machines, runs, todo, gcVars, publishing, untracked>>

\* The staging -> booting commit carries the reference and the pin marker.
Commit(e) ==
    /\ lpc[e] = "commit"
    /\ phase' = [phase EXCEPT ![e] = "booting"]
    /\ ref' = [ref EXCEPT ![e] = lset[e]]
    /\ pinned' = IF e \in lrestore THEN pinned \cup {e} ELSE pinned
    /\ LaunchTo(e, "bind")
    /\ UNCHANGED <<bound, cache, store, overlay, lset, lrestore, templatePins,
                   machines, runs, todo, gcVars, publishing, untracked>>

\* The commit, or the jail registry's bind, loses its journal write: nobody
\* undoes the resolve, and the hooks find no reference or no execution id.  A
\* restore that cannot bind falls back to cold.
JournalFails(e) ==
    /\ "journal" \in Faults
    /\ lpc[e] \in {"commit", "bind"}
    /\ IF lpc[e] = "bind" /\ e \in lrestore
       THEN LaunchTo(e, "bind") /\ lrestore' = lrestore \ {e}
       ELSE LaunchTo(e, "park") /\ UNCHANGED lrestore
    /\ untracked' = TRUE
    /\ UNCHANGED <<journal, cache, store, overlay, lset, templatePins,
                   machines, runs, todo, gcVars, publishing>>

\* The adapter journals the execution id before it spawns.
Bind(e) ==
    /\ lpc[e] = "bind"
    /\ bound' = bound \cup {e}
    /\ LaunchTo(e, "boot")
    /\ UNCHANGED <<phase, ref, pinned, cache, store, overlay, lset, lrestore,
                   templatePins, machines, runs, todo, gcVars, publishing, untracked>>

Booted(e) ==
    /\ lpc[e] = "boot"
    /\ phase' = [phase EXCEPT ![e] = "ready"]
    /\ machines' = machines \cup {e}
    /\ LaunchTo(e, "idle")
    /\ lrestore' = lrestore \ {e}
    /\ UNCHANGED <<ref, pinned, bound, cache, store, overlay, lset, templatePins,
                   runs, todo, gcVars, publishing, untracked>>

\* A failed restore falls back to a cold boot on the unbound record, keeping
\* its pin; a failed cold boot is parked.
BootFails(e) ==
    /\ "boot" \in Faults
    /\ lpc[e] = "boot"
    /\ IF e \in lrestore
       THEN /\ bound' = bound \ {e}
            /\ lrestore' = lrestore \ {e}
            /\ LaunchTo(e, "bind")
       ELSE /\ LaunchTo(e, "park")
            /\ UNCHANGED <<bound, lrestore>>
    /\ UNCHANGED <<phase, ref, pinned, cache, store, overlay, lset, templatePins,
                   machines, runs, todo, gcVars, publishing, untracked>>

\* #parkFailedLaunch runs the hooks on behalf of the launch.
Park(e) ==
    /\ lpc[e] = "park"
    /\ LaunchTo(e, "idle")
    /\ lrestore' = lrestore \ {e}
    /\ RunTo(e, "network")
    /\ rexec' = [rexec EXCEPT ![e] = e]
    /\ UNCHANGED <<journal, cache, store, overlay, lset, templatePins, machines,
                   todo, gcVars, publishing, untracked>>

-----------------------------------------------------------------------------
(* kill / shutdown, the reconcile sweep, and the hooks they run.           *)

\* Only a tracked machine can be stopped; a second stop of a terminating
\* record is let in.
Kill(k, e) ==
    /\ Serving /\ rpc[k] = "idle"
    /\ phase[e] \in {"ready", "terminating"} /\ e \in machines
    /\ phase' = [phase EXCEPT ![e] = "terminating"]
    /\ RunTo(k, "stop")
    /\ rexec' = [rexec EXCEPT ![k] = e]
    /\ UNCHANGED <<ref, pinned, bound, cache, store, overlay, launches,
                   templatePins, machines, todo, gcVars, publishing, untracked>>

\* machine.kill / dispose, or the sweep's package result for the record.
Stopped(a) ==
    /\ rpc[a] = "stop"
    /\ \/ RunTo(a, "network")
       \/ "stop" \in Faults /\ RunTo(a, "quarantine")
    /\ UNCHANGED <<journal, cache, store, overlay, launches, templatePins,
                   machines, rexec, todo, gcVars, publishing, untracked>>

\* The network hook is first; if it throws, the later hooks do not run.
NetworkHook(a) ==
    /\ rpc[a] = "network"
    /\ \/ RunTo(a, "artifact")
       \/ "hook" \in Faults /\ RunTo(a, "quarantine")
    /\ UNCHANGED <<journal, cache, store, overlay, launches, templatePins,
                   machines, rexec, todo, gcVars, publishing, untracked>>

\* Mutant: the overlay file is left behind.
LeavesOverlay(a) ==
    LET e == rexec[a] IN
    /\ rpc[a] = "artifact"
    /\ RunTo(a, IF ref[e] \in present /\ count[ref[e]] > 0
                THEN "release" ELSE "template")
    /\ UNCHANGED <<journal, cache, store, overlay, launches, templatePins,
                   machines, rexec, todo, gcVars, publishing, untracked>>

\* ArtifactReclaimHook: remove the overlay of a bound record, then look at
\* the refcount without the mutex.
ArtifactHook(a) ==
    LET e == rexec[a] IN
    /\ rpc[a] = "artifact"
    /\ overlay' = IF e \in bound THEN overlay \ {e} ELSE overlay
    /\ RunTo(a, IF ref[e] \in present /\ count[ref[e]] > 0
                THEN "release" ELSE "template")
    /\ UNCHANGED <<journal, cache, store, launches, templatePins, machines,
                   rexec, todo, gcVars, publishing, untracked>>

ReleaseHook(a) ==
    /\ rpc[a] = "release" /\ CacheFree
    /\ Released(ref[rexec[a]])
    /\ RunTo(a, "template")
    /\ UNCHANGED <<journal, present, store, overlay, launches, templatePins,
                   machines, rexec, todo, gcVars, publishing, untracked>>

\* templateReclaimHook: the record's marker decides, not templatePins.
TemplateHook(a) ==
    LET e == rexec[a] IN
    /\ rpc[a] = "template"
    /\ IF e \in pinned
       THEN /\ templatePins' = IF e \in bound THEN templatePins \ {e} ELSE templatePins
            /\ RunTo(a, IF tmpl[ref[e]] # "absent" /\ pins[ref[e]] > 0
                        THEN "unpin" ELSE "terminate")
       ELSE RunTo(a, "terminate") /\ UNCHANGED templatePins
    /\ UNCHANGED <<journal, cache, store, overlay, launches, machines, rexec,
                   todo, gcVars, publishing, untracked>>

UnpinHook(a) ==
    /\ rpc[a] = "unpin" /\ StoreFree
    /\ Unpinned(ref[rexec[a]])
    /\ RunTo(a, "terminate")
    /\ UNCHANGED <<journal, cache, tmpl, overlay, launches, templatePins,
                   machines, rexec, todo, gcVars, publishing, untracked>>

\* The final write.  An owner's write is refused once the record is
\* converged; the sweep's is blind.
Finish(a) ==
    LET e == rexec[a] IN
    /\ rpc[a] \in {"terminate", "quarantine"}
    /\ phase' = IF a = Sweep \/ phase[e] \notin Terminal \cup {"reconciling"}
                THEN [phase EXCEPT ![e] = IF rpc[a] = "terminate"
                                          THEN "terminated" ELSE "quarantined"]
                ELSE phase
    /\ machines' = IF a \in Killers /\ rpc[a] = "terminate" /\ phase' # phase
                   THEN machines \ {e} ELSE machines
    /\ todo' = IF a = Sweep THEN todo \ {e} ELSE todo
    /\ RunDone(a)
    /\ UNCHANGED <<ref, pinned, bound, cache, store, overlay, launches,
                   templatePins, gcVars, publishing, untracked>>

Open == {e \in Execs : phase[e] \notin Terminal \cup {"none"}}
Idle == /\ \A e \in Execs : lpc[e] = "idle"
        /\ \A a \in Runners : rpc[a] = "idle"

\* reconcile, by RPC or at shutdown: exclusive with every other operation.
Reconcile ==
    /\ Serving /\ Idle /\ Open # {}
    /\ phase' = [e \in Execs |-> IF e \in Open THEN "reconciling" ELSE phase[e]]
    /\ todo' = Open
    /\ UNCHANGED <<ref, pinned, bound, cache, store, overlay, launches,
                   templatePins, machines, runs, gcVars, publishing, untracked>>

ReconcileRecord(e) ==
    /\ todo # None /\ e \in todo /\ rpc[Sweep] = "idle"
    /\ RunTo(Sweep, "stop")
    /\ rexec' = [rexec EXCEPT ![Sweep] = e]
    /\ UNCHANGED <<journal, cache, store, overlay, launches, templatePins,
                   machines, todo, gcVars, publishing, untracked>>

ReconcileEnds ==
    /\ todo = {} /\ rpc[Sweep] = "idle"
    /\ todo' = None
    /\ machines' = {}
    /\ UNCHANGED <<journal, cache, store, overlay, launches, templatePins,
                   runs, gcVars, publishing, untracked>>

\* rootd dies and restarts.  It serves at once; its predecessor's records
\* stay as they are until somebody calls reconcile.
Crash ==
    /\ "crash" \in Faults
    /\ lpc' = [e \in Execs |-> "idle"]
    /\ rpc' = [a \in Runners |-> "idle"]
    /\ rexec' = [a \in Runners |-> None]
    /\ lrestore' = {} /\ templatePins' = {} /\ machines' = {}
    /\ gc' = None /\ gcRefs' = {} /\ publishing' = None
    /\ todo' = None
    /\ untracked' = TRUE
    /\ UNCHANGED <<journal, cache, store, overlay, lset>>

-----------------------------------------------------------------------------
(* The cache's and the store's own operations.                             *)

\* cache.store: the rename makes the set and its zero refcount appear at once.
StoreSet(h) ==
    /\ CacheFree /\ h \notin present
    /\ present' = present \cup {h}
    /\ count' = [count EXCEPT ![h] = 0]
    /\ UNCHANGED <<journal, store, overlay, launches, templatePins, machines,
                   runs, todo, gcVars, publishing, untracked>>

\* Mutant: a quarantined record no longer cites its set.
ReferencedByLive == {ref[e] : e \in {x \in Execs : phase[x] \notin Terminal}} \ {None}

\* JournalArtifactReferenceReader: every record but a terminated one pins.
Referenced == {ref[e] : e \in {x \in Execs : phase[x] # "terminated"}} \ {None}

\* cache.gc holds the mutex from the journal read to the last removal.
GcStart ==
    /\ CacheFree /\ present # {}
    /\ gc' = present
    /\ gcRefs' = Referenced
    /\ UNCHANGED <<journal, cache, store, overlay, launches, templatePins,
                   machines, runs, todo, publishing, untracked>>

GcVisit(h) ==
    /\ gc # None /\ h \in gc
    /\ present' = IF h \in gcRefs \/ count[h] > 0 THEN present ELSE present \ {h}
    /\ gc' = gc \ {h}
    /\ UNCHANGED <<journal, count, store, overlay, launches, templatePins,
                   machines, runs, todo, gcRefs, publishing, untracked>>

GcEnd ==
    /\ gc = {}
    /\ gc' = None /\ gcRefs' = {}
    /\ UNCHANGED <<journal, cache, store, overlay, launches, templatePins,
                   machines, runs, todo, publishing, untracked>>

\* buildWarmTemplate / publish: a valid template is reused, an absent one
\* appears by one rename, an invalid one is first moved aside.
Publish(h) ==
    /\ StoreFree /\ tmpl[h] # "valid"
    /\ IF tmpl[h] = "absent"
       THEN /\ tmpl' = [tmpl EXCEPT ![h] = "valid"]
            /\ pins' = [pins EXCEPT ![h] = 0]
            /\ UNCHANGED publishing
       ELSE /\ tmpl' = [tmpl EXCEPT ![h] = "absent"]
            /\ publishing' = h
            /\ UNCHANGED pins
    /\ UNCHANGED <<journal, cache, overlay, launches, templatePins, machines,
                   runs, todo, gcVars, untracked>>

PublishSwing ==
    /\ publishing # None
    /\ tmpl' = [tmpl EXCEPT ![publishing] = "valid"]
    /\ pins' = [pins EXCEPT ![publishing] = 0]
    /\ publishing' = None
    /\ UNCHANGED <<journal, cache, overlay, launches, templatePins, machines,
                   runs, todo, gcVars, untracked>>

\* A template's files drift from what template.json records.
TemplateCorrupts(h) ==
    /\ "corrupt" \in Faults
    /\ tmpl[h] = "valid"
    /\ tmpl' = [tmpl EXCEPT ![h] = "invalid"]
    /\ UNCHANGED <<journal, cache, pins, overlay, launches, templatePins,
                   machines, runs, todo, gcVars, publishing, untracked>>

-----------------------------------------------------------------------------
LaunchStep(e) ==
    \/ AcquireSet(e) \/ CreateOverlay(e) \/ Provision(e) \/ PlanFails(e)
    \/ Validate(e) \/ ResolveTemplate(e) \/ PinTemplate(e) \/ UndoAcquire(e)
    \/ Commit(e) \/ JournalFails(e) \/ Bind(e) \/ Booted(e) \/ BootFails(e)
    \/ Park(e)

RunStep(a) ==
    \/ Stopped(a) \/ NetworkHook(a) \/ ArtifactHook(a) \/ ReleaseHook(a)
    \/ TemplateHook(a) \/ UnpinHook(a) \/ Finish(a)

DiskStep(h) == StoreSet(h) \/ GcVisit(h) \/ Publish(h) \/ TemplateCorrupts(h)

Next ==
    \/ \E e \in Execs : LaunchStep(e) \/ ReconcileRecord(e)
    \/ \E e \in Execs, h \in Sets : Launch(e, h)
    \/ \E k \in Killers, e \in Execs : Kill(k, e)
    \/ \E a \in Runners : RunStep(a)
    \/ \E h \in Sets : DiskStep(h)
    \/ GcStart \/ GcEnd \/ PublishSwing
    \/ Reconcile \/ ReconcileEnds \/ Crash

Spec == Init /\ [][Next]_vars

-----------------------------------------------------------------------------
\* Launches that have taken their reference and not yet handed it to the
\* record or given it back.
Acquiring(e) == lpc[e] \in {"overlay", "provision", "validate", "resolve",
                            "pin", "commit", "undo"}

\* A run for e that is past the release, or past the unpin.
RunPast(e, pcs) == \E a \in Runners : rexec[a] = e /\ rpc[a] \in pcs

Holders(h) ==
    {e \in Execs : \/ Acquiring(e) /\ lset[e] = h
                   \/ /\ ref[e] = h /\ phase[e] # "terminated"
                      /\ ~RunPast(e, {"template", "unpin", "terminate"})}

PinHolders(h) ==
    {e \in Execs : \/ e \in lrestore /\ lset[e] = h
                   \/ /\ e \in pinned /\ ref[e] = h /\ phase[e] # "terminated"
                      /\ ~RunPast(e, {"terminate"})}

\* launch_planner.ts resolve, ArtifactReclaimHook and cache.ts gc: a set that
\* an uncommitted launch has acquired, or that an unterminated record cites,
\* is never reaped, whatever crashes, failing hooks, double releases after a
\* restart and collector passes happen in between.
HeldSetsPresent ==
    \A e \in Execs :
        /\ Acquiring(e) => lset[e] \in present
        /\ ref[e] # None /\ phase[e] # "terminated" => ref[e] \in present

\* While no crash and no lost journal write happened, a set's refcount is the
\* number of its holders: resolve's catch, the park, the kill and the sweep
\* release each acquire exactly once between them.
CountIsExact ==
    ~untracked => \A h \in present : count[h] = Cardinality(Holders(h))

\* While no crash and no lost journal write happened, a template's refcount
\* never exceeds its live restores, also when it is published again under
\* them: no pin outlives the executions that took one.
PinsNotLeaked ==
    ~untracked => \A h \in Sets :
        tmpl[h] # "absent" => pins[h] <= Cardinality(PinHolders(h))

\* While no crash and no lost journal write happened, a terminated record
\* leaves no overlay file behind, by whichever way it got there.
TerminatedHasNoOverlay ==
    ~untracked => \A e \in overlay : phase[e] # "terminated"

\* What a launch takes beside its set, it gives back once it has ended, by
\* whichever of resolve's catch, park, kill and sweep it gets there.
TakenIsReturned == TypeOK /\ PinsNotLeaked /\ TerminatedHasNoOverlay

=============================================================================
