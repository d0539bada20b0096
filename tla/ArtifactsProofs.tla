--------------------------- MODULE ArtifactsProofs ---------------------------
(***************************************************************************)
(* Theorems about Artifacts, for any number of artifact sets and of        *)
(* executions, while nobody stops an execution that is being stopped.      *)
(***************************************************************************)
EXTENDS Artifacts, FiniteSetTheorems, TLAPS

USE ArtifactNone, ArtifactRunners DEF Sweep

\* At most one stop of an execution at a time.  rootd does not see to it: a
\* second stop of a terminating record runs the hooks again, and releases again.
OneStop ==
    \A k, l \in Killers :
        rpc[k] # "idle" /\ rpc[l] # "idle" /\ rexec[k] = rexec[l] => k = l

(***************************************************************************)
(* Who runs the reclaim hooks.  A launch hands over to its own park, a     *)
(* ready record to the killer or the sweep, and the sweep is alone; so an  *)
(* execution has one run at a time, and one run that ends.                 *)
(***************************************************************************)
Before == {"acquire", "overlay", "provision", "validate", "resolve", "pin", "commit", "undo"}

\* A record is as far as its launch, and its reference comes with the commit.
LaunchPhase ==
    \A e \in Execs :
        /\ lpc[e] \in Before => phase[e] = "staging"
        /\ lpc[e] \in {"bind", "boot"} => phase[e] = "booting" /\ ref[e] = lset[e]
        /\ lpc[e] = "park" => phase[e] \in {"staging", "booting"}
        /\ phase[e] \in {"none", "staging"} =>
               ref[e] = None /\ e \notin pinned /\ e \notin bound
        /\ e \in pinned => ref[e] \in Sets

\* A run has its execution to itself.
Runs ==
    /\ \A a \in Runners : rpc[a] # "idle" =>
           /\ lpc[rexec[a]] = "idle"
           /\ a \in Execs => rexec[a] = a /\ phase[a] \in {"staging", "booting"}
           /\ a \in Killers => phase[rexec[a]] = "terminating"
           /\ a = Sweep => todo # None /\ rexec[a] \in todo
           /\ rpc[a] = "unpin" => rexec[a] \in pinned
    /\ todo # None =>
           /\ \A e \in Execs : lpc[e] = "idle"
           /\ \A a \in Runners : a # Sweep => rpc[a] = "idle"
           /\ \A e \in todo : phase[e] = "reconciling"
    /\ \A e \in machines : phase[e] = "terminating" =>
           \E k \in Killers : rpc[k] # "idle" /\ rexec[k] = e

\* Every step keeps the types.
LEMMA TypeStep == TypeOK /\ Runs /\ [Next]_vars => TypeOK'
  <1> SUFFICES ASSUME TypeOK, Runs, [Next]_vars
               PROVE  TypeOK'
    OBVIOUS
  <1> USE DEF TypeOK, Phases, LaunchPcs, RunPcs, Terminal, Runners
  <1>1. ASSUME NEW e \in Execs, AcquireSet(e)
       PROVE  TypeOK'
    BY <1>1 DEF AcquireSet, CacheFree, Acquired, LaunchTo, journal, store, runs, gcVars
  <1>2. ASSUME NEW e \in Execs, CreateOverlay(e)
       PROVE  TypeOK'
    BY <1>2 DEF CreateOverlay, LaunchTo, journal, cache, store, runs, gcVars
  <1>3. ASSUME NEW e \in Execs, Provision(e)
       PROVE  TypeOK'
    BY <1>3 DEF Provision, LaunchTo, journal, cache, store, runs, gcVars
  <1>4. ASSUME NEW e \in Execs, PlanFails(e)
       PROVE  TypeOK'
    BY <1>4 DEF PlanFails, LaunchTo, journal, cache, store, runs, gcVars
  <1>5. ASSUME NEW e \in Execs, Validate(e)
       PROVE  TypeOK'
    BY <1>5 DEF Validate, LaunchTo, journal, cache, store, runs, gcVars
  <1>6. ASSUME NEW e \in Execs, ResolveTemplate(e)
       PROVE  TypeOK'
    BY <1>6 DEF ResolveTemplate, LaunchTo, journal, cache, store, runs, gcVars
  <1>7. ASSUME NEW e \in Execs, PinTemplate(e)
       PROVE  TypeOK'
    BY <1>7 DEF PinTemplate, StoreFree, LaunchTo, journal, cache, runs, gcVars
  <1>8. ASSUME NEW e \in Execs, UndoAcquire(e)
       PROVE  TypeOK'
    BY <1>8 DEF UndoAcquire, CacheFree, Released, LaunchTo, journal, store, runs, gcVars
  <1>9. ASSUME NEW e \in Execs, Commit(e)
       PROVE  TypeOK'
    BY <1>9 DEF Commit, LaunchTo, cache, store, runs, gcVars
  <1>10. ASSUME NEW e \in Execs, JournalFails(e)
       PROVE  TypeOK'
    BY <1>10 DEF JournalFails, LaunchTo, journal, cache, store, runs, gcVars
  <1>11. ASSUME NEW e \in Execs, Bind(e)
       PROVE  TypeOK'
    BY <1>11 DEF Bind, LaunchTo, cache, store, runs, gcVars
  <1>12. ASSUME NEW e \in Execs, Booted(e)
       PROVE  TypeOK'
    BY <1>12 DEF Booted, LaunchTo, cache, store, runs, gcVars
  <1>13. ASSUME NEW e \in Execs, BootFails(e)
       PROVE  TypeOK'
    BY <1>13 DEF BootFails, LaunchTo, cache, store, runs, gcVars
  <1>14. ASSUME NEW e \in Execs, Park(e)
       PROVE  TypeOK'
    BY <1>14 DEF Park, LaunchTo, RunTo, journal, cache, store, gcVars
  <1>15. ASSUME NEW e \in Execs, ReconcileRecord(e)
       PROVE  TypeOK'
    BY <1>15 DEF ReconcileRecord, RunTo, journal, cache, store, launches, gcVars
  <1>16. ASSUME NEW e \in Execs, NEW h \in Sets, Launch(e, h)
       PROVE  TypeOK'
    BY <1>16 DEF Launch, Serving, LaunchTo, cache, store, runs, gcVars
  <1>17. ASSUME NEW k \in Killers, NEW e \in Execs, Kill(k, e)
       PROVE  TypeOK'
    BY <1>17 DEF Kill, Serving, RunTo, cache, store, launches, gcVars
  <1>18. ASSUME NEW a \in Runners, Stopped(a)
       PROVE  TypeOK'
    BY <1>18 DEF Stopped, RunTo, journal, cache, store, launches, gcVars
  <1>19. ASSUME NEW a \in Runners, NetworkHook(a)
       PROVE  TypeOK'
    BY <1>19 DEF NetworkHook, RunTo, journal, cache, store, launches, gcVars
  <1>20. ASSUME NEW a \in Runners, ArtifactHook(a)
       PROVE  TypeOK'
    BY <1>20 DEF ArtifactHook, RunTo, journal, cache, store, launches, gcVars
  <1>21. ASSUME NEW a \in Runners, ReleaseHook(a)
       PROVE  TypeOK'
    BY <1>21 DEF ReleaseHook, CacheFree, Released, RunTo, journal, store, launches, gcVars
  <1>22. ASSUME NEW a \in Runners, TemplateHook(a)
       PROVE  TypeOK'
    BY <1>22 DEF TemplateHook, RunTo, journal, cache, store, launches, gcVars
  <1>23. ASSUME NEW a \in Runners, UnpinHook(a)
       PROVE  TypeOK'
    <2> DEFINE h == ref[rexec[a]]
    <2>1. pins' \in [Sets -> Nat]
      <3>1. CASE h \in Sets
        BY <1>23, <3>1 DEF UnpinHook, Unpinned
      <3>2. CASE h \notin Sets
        BY <1>23, <3>2 DEF UnpinHook, Unpinned
      <3> QED
        BY <3>1, <3>2
    <2>2. /\ rpc' = [rpc EXCEPT ![a] = "terminate"] /\ rpc[a] = "unpin"
          /\ UNCHANGED <<journal, cache, tmpl, overlay, launches, templatePins,
                         machines, rexec, todo, gcVars, publishing, untracked>>
      BY <1>23 DEF UnpinHook, RunTo
    <2> HIDE DEF h
    <2> QED
      BY <2>1, <2>2 DEF journal, cache, launches, gcVars
  <1>24. ASSUME NEW a \in Runners, Finish(a)
       PROVE  TypeOK'
    <2>1. rpc[a] # "idle" /\ rexec[a] \in Execs /\ (a = Sweep => todo # None)
      BY <1>24 DEF Finish, Runs
    <2>2. todo' \in (SUBSET Execs) \cup {None}
      BY <1>24, <2>1 DEF Finish
    <2> QED
      BY <1>24, <2>1, <2>2 DEF Finish, RunDone, cache, store, launches, gcVars, RunTo
  <1>25. ASSUME NEW h \in Sets, StoreSet(h)
       PROVE  TypeOK'
    BY <1>25 DEF StoreSet, CacheFree, journal, store, launches, runs, gcVars
  <1>26. ASSUME NEW h \in Sets, GcVisit(h)
       PROVE  TypeOK'
    BY <1>26 DEF GcVisit, journal, store, launches, runs
  <1>27. ASSUME NEW h \in Sets, Publish(h)
       PROVE  TypeOK'
    BY <1>27 DEF Publish, StoreFree, journal, cache, launches, runs, gcVars
  <1>28. ASSUME NEW h \in Sets, TemplateCorrupts(h)
       PROVE  TypeOK'
    BY <1>28 DEF TemplateCorrupts, journal, cache, launches, runs, gcVars
  <1>29. CASE GcStart
    BY <1>29 DEF GcStart, CacheFree, Referenced, journal, cache, store, launches, runs
  <1>30. CASE GcEnd
    BY <1>30 DEF GcEnd, journal, cache, store, launches, runs
  <1>31. CASE PublishSwing
    BY <1>31 DEF PublishSwing, journal, cache, launches, runs, gcVars
  <1>32. CASE Reconcile
    BY <1>32 DEF Reconcile, Serving, Idle, Open, cache, store, launches, runs, gcVars
  <1>33. CASE ReconcileEnds
    BY <1>33 DEF ReconcileEnds, journal, cache, store, launches, runs, gcVars
  <1>34. CASE Crash
    BY <1>34 DEF Crash, journal, cache, store
  <1>35. CASE UNCHANGED vars
    BY <1>35 DEF vars, journal, cache, store, launches, runs, gcVars
  <1> QED
    BY <1>1, <1>2, <1>3, <1>4, <1>5, <1>6, <1>7, <1>8, <1>9, <1>10, <1>11, <1>12, <1>13,
       <1>14, <1>15, <1>16, <1>17, <1>18, <1>19, <1>20, <1>21, <1>22, <1>23, <1>24, <1>25,
       <1>26, <1>27, <1>28, <1>29, <1>30, <1>31, <1>32, <1>33, <1>34, <1>35
    DEF Next, LaunchStep, RunStep, DiskStep

\* A record's phase, its reference and its launch move together.
LEMMA PhaseStep == TypeOK /\ Runs /\ LaunchPhase /\ [Next]_vars => LaunchPhase'
  <1> SUFFICES ASSUME TypeOK, Runs, LaunchPhase, [Next]_vars
               PROVE  LaunchPhase'
    OBVIOUS
  <1> /\ phase \in [Execs -> Phases] /\ ref \in [Execs -> Sets \cup {None}]
      /\ lpc \in [Execs -> LaunchPcs] /\ lset \in [Execs -> Sets \cup {None}]
      /\ rexec \in [Runners -> Execs \cup {None}]
      /\ \A e \in Execs : lpc[e] \notin {"idle", "park"} => lset[e] \in Sets
      /\ \A a \in Runners : rpc[a] # "idle" => rexec[a] \in Execs
      /\ \A a \in Runners : rpc[a] # "idle" => lpc[rexec[a]] = "idle"
    BY DEF TypeOK, Runs
  <1> USE DEF LaunchPhase, Before, Terminal
  <1>1. ASSUME NEW e \in Execs, AcquireSet(e)
       PROVE  LaunchPhase'
    BY <1>1 DEF AcquireSet, CacheFree, Acquired, LaunchTo, journal, store, runs, gcVars
  <1>2. ASSUME NEW e \in Execs, CreateOverlay(e)
       PROVE  LaunchPhase'
    BY <1>2 DEF CreateOverlay, LaunchTo, journal, cache, store, runs, gcVars
  <1>3. ASSUME NEW e \in Execs, Provision(e)
       PROVE  LaunchPhase'
    BY <1>3 DEF Provision, LaunchTo, journal, cache, store, runs, gcVars
  <1>4. ASSUME NEW e \in Execs, PlanFails(e)
       PROVE  LaunchPhase'
    BY <1>4 DEF PlanFails, LaunchTo, journal, cache, store, runs, gcVars
  <1>5. ASSUME NEW e \in Execs, Validate(e)
       PROVE  LaunchPhase'
    BY <1>5 DEF Validate, LaunchTo, journal, cache, store, runs, gcVars
  <1>6. ASSUME NEW e \in Execs, ResolveTemplate(e)
       PROVE  LaunchPhase'
    BY <1>6 DEF ResolveTemplate, LaunchTo, journal, cache, store, runs, gcVars
  <1>7. ASSUME NEW e \in Execs, PinTemplate(e)
       PROVE  LaunchPhase'
    BY <1>7 DEF PinTemplate, StoreFree, LaunchTo, journal, cache, runs, gcVars
  <1>8. ASSUME NEW e \in Execs, UndoAcquire(e)
       PROVE  LaunchPhase'
    BY <1>8 DEF UndoAcquire, CacheFree, Released, LaunchTo, journal, store, runs, gcVars
  <1>9. ASSUME NEW e \in Execs, Commit(e)
       PROVE  LaunchPhase'
    BY <1>9 DEF Commit, LaunchTo, cache, store, runs, gcVars
  <1>10. ASSUME NEW e \in Execs, JournalFails(e)
       PROVE  LaunchPhase'
    BY <1>10 DEF JournalFails, LaunchTo, journal, cache, store, runs, gcVars
  <1>11. ASSUME NEW e \in Execs, Bind(e)
       PROVE  LaunchPhase'
    BY <1>11 DEF Bind, LaunchTo, cache, store, runs, gcVars
  <1>12. ASSUME NEW e \in Execs, Booted(e)
       PROVE  LaunchPhase'
    BY <1>12 DEF Booted, LaunchTo, cache, store, runs, gcVars
  <1>13. ASSUME NEW e \in Execs, BootFails(e)
       PROVE  LaunchPhase'
    BY <1>13 DEF BootFails, LaunchTo, cache, store, runs, gcVars
  <1>14. ASSUME NEW e \in Execs, Park(e)
       PROVE  LaunchPhase'
    BY <1>14 DEF Park, LaunchTo, RunTo, journal, cache, store, gcVars
  <1>15. ASSUME NEW e \in Execs, ReconcileRecord(e)
       PROVE  LaunchPhase'
    BY <1>15 DEF ReconcileRecord, RunTo, journal, cache, store, launches, gcVars
  <1>16. ASSUME NEW e \in Execs, NEW h \in Sets, Launch(e, h)
       PROVE  LaunchPhase'
    BY <1>16 DEF Launch, Serving, LaunchTo, cache, store, runs, gcVars
  <1>17. ASSUME NEW k \in Killers, NEW e \in Execs, Kill(k, e)
       PROVE  LaunchPhase'
    BY <1>17 DEF Kill, Serving, RunTo, cache, store, launches, gcVars
  <1>18. ASSUME NEW a \in Runners, Stopped(a)
       PROVE  LaunchPhase'
    BY <1>18 DEF Stopped, RunTo, journal, cache, store, launches, gcVars
  <1>19. ASSUME NEW a \in Runners, NetworkHook(a)
       PROVE  LaunchPhase'
    BY <1>19 DEF NetworkHook, RunTo, journal, cache, store, launches, gcVars
  <1>20. ASSUME NEW a \in Runners, ArtifactHook(a)
       PROVE  LaunchPhase'
    BY <1>20 DEF ArtifactHook, RunTo, journal, cache, store, launches, gcVars
  <1>21. ASSUME NEW a \in Runners, ReleaseHook(a)
       PROVE  LaunchPhase'
    BY <1>21 DEF ReleaseHook, CacheFree, Released, RunTo, journal, store, launches, gcVars
  <1>22. ASSUME NEW a \in Runners, TemplateHook(a)
       PROVE  LaunchPhase'
    BY <1>22 DEF TemplateHook, RunTo, journal, cache, store, launches, gcVars
  <1>23. ASSUME NEW a \in Runners, UnpinHook(a)
       PROVE  LaunchPhase'
    BY <1>23 DEF UnpinHook, StoreFree, Unpinned, RunTo, journal, cache, launches, gcVars
  <1>24. ASSUME NEW a \in Runners, Finish(a)
       PROVE  LaunchPhase'
    BY <1>24 DEF Finish, RunDone, cache, store, launches, gcVars, RunTo
  <1>25. ASSUME NEW h \in Sets, StoreSet(h)
       PROVE  LaunchPhase'
    BY <1>25 DEF StoreSet, CacheFree, journal, store, launches, runs, gcVars
  <1>26. ASSUME NEW h \in Sets, GcVisit(h)
       PROVE  LaunchPhase'
    BY <1>26 DEF GcVisit, journal, store, launches, runs
  <1>27. ASSUME NEW h \in Sets, Publish(h)
       PROVE  LaunchPhase'
    BY <1>27 DEF Publish, StoreFree, journal, cache, launches, runs, gcVars
  <1>28. ASSUME NEW h \in Sets, TemplateCorrupts(h)
       PROVE  LaunchPhase'
    BY <1>28 DEF TemplateCorrupts, journal, cache, launches, runs, gcVars
  <1>29. CASE GcStart
    BY <1>29 DEF GcStart, CacheFree, Referenced, journal, cache, store, launches, runs
  <1>30. CASE GcEnd
    BY <1>30 DEF GcEnd, journal, cache, store, launches, runs
  <1>31. CASE PublishSwing
    BY <1>31 DEF PublishSwing, journal, cache, launches, runs, gcVars
  <1>32. CASE Reconcile
    BY <1>32 DEF Reconcile, Serving, Idle, Open, cache, store, launches, runs, gcVars,
        Runners
  <1>33. CASE ReconcileEnds
    BY <1>33 DEF ReconcileEnds, journal, cache, store, launches, runs, gcVars
  <1>34. CASE Crash
    BY <1>34 DEF Crash, Runners, journal, cache, store
  <1>35. CASE UNCHANGED vars
    BY <1>35 DEF vars, journal, cache, store, launches, runs, gcVars
  <1> QED
    BY <1>1, <1>2, <1>3, <1>4, <1>5, <1>6, <1>7, <1>8, <1>9, <1>10, <1>11, <1>12, <1>13,
       <1>14, <1>15, <1>16, <1>17, <1>18, <1>19, <1>20, <1>21, <1>22, <1>23, <1>24, <1>25,
       <1>26, <1>27, <1>28, <1>29, <1>30, <1>31, <1>32, <1>33, <1>34, <1>35
    DEF Next, LaunchStep, RunStep, DiskStep

\* An execution has one run at a time.
LEMMA OneRun ==
  ASSUME OneStop, TypeOK, Runs, NEW a \in Runners, NEW b \in Runners,
         rpc[a] # "idle", rpc[b] # "idle", rexec[a] = rexec[b]
  PROVE  a = b
  BY DEF OneStop, TypeOK, Runs, Runners

\* A kill finds a machine that nobody is stopping.
LEMMA KillFindsReady ==
  ASSUME OneStop', TypeOK, Runs, NEW k \in Killers, NEW e \in Execs, Kill(k, e)
  PROVE  phase[e] = "ready"
  <1> SUFFICES ASSUME phase[e] = "terminating" PROVE FALSE
    BY DEF Kill
  <1>1. PICK l \in Killers : rpc[l] # "idle" /\ rexec[l] = e
    BY DEF Kill, Runs
  <1>2. /\ k # l /\ k \in Runners /\ l \in Runners
        /\ rpc' = [rpc EXCEPT ![k] = "stop"] /\ rexec' = [rexec EXCEPT ![k] = e]
    BY <1>1 DEF Kill, RunTo, Runners
  <1>3. rpc'[k] = "stop" /\ rexec'[k] = e /\ rpc'[l] = rpc[l] /\ rexec'[l] = e
    BY <1>1, <1>2 DEF TypeOK
  <1> QED
    BY <1>1, <1>2, <1>3 DEF OneStop

\* A step of a launch, of a run or of the sweep leaves every run alone.
LEMMA RunsStep ==
  OneStop /\ OneStop' /\ TypeOK /\ Runs /\ LaunchPhase /\ [Next]_vars => Runs'
  <1> SUFFICES ASSUME OneStop, OneStop', TypeOK, Runs, LaunchPhase, [Next]_vars
               PROVE  Runs'
    OBVIOUS
  <1> /\ phase \in [Execs -> Phases]
      /\ lpc \in [Execs -> LaunchPcs] /\ rpc \in [Runners -> RunPcs]
      /\ rexec \in [Runners -> Execs \cup {None}] /\ todo \in (SUBSET Execs) \cup {None}
      /\ pinned \subseteq Execs /\ machines \subseteq Execs
      /\ \A a \in Runners : rpc[a] # "idle" => rexec[a] \in Execs
    BY DEF TypeOK
  <1> USE OneRun DEF Runs, LaunchPhase, Before, Runners
  <1>1. ASSUME NEW e \in Execs, AcquireSet(e)
       PROVE  Runs'
    BY <1>1 DEF AcquireSet, CacheFree, Acquired, LaunchTo, journal, store, runs, gcVars
  <1>2. ASSUME NEW e \in Execs, CreateOverlay(e)
       PROVE  Runs'
    BY <1>2 DEF CreateOverlay, LaunchTo, journal, cache, store, runs, gcVars
  <1>3. ASSUME NEW e \in Execs, Provision(e)
       PROVE  Runs'
    BY <1>3 DEF Provision, LaunchTo, journal, cache, store, runs, gcVars
  <1>4. ASSUME NEW e \in Execs, PlanFails(e)
       PROVE  Runs'
    BY <1>4 DEF PlanFails, LaunchTo, journal, cache, store, runs, gcVars
  <1>5. ASSUME NEW e \in Execs, Validate(e)
       PROVE  Runs'
    BY <1>5 DEF Validate, LaunchTo, journal, cache, store, runs, gcVars
  <1>6. ASSUME NEW e \in Execs, ResolveTemplate(e)
       PROVE  Runs'
    BY <1>6 DEF ResolveTemplate, LaunchTo, journal, cache, store, runs, gcVars
  <1>7. ASSUME NEW e \in Execs, PinTemplate(e)
       PROVE  Runs'
    BY <1>7 DEF PinTemplate, StoreFree, LaunchTo, journal, cache, runs, gcVars
  <1>8. ASSUME NEW e \in Execs, UndoAcquire(e)
       PROVE  Runs'
    BY <1>8 DEF UndoAcquire, CacheFree, Released, LaunchTo, journal, store, runs, gcVars
  <1>9. ASSUME NEW e \in Execs, Commit(e)
       PROVE  Runs'
    BY <1>9 DEF Commit, LaunchTo, cache, store, runs, gcVars
  <1>10. ASSUME NEW e \in Execs, JournalFails(e)
       PROVE  Runs'
    BY <1>10 DEF JournalFails, LaunchTo, journal, cache, store, runs, gcVars
  <1>11. ASSUME NEW e \in Execs, Bind(e)
       PROVE  Runs'
    BY <1>11 DEF Bind, LaunchTo, cache, store, runs, gcVars
  <1>12. ASSUME NEW e \in Execs, Booted(e)
       PROVE  Runs'
    BY <1>12 DEF Booted, LaunchTo, cache, store, runs, gcVars
  <1>13. ASSUME NEW e \in Execs, BootFails(e)
       PROVE  Runs'
    BY <1>13 DEF BootFails, LaunchTo, cache, store, runs, gcVars
  <1>14. ASSUME NEW e \in Execs, Park(e)
       PROVE  Runs'
    BY <1>14 DEF Park, LaunchTo, RunTo, journal, cache, store, gcVars
  <1>15. ASSUME NEW e \in Execs, ReconcileRecord(e)
       PROVE  Runs'
    BY <1>15 DEF ReconcileRecord, RunTo, journal, cache, store, launches, gcVars
  <1>16. ASSUME NEW e \in Execs, NEW h \in Sets, Launch(e, h)
       PROVE  Runs'
    BY <1>16 DEF Launch, Serving, LaunchTo, cache, store, runs, gcVars
  <1>17. ASSUME NEW k \in Killers, NEW e \in Execs, Kill(k, e)
       PROVE  Runs'
    <2>1. /\ Serving /\ rpc[k] = "idle" /\ phase[e] \in {"ready", "terminating"}
          /\ e \in machines
          /\ phase' = [phase EXCEPT ![e] = "terminating"]
          /\ rpc' = [rpc EXCEPT ![k] = "stop"] /\ rexec' = [rexec EXCEPT ![k] = e]
          /\ UNCHANGED <<lpc, todo, machines, pinned>>
      BY <1>17 DEF Kill, RunTo, launches
    <2>2. phase[e] = "ready"
      BY <1>17, KillFindsReady
    <2>3. lpc[e] = "idle"
      BY <2>2 DEF LaunchPcs
    <2>4. ASSUME NEW a \in Runners, rpc'[a] # "idle"
          PROVE  /\ lpc'[rexec'[a]] = "idle"
                 /\ a \in Execs => rexec'[a] = a /\ phase'[a] \in {"staging", "booting"}
                 /\ a \in Killers => phase'[rexec'[a]] = "terminating"
                 /\ a = Sweep => todo' # None /\ rexec'[a] \in todo'
                 /\ rpc'[a] = "unpin" => rexec'[a] \in pinned'
      <3>1. CASE a = k
        BY <2>1, <2>3, <3>1
      <3>2. CASE a # k
        <4>1. rpc[a] # "idle" /\ rpc'[a] = rpc[a] /\ rexec'[a] = rexec[a]
          BY <2>1, <2>4, <3>2
        <4>2. rexec[a] # e /\ rexec[a] \in Execs
          BY <2>1, <2>2, <3>2, <4>1 DEF Serving
        <4> QED
          BY <2>1, <2>2, <4>1, <4>2
      <3> QED
        BY <3>1, <3>2
    <2>5. todo' = None
      BY <2>1 DEF Serving
    <2>6. \A x \in machines' : phase'[x] = "terminating" =>
              \E l \in Killers : rpc'[l] # "idle" /\ rexec'[l] = x
      BY <2>1, <2>2
    <2> QED
      BY <2>4, <2>5, <2>6
  <1>18. ASSUME NEW a \in Runners, Stopped(a)
       PROVE  Runs'
    BY <1>18 DEF Stopped, RunTo, journal, cache, store, launches, gcVars
  <1>19. ASSUME NEW a \in Runners, NetworkHook(a)
       PROVE  Runs'
    BY <1>19 DEF NetworkHook, RunTo, journal, cache, store, launches, gcVars
  <1>20. ASSUME NEW a \in Runners, ArtifactHook(a)
       PROVE  Runs'
    BY <1>20 DEF ArtifactHook, RunTo, journal, cache, store, launches, gcVars
  <1>21. ASSUME NEW a \in Runners, ReleaseHook(a)
       PROVE  Runs'
    BY <1>21 DEF ReleaseHook, CacheFree, Released, RunTo, journal, store, launches, gcVars
  <1>22. ASSUME NEW a \in Runners, TemplateHook(a)
       PROVE  Runs'
    BY <1>22 DEF TemplateHook, RunTo, journal, cache, store, launches, gcVars
  <1>23. ASSUME NEW a \in Runners, UnpinHook(a)
       PROVE  Runs'
    BY <1>23 DEF UnpinHook, StoreFree, Unpinned, RunTo, journal, cache, launches, gcVars
  <1>24. ASSUME NEW a \in Runners, Finish(a)
       PROVE  Runs'
    BY <1>24 DEF Finish, Terminal, RunDone, cache, store, launches, gcVars, RunTo
  <1>25. ASSUME NEW h \in Sets, StoreSet(h)
       PROVE  Runs'
    BY <1>25 DEF StoreSet, CacheFree, journal, store, launches, runs, gcVars
  <1>26. ASSUME NEW h \in Sets, GcVisit(h)
       PROVE  Runs'
    BY <1>26 DEF GcVisit, journal, store, launches, runs
  <1>27. ASSUME NEW h \in Sets, Publish(h)
       PROVE  Runs'
    BY <1>27 DEF Publish, StoreFree, journal, cache, launches, runs, gcVars
  <1>28. ASSUME NEW h \in Sets, TemplateCorrupts(h)
       PROVE  Runs'
    BY <1>28 DEF TemplateCorrupts, journal, cache, launches, runs, gcVars
  <1>29. CASE GcStart
    BY <1>29 DEF GcStart, CacheFree, Referenced, journal, cache, store, launches, runs
  <1>30. CASE GcEnd
    BY <1>30 DEF GcEnd, journal, cache, store, launches, runs
  <1>31. CASE PublishSwing
    BY <1>31 DEF PublishSwing, journal, cache, launches, runs, gcVars
  <1>32. CASE Reconcile
    BY <1>32 DEF Reconcile, Serving, Idle, Open, cache, store, launches, runs, gcVars,
        Terminal
  <1>33. CASE ReconcileEnds
    BY <1>33 DEF ReconcileEnds, journal, cache, store, launches, runs, gcVars
  <1>34. CASE Crash
    BY <1>34 DEF Crash, journal, cache, store
  <1>35. CASE UNCHANGED vars
    BY <1>35 DEF vars, journal, cache, store, launches, runs, gcVars
  <1> QED
    BY <1>1, <1>2, <1>3, <1>4, <1>5, <1>6, <1>7, <1>8, <1>9, <1>10, <1>11, <1>12, <1>13,
       <1>14, <1>15, <1>16, <1>17, <1>18, <1>19, <1>20, <1>21, <1>22, <1>23, <1>24, <1>25,
       <1>26, <1>27, <1>28, <1>29, <1>30, <1>31, <1>32, <1>33, <1>34, <1>35
    DEF Next, LaunchStep, RunStep, DiskStep

-----------------------------------------------------------------------------
(***************************************************************************)
(* Counting.  Each step adds or removes one holder, or none.               *)
(***************************************************************************)
\* Fewer elements count less.
LEMMA CardShrinks ==
  ASSUME NEW S, IsFiniteSet(S), NEW T \in SUBSET S
  PROVE  IsFiniteSet(T) /\ Cardinality(T) \in Nat /\ Cardinality(S) \in Nat
         /\ Cardinality(T) <= Cardinality(S)
  BY FS_Subset, FS_CardinalityType

\* A set with an element counts at least one.
LEMMA CardHas ==
  ASSUME NEW S, IsFiniteSet(S), NEW x \in S
  PROVE  Cardinality(S) \in Nat /\ Cardinality(S) > 0
  BY FS_EmptySet, FS_CardinalityType

\* One element less counts one less.
LEMMA CardLoses ==
  ASSUME NEW S, IsFiniteSet(S), NEW x \in S, NEW T \in SUBSET (S \ {x})
  PROVE  /\ Cardinality(S) \in Nat /\ Cardinality(S) > 0
         /\ Cardinality(T) \in Nat /\ Cardinality(T) <= Cardinality(S) - 1
         /\ Cardinality(S \ {x}) = Cardinality(S) - 1
  <1>1. IsFiniteSet(S \ {x}) /\ Cardinality(S \ {x}) = Cardinality(S) - 1
    BY FS_RemoveElement
  <1> QED
    BY <1>1, CardHas, CardShrinks

\* One element more counts at most one more.
LEMMA CardGains ==
  ASSUME NEW S, IsFiniteSet(S), NEW x, NEW T \in SUBSET (S \cup {x})
  PROVE  /\ Cardinality(S) \in Nat /\ Cardinality(T) \in Nat
         /\ Cardinality(T) <= Cardinality(S) + 1
         /\ x \notin S => Cardinality(S \cup {x}) = Cardinality(S) + 1
  <1>1. IsFiniteSet(S \cup {x})
        /\ Cardinality(S \cup {x}) = IF x \in S THEN Cardinality(S) ELSE Cardinality(S) + 1
    BY FS_AddElement
  <1>2. Cardinality(S) \in Nat
    BY FS_CardinalityType
  <1>3. Cardinality(T) \in Nat /\ Cardinality(T) <= Cardinality(S \cup {x})
    BY <1>1, CardShrinks
  <1> QED
    BY <1>1, <1>2, <1>3

\* What this rootd has acquired for e and has not given back.
InProcess(e) ==
    \/ lpc[e] \in {"bind", "boot", "park"}
    \/ e \in machines /\ phase[e] = "ready"
    \/ \E a \in Execs \cup Killers :
          rexec[a] = e /\ rpc[a] \in {"stop", "network", "artifact", "release"}

Owed(h) == {e \in Execs : \/ Acquiring(e) /\ lset[e] = h
                          \/ ref[e] = h /\ InProcess(e)}

\* A refcount file covers what this process owes, whatever crashes before it
\* have left; the sweep, which may release more, is alone.
Enough == todo = None => \A h \in present : count[h] >= Cardinality(Owed(h))

\* What a record cites survives the running collector.
Kept ==
    /\ HeldSetsPresent
    /\ gc # None => \A e \in Execs : ref[e] # None /\ phase[e] # "terminated" =>
           ref[e] \in gcRefs \/ count[ref[e]] > 0

\* The steps that change a refcount, or end a process or its sweep.
Counting ==
    \/ \E e \in Execs : AcquireSet(e) \/ UndoAcquire(e)
    \/ \E a \in Runners : ReleaseHook(a)
    \/ \E h \in Sets : StoreSet(h)
    \/ ReconcileEnds \/ Crash

\* The others change none, and give nobody a hold.
Quiet(h) ==
    /\ count' = count /\ present' \subseteq present /\ todo = None
    /\ Owed(h)' \subseteq Owed(h)

\* Every step is of one of the two sorts.
LEMMA QuietOrCounting ==
  ASSUME OneStop, OneStop', TypeOK, Runs, LaunchPhase, [Next]_vars, todo' = None, NEW h0 \in Sets
  PROVE  Quiet(h0) \/ Counting
  <1> DEFINE Goal == Quiet(h0) \/ Counting
  <1> /\ phase \in [Execs -> Phases] /\ ref \in [Execs -> Sets \cup {None}]
      /\ lpc \in [Execs -> LaunchPcs] /\ lset \in [Execs -> Sets \cup {None}]
      /\ rpc \in [Runners -> RunPcs] /\ rexec \in [Runners -> Execs \cup {None}]
      /\ machines \subseteq Execs /\ todo \in (SUBSET Execs) \cup {None}
      /\ \A a \in Runners : rpc[a] # "idle" => rexec[a] \in Execs
    BY DEF TypeOK
  <1> Execs \subseteq Runners /\ Killers \subseteq Runners
    BY DEF Runners
  <1> USE DEF Quiet, Owed, InProcess, Acquiring
  <1>1. ASSUME NEW e \in Execs, AcquireSet(e)
       PROVE  Goal
    BY <1>1 DEF Counting
  <1>2. ASSUME NEW e \in Execs, CreateOverlay(e)
       PROVE  Goal
    BY <1>2 DEF CreateOverlay, LaunchTo, journal, cache, store, runs, gcVars
  <1>3. ASSUME NEW e \in Execs, Provision(e)
       PROVE  Goal
    BY <1>3 DEF Provision, LaunchTo, journal, cache, store, runs, gcVars
  <1>4. ASSUME NEW e \in Execs, PlanFails(e)
       PROVE  Goal
    BY <1>4 DEF PlanFails, LaunchTo, journal, cache, store, runs, gcVars
  <1>5. ASSUME NEW e \in Execs, Validate(e)
       PROVE  Goal
    BY <1>5 DEF Validate, LaunchTo, journal, cache, store, runs, gcVars
  <1>6. ASSUME NEW e \in Execs, ResolveTemplate(e)
       PROVE  Goal
    BY <1>6 DEF ResolveTemplate, LaunchTo, journal, cache, store, runs, gcVars
  <1>7. ASSUME NEW e \in Execs, PinTemplate(e)
       PROVE  Goal
    BY <1>7 DEF PinTemplate, StoreFree, LaunchTo, journal, cache, runs, gcVars
  <1>8. ASSUME NEW e \in Execs, UndoAcquire(e)
       PROVE  Goal
    BY <1>8 DEF Counting
  <1>9. ASSUME NEW e \in Execs, Commit(e)
       PROVE  Goal
    BY <1>9 DEF Commit, LaunchTo, cache, store, runs, gcVars
  <1>10. ASSUME NEW e \in Execs, JournalFails(e)
       PROVE  Goal
    BY <1>10 DEF JournalFails, LaunchTo, journal, cache, store, runs, gcVars, LaunchPhase,
        Before
  <1>11. ASSUME NEW e \in Execs, Bind(e)
       PROVE  Goal
    BY <1>11 DEF Bind, LaunchTo, cache, store, runs, gcVars
  <1>12. ASSUME NEW e \in Execs, Booted(e)
       PROVE  Goal
    BY <1>12 DEF Booted, LaunchTo, cache, store, runs, gcVars
  <1>13. ASSUME NEW e \in Execs, BootFails(e)
       PROVE  Goal
    BY <1>13 DEF BootFails, LaunchTo, cache, store, runs, gcVars
  <1>14. ASSUME NEW e \in Execs, Park(e)
       PROVE  Goal
    BY <1>14 DEF Park, LaunchTo, RunTo, journal, cache, store, gcVars
  <1>15. ASSUME NEW e \in Execs, ReconcileRecord(e)
       PROVE  Goal
    BY <1>15 DEF ReconcileRecord, RunTo, journal, cache, store, launches, gcVars
  <1>16. ASSUME NEW e \in Execs, NEW h \in Sets, Launch(e, h)
       PROVE  Goal
    BY <1>16 DEF Launch, Serving, LaunchTo, cache, store, runs, gcVars, LaunchPhase, Before
  <1>17. ASSUME NEW k \in Killers, NEW e \in Execs, Kill(k, e)
       PROVE  Goal
    <2>1. /\ phase[e] = "ready" /\ e \in machines
          /\ phase' = [phase EXCEPT ![e] = "terminating"]
          /\ rpc' = [rpc EXCEPT ![k] = "stop"] /\ rexec' = [rexec EXCEPT ![k] = e]
          /\ UNCHANGED <<lpc, lset, ref, machines, count, present, todo>>
      BY <1>17, KillFindsReady DEF Kill, RunTo, launches, cache
    <2>2. rpc[k] = "idle"
      BY <1>17 DEF Kill
    <2>3. \A x \in Execs : InProcess(x)' => InProcess(x)
      BY <2>1, <2>2
    <2> QED
      BY <2>1, <2>3
  <1>18. ASSUME NEW a \in Runners, Stopped(a)
       PROVE  Goal
    BY <1>18 DEF Stopped, RunTo, journal, cache, store, launches, gcVars
  <1>19. ASSUME NEW a \in Runners, NetworkHook(a)
       PROVE  Goal
    BY <1>19 DEF NetworkHook, RunTo, journal, cache, store, launches, gcVars
  <1>20. ASSUME NEW a \in Runners, ArtifactHook(a)
       PROVE  Goal
    BY <1>20 DEF ArtifactHook, RunTo, journal, cache, store, launches, gcVars
  <1>21. ASSUME NEW a \in Runners, ReleaseHook(a)
       PROVE  Goal
    BY <1>21 DEF Counting
  <1>22. ASSUME NEW a \in Runners, TemplateHook(a)
       PROVE  Goal
    BY <1>22 DEF TemplateHook, RunTo, journal, cache, store, launches, gcVars
  <1>23. ASSUME NEW a \in Runners, UnpinHook(a)
       PROVE  Goal
    BY <1>23 DEF UnpinHook, StoreFree, Unpinned, RunTo, journal, cache, launches, gcVars
  <1>24. ASSUME NEW a \in Runners, Finish(a)
       PROVE  Goal
    <2>1. /\ rpc' = [rpc EXCEPT ![a] = "idle"] /\ rexec' = [rexec EXCEPT ![a] = None]
          /\ UNCHANGED <<lpc, lset, ref, count, present>> /\ machines' \subseteq machines
          /\ rpc[a] # "idle"
      BY <1>24 DEF Finish, RunDone, RunTo, launches, cache
    <2>2. todo = None
      <3>1. CASE a = Sweep
        <4>1. todo # None /\ todo' = todo \ {rexec[a]}
          BY <1>24, <2>1, <3>1 DEF Finish, Runs
        <4>2. todo' \in SUBSET Execs
          BY <4>1
        <4> QED
          BY <4>2
      <3>2. CASE a # Sweep
        BY <1>24, <3>2 DEF Finish
      <3> QED
        BY <3>1, <3>2
    <2>3. \A x \in Execs : phase'[x] = "ready" => phase[x] = "ready"
      BY <1>24 DEF Finish
    <2>4. \A x \in Execs : InProcess(x)' => InProcess(x)
      BY <2>1, <2>3
    <2> QED
      BY <2>1, <2>2, <2>4
  <1>25. ASSUME NEW h \in Sets, StoreSet(h)
       PROVE  Goal
    BY <1>25 DEF Counting
  <1>26. ASSUME NEW h \in Sets, GcVisit(h)
       PROVE  Goal
    BY <1>26 DEF GcVisit, journal, store, launches, runs
  <1>27. ASSUME NEW h \in Sets, Publish(h)
       PROVE  Goal
    BY <1>27 DEF Publish, StoreFree, journal, cache, launches, runs, gcVars
  <1>28. ASSUME NEW h \in Sets, TemplateCorrupts(h)
       PROVE  Goal
    BY <1>28 DEF TemplateCorrupts, journal, cache, launches, runs, gcVars
  <1>29. CASE GcStart
    BY <1>29 DEF GcStart, CacheFree, Referenced, journal, cache, store, launches, runs
  <1>30. CASE GcEnd
    BY <1>30 DEF GcEnd, journal, cache, store, launches, runs
  <1>31. CASE PublishSwing
    BY <1>31 DEF PublishSwing, journal, cache, launches, runs, gcVars
  <1>32. CASE Reconcile
    <2>1. /\ UNCHANGED <<lpc, lset, ref, machines, rpc, rexec, count, present>>
          /\ todo = None
      BY <1>32 DEF Reconcile, Serving, launches, runs, cache
    <2>2. \A x \in Execs : phase'[x] = "ready" => phase[x] = "ready"
      BY <1>32 DEF Reconcile
    <2> QED
      BY <2>1, <2>2
  <1>33. CASE ReconcileEnds
    BY <1>33 DEF Counting
  <1>34. CASE Crash
    BY <1>34 DEF Counting
  <1>35. CASE UNCHANGED vars
    BY <1>35 DEF vars, journal, cache, store, launches, runs, gcVars
  <1> QED
    BY <1>1, <1>2, <1>3, <1>4, <1>5, <1>6, <1>7, <1>8, <1>9, <1>10, <1>11, <1>12, <1>13,
       <1>14, <1>15, <1>16, <1>17, <1>18, <1>19, <1>20, <1>21, <1>22, <1>23, <1>24, <1>25,
       <1>26, <1>27, <1>28, <1>29, <1>30, <1>31, <1>32, <1>33, <1>34, <1>35
    DEF Next, LaunchStep, RunStep, DiskStep

\* What this process owes is finite, and in the cache.
LEMMA OwedPresent ==
  ASSUME IsFiniteSet(Execs), TypeOK, Runs, LaunchPhase, HeldSetsPresent, NEW h \in Sets
  PROVE  /\ IsFiniteSet(Owed(h))
         /\ h \notin present => Owed(h) = {}
  <1>1. Owed(h) \subseteq Execs
    BY DEF Owed
  <1>2. ASSUME NEW e \in Owed(h) PROVE h \in present
    <2>1. CASE Acquiring(e) /\ lset[e] = h
      BY <2>1 DEF HeldSetsPresent, Owed
    <2>2. CASE ref[e] = h /\ InProcess(e)
      <3>1. phase[e] # "terminated" /\ e \in Execs
        BY <2>2 DEF InProcess, LaunchPhase, Runs, Runners, Owed
      <3> QED
        BY <2>2, <3>1 DEF HeldSetsPresent
    <2> QED
      BY <2>1, <2>2 DEF Owed
  <1> QED
    BY <1>1, <1>2, FS_Subset

\* No refcount file falls below what this process owes.
LEMMA EnoughStep ==
  ASSUME IsFiniteSet(Execs)
  PROVE  OneStop /\ OneStop' /\ TypeOK /\ Runs /\ LaunchPhase /\ HeldSetsPresent
         /\ Enough /\ [Next]_vars => Enough'
  <1> SUFFICES ASSUME OneStop, OneStop', TypeOK, Runs, LaunchPhase, HeldSetsPresent, Enough, [Next]_vars,
                      todo' = None, NEW h0 \in present'
               PROVE  count'[h0] >= Cardinality(Owed(h0)')
    BY DEF Enough
  <1> DEFINE Goal == count'[h0] >= Cardinality(Owed(h0)')
  <1> present \subseteq Sets /\ count \in [Sets -> Nat] /\ TypeOK'
    BY TypeStep DEF TypeOK
  <1> h0 \in Sets /\ count'[h0] \in Nat
    BY DEF TypeOK
  <1> IsFiniteSet(Owed(h0)) /\ (h0 \notin present => Owed(h0) = {})
    BY OwedPresent
  <1> /\ lpc \in [Execs -> LaunchPcs] /\ lset \in [Execs -> Sets \cup {None}]
      /\ rpc \in [Runners -> RunPcs] /\ rexec \in [Runners -> Execs \cup {None}]
      /\ \A a \in Runners : rpc[a] # "idle" => rexec[a] \in Execs
      /\ ref \in [Execs -> Sets \cup {None}]
    BY DEF TypeOK
  <1> Execs \subseteq Runners /\ Killers \subseteq Runners
    BY DEF Runners
  <1>1. CASE Quiet(h0)
    <2>1. Cardinality(Owed(h0)') \in Nat /\ Cardinality(Owed(h0)) \in Nat
          /\ Cardinality(Owed(h0)') <= Cardinality(Owed(h0))
      BY <1>1, CardShrinks DEF Quiet
    <2>2. count[h0] >= Cardinality(Owed(h0)) /\ count[h0] \in Nat /\ count'[h0] = count[h0]
      BY <1>1 DEF Enough, Quiet
    <2> QED
      BY <2>1, <2>2
  <1>2. ASSUME NEW e \in Execs, AcquireSet(e) PROVE Goal
    <2>1. /\ lpc[e] = "acquire" /\ todo = None /\ h0 \in present
          /\ UNCHANGED <<phase, ref, lset, machines, rpc, rexec>>
      BY <1>2 DEF AcquireSet, journal, runs
    <2>2. ref[e] = None
      BY <2>1 DEF LaunchPhase, Before
    <2>3. count[h0] >= Cardinality(Owed(h0)) /\ count[h0] \in Nat
      BY <2>1 DEF Enough
    <2>4. CASE lset[e] = h0
      <3>1. count'[h0] = count[h0] + 1
        BY <1>2, <2>1, <2>4 DEF AcquireSet, Acquired
      <3>2. Owed(h0)' \subseteq Owed(h0) \cup {e}
        BY <1>2, <2>1 DEF AcquireSet, LaunchTo, Owed, Acquiring, InProcess
      <3>3. /\ Cardinality(Owed(h0)) \in Nat /\ Cardinality(Owed(h0)') \in Nat
            /\ Cardinality(Owed(h0)') <= Cardinality(Owed(h0)) + 1
        BY <3>2, CardGains
      <3> QED
        BY <2>3, <3>1, <3>3
    <2>5. CASE lset[e] # h0
      <3>1. count'[h0] = count[h0]
        BY <1>2, <2>1, <2>5 DEF AcquireSet, Acquired
      <3>2. Owed(h0)' \subseteq Owed(h0)
        <4>1. \A x \in Execs : x # e => lpc'[x] = lpc[x]
          BY <1>2 DEF AcquireSet, LaunchTo
        <4>2. \A x \in Execs : x # e => (InProcess(x)' <=> InProcess(x))
          BY <2>1, <4>1 DEF InProcess
        <4>3. e \notin Owed(h0)'
          BY <2>1, <2>2, <2>5 DEF Owed
        <4> QED
          BY <2>1, <4>1, <4>2, <4>3 DEF Owed, Acquiring
      <3> QED
        BY <2>3, <3>1, <3>2, CardShrinks
    <2> QED
      BY <2>4, <2>5
  <1>3. ASSUME NEW e \in Execs, UndoAcquire(e) PROVE Goal
    <2>1. /\ lpc[e] = "undo" /\ todo = None /\ h0 \in present /\ present' = present
          /\ lpc' = [lpc EXCEPT ![e] = "park"]
          /\ UNCHANGED <<phase, ref, lset, machines, rpc, rexec>>
      BY <1>3 DEF UndoAcquire, LaunchTo, journal, runs
    <2>2. ref[e] = None
      BY <2>1 DEF LaunchPhase, Before
    <2>3. count[h0] >= Cardinality(Owed(h0)) /\ count[h0] \in Nat
      BY <2>1 DEF Enough
    <2>4. CASE lset[e] = h0
      <3>1. e \in Owed(h0)
        BY <2>1, <2>4 DEF Owed, Acquiring
      <3>2. Owed(h0)' \subseteq Owed(h0) \ {e}
        BY <2>1, <2>2 DEF Owed, Acquiring, InProcess
      <3>3. /\ Cardinality(Owed(h0)) \in Nat /\ Cardinality(Owed(h0)) > 0
            /\ Cardinality(Owed(h0)') \in Nat
            /\ Cardinality(Owed(h0)') <= Cardinality(Owed(h0)) - 1
        BY <3>1, <3>2, CardLoses
      <3>4. count'[h0] = count[h0] - 1
        BY <1>3, <2>1, <2>3, <2>4, <3>3 DEF UndoAcquire, Released
      <3> QED
        BY <2>3, <3>3, <3>4
    <2>5. CASE lset[e] # h0
      <3>1. count'[h0] = count[h0]
        BY <1>3, <2>1, <2>5 DEF UndoAcquire, Released
      <3>2. Owed(h0)' \subseteq Owed(h0)
        BY <2>1, <2>2 DEF Owed, Acquiring, InProcess
      <3> QED
        BY <2>3, <3>1, <3>2, CardShrinks
    <2> QED
      BY <2>4, <2>5
  <1>4. ASSUME NEW a \in Runners, ReleaseHook(a) PROVE Goal
    <2> DEFINE e == rexec[a]
    <2>1. /\ rpc[a] = "release" /\ todo = None /\ h0 \in present /\ present' = present
          /\ rpc' = [rpc EXCEPT ![a] = "template"]
          /\ UNCHANGED <<phase, ref, lset, lpc, machines, rexec>>
      BY <1>4 DEF ReleaseHook, RunTo, journal, launches
    <2>2. e \in Execs /\ lpc[e] = "idle" /\ a \in Execs \cup Killers /\ phase[e] # "ready"
      BY <2>1 DEF Runs, Runners
    <2>3. count[h0] >= Cardinality(Owed(h0)) /\ count[h0] \in Nat
      BY <2>1 DEF Enough
    <2>4. \A x \in Execs : InProcess(x)' => InProcess(x)
      BY <2>1 DEF InProcess
    <2>5. CASE ref[e] = h0
      <3>1. e \in Owed(h0)
        BY <2>1, <2>2, <2>5 DEF Owed, InProcess
      <3>2. ~InProcess(e)' /\ ~Acquiring(e)'
        <4>1. \A b \in Execs \cup Killers : rexec[b] = e /\ rpc[b] # "idle" => b = a
          BY <2>1, OneRun
        <4> QED
          BY <2>1, <2>2, <4>1 DEF InProcess, Acquiring
      <3>3. Owed(h0)' \subseteq Owed(h0) \ {e}
        BY <2>1, <2>4, <3>2 DEF Owed, Acquiring
      <3>4. /\ Cardinality(Owed(h0)) \in Nat /\ Cardinality(Owed(h0)) > 0
            /\ Cardinality(Owed(h0)') \in Nat
            /\ Cardinality(Owed(h0)') <= Cardinality(Owed(h0)) - 1
        BY <3>1, <3>3, CardLoses
      <3>5. count'[h0] = count[h0] - 1
        BY <1>4, <2>1, <2>3, <2>5, <3>4 DEF ReleaseHook, Released
      <3> QED
        BY <2>3, <3>4, <3>5
    <2>6. CASE ref[e] # h0
      <3>1. count'[h0] = count[h0]
        BY <1>4, <2>1, <2>2, <2>6 DEF ReleaseHook, Released
      <3>2. Owed(h0)' \subseteq Owed(h0)
        BY <2>1, <2>4 DEF Owed, Acquiring
      <3> QED
        BY <2>3, <3>1, <3>2, CardShrinks
    <2> QED
      BY <2>5, <2>6
  <1>5. ASSUME NEW h \in Sets, StoreSet(h) PROVE Goal
    <2>1. /\ UNCHANGED <<phase, ref, lset, lpc, machines, rpc, rexec, todo>>
          /\ h \notin present /\ present' = present \cup {h}
          /\ count' = [count EXCEPT ![h] = 0]
      BY <1>5 DEF StoreSet, journal, launches, runs
    <2>2. Owed(h0)' = Owed(h0)
      BY <2>1 DEF Owed, Acquiring, InProcess
    <2>3. CASE h0 = h
      BY <2>1, <2>2, <2>3, FS_EmptySet
    <2>4. CASE h0 # h
      BY <2>1, <2>2, <2>4 DEF Enough
    <2> QED
      BY <2>3, <2>4
  <1>6. CASE ReconcileEnds
    <2>1. Owed(h0)' = {}
      BY <1>6 DEF ReconcileEnds, launches, runs, journal, Runs, Owed, InProcess, Acquiring
    <2> QED
      BY <2>1, FS_EmptySet
  <1>7. CASE Crash
    <2>1. Owed(h0)' = {}
      BY <1>7 DEF Crash, Owed, InProcess, Acquiring
    <2> QED
      BY <2>1, FS_EmptySet
  <1> QED
    BY <1>1, <1>2, <1>3, <1>4, <1>5, <1>6, <1>7, QuietOrCounting DEF Counting

\* The collector removes nothing that is held.
LEMMA KeptStep ==
  ASSUME IsFiniteSet(Execs)
  PROVE  OneStop /\ OneStop' /\ TypeOK /\ Runs /\ LaunchPhase /\ Kept /\ Enough /\ [Next]_vars => Kept'
  <1> SUFFICES ASSUME OneStop, OneStop', TypeOK, Runs, LaunchPhase, Kept, Enough, [Next]_vars
               PROVE  Kept'
    OBVIOUS
  <1> /\ lpc \in [Execs -> LaunchPcs] /\ lset \in [Execs -> Sets \cup {None}]
      /\ phase \in [Execs -> Phases] /\ ref \in [Execs -> Sets \cup {None}]
      /\ present \subseteq Sets /\ count \in [Sets -> Nat]
      /\ \A a \in Runners : rpc[a] # "idle" => rexec[a] \in Execs
      /\ \A e \in Execs : lpc[e] \notin {"idle", "park"} => lset[e] \in Sets
    BY DEF TypeOK
  <1>0. \A e \in Execs : Acquiring(e) => lset[e] \in present /\ count[lset[e]] > 0
    <2> SUFFICES ASSUME NEW e \in Execs, Acquiring(e)
                 PROVE  lset[e] \in present /\ count[lset[e]] > 0
      OBVIOUS
    <2>1. lset[e] \in present /\ lset[e] \in Sets
      BY DEF Kept, HeldSetsPresent
    <2>2. todo = None
      BY DEF Runs, Acquiring
    <2>3. e \in Owed(lset[e]) /\ IsFiniteSet(Owed(lset[e]))
      BY <2>1, OwedPresent DEF Owed, Kept
    <2>4. count[lset[e]] >= Cardinality(Owed(lset[e])) /\ count[lset[e]] \in Nat
      BY <2>1, <2>2 DEF Enough
    <2>5. Cardinality(Owed(lset[e])) \in Nat /\ Cardinality(Owed(lset[e])) > 0
      BY <2>3, CardHas
    <2> QED
      BY <2>1, <2>4, <2>5
  <1> USE DEF Kept, HeldSetsPresent, Acquiring
  <1>1. ASSUME NEW e \in Execs, AcquireSet(e)
       PROVE  Kept'
    <2>1. gc' = None /\ present' = present /\ UNCHANGED <<phase, ref, lset>>
      BY <1>1 DEF AcquireSet, CacheFree, gcVars, journal
    <2>2. lset[e] \in present \/ lpc' = [lpc EXCEPT ![e] = "park"]
      BY <1>1 DEF AcquireSet, LaunchTo
    <2>3. \A x \in Execs : x # e => lpc'[x] = lpc[x]
      BY <1>1 DEF AcquireSet, LaunchTo
    <2> QED
      BY <2>1, <2>2, <2>3
  <1>2. ASSUME NEW e \in Execs, CreateOverlay(e)
       PROVE  Kept'
    BY <1>2 DEF CreateOverlay, LaunchTo, journal, cache, store, runs, gcVars
  <1>3. ASSUME NEW e \in Execs, Provision(e)
       PROVE  Kept'
    BY <1>3 DEF Provision, LaunchTo, journal, cache, store, runs, gcVars
  <1>4. ASSUME NEW e \in Execs, PlanFails(e)
       PROVE  Kept'
    BY <1>4 DEF PlanFails, LaunchTo, journal, cache, store, runs, gcVars
  <1>5. ASSUME NEW e \in Execs, Validate(e)
       PROVE  Kept'
    BY <1>5 DEF Validate, LaunchTo, journal, cache, store, runs, gcVars
  <1>6. ASSUME NEW e \in Execs, ResolveTemplate(e)
       PROVE  Kept'
    BY <1>6 DEF ResolveTemplate, LaunchTo, journal, cache, store, runs, gcVars
  <1>7. ASSUME NEW e \in Execs, PinTemplate(e)
       PROVE  Kept'
    BY <1>7 DEF PinTemplate, StoreFree, LaunchTo, journal, cache, runs, gcVars
  <1>8. ASSUME NEW e \in Execs, UndoAcquire(e)
       PROVE  Kept'
    BY <1>8 DEF UndoAcquire, CacheFree, Released, LaunchTo, journal, store, runs, gcVars
  <1>9. ASSUME NEW e \in Execs, Commit(e)
       PROVE  Kept'
    <2>1. lpc[e] = "commit" /\ lset[e] \in present /\ count[lset[e]] > 0
      BY <1>9, <1>0 DEF Commit
    <2>2. /\ ref' = [ref EXCEPT ![e] = lset[e]] /\ lpc' = [lpc EXCEPT ![e] = "bind"]
          /\ phase' = [phase EXCEPT ![e] = "booting"]
          /\ UNCHANGED <<present, count, lset, gc, gcRefs>>
      BY <1>9 DEF Commit, LaunchTo, cache, gcVars
    <2> QED
      BY <2>1, <2>2
  <1>10. ASSUME NEW e \in Execs, JournalFails(e)
       PROVE  Kept'
    BY <1>10 DEF JournalFails, LaunchTo, journal, cache, store, runs, gcVars
  <1>11. ASSUME NEW e \in Execs, Bind(e)
       PROVE  Kept'
    BY <1>11 DEF Bind, LaunchTo, cache, store, runs, gcVars
  <1>12. ASSUME NEW e \in Execs, Booted(e)
       PROVE  Kept'
    BY <1>12 DEF Booted, LaunchTo, cache, store, runs, gcVars, LaunchPhase
  <1>13. ASSUME NEW e \in Execs, BootFails(e)
       PROVE  Kept'
    BY <1>13 DEF BootFails, LaunchTo, cache, store, runs, gcVars
  <1>14. ASSUME NEW e \in Execs, Park(e)
       PROVE  Kept'
    BY <1>14 DEF Park, LaunchTo, RunTo, journal, cache, store, gcVars
  <1>15. ASSUME NEW e \in Execs, ReconcileRecord(e)
       PROVE  Kept'
    BY <1>15 DEF ReconcileRecord, Sweep, RunTo, journal, cache, store, launches, gcVars
  <1>16. ASSUME NEW e \in Execs, NEW h \in Sets, Launch(e, h)
       PROVE  Kept'
    BY <1>16 DEF Launch, Serving, LaunchTo, cache, store, runs, gcVars, LaunchPhase
  <1>17. ASSUME NEW k \in Killers, NEW e \in Execs, Kill(k, e)
       PROVE  Kept'
    BY <1>17 DEF Kill, Serving, RunTo, cache, store, launches, gcVars
  <1>18. ASSUME NEW a \in Runners, Stopped(a)
       PROVE  Kept'
    BY <1>18 DEF Stopped, RunTo, journal, cache, store, launches, gcVars
  <1>19. ASSUME NEW a \in Runners, NetworkHook(a)
       PROVE  Kept'
    BY <1>19 DEF NetworkHook, RunTo, journal, cache, store, launches, gcVars
  <1>20. ASSUME NEW a \in Runners, ArtifactHook(a)
       PROVE  Kept'
    BY <1>20 DEF ArtifactHook, RunTo, journal, cache, store, launches, gcVars
  <1>21. ASSUME NEW a \in Runners, ReleaseHook(a)
       PROVE  Kept'
    BY <1>21 DEF ReleaseHook, CacheFree, Released, RunTo, journal, store, launches, gcVars
  <1>22. ASSUME NEW a \in Runners, TemplateHook(a)
       PROVE  Kept'
    BY <1>22 DEF TemplateHook, RunTo, journal, cache, store, launches, gcVars
  <1>23. ASSUME NEW a \in Runners, UnpinHook(a)
       PROVE  Kept'
    BY <1>23 DEF UnpinHook, StoreFree, Unpinned, RunTo, journal, cache, launches, gcVars
  <1>24. ASSUME NEW a \in Runners, Finish(a)
       PROVE  Kept'
    <2>1. UNCHANGED <<present, count, lset, lpc, ref, gc, gcRefs>>
      BY <1>24 DEF Finish, cache, gcVars, launches
    <2>2. \A e \in Execs : phase'[e] # "terminated" => phase[e] # "terminated"
      <3>1. rexec[a] \in Execs /\ phase[rexec[a]] # "terminated"
        BY <1>24 DEF Finish, Runs, Runners
      <3> QED
        BY <1>24, <3>1 DEF Finish
    <2> QED
      BY <2>1, <2>2
  <1>25. ASSUME NEW h \in Sets, StoreSet(h)
       PROVE  Kept'
    BY <1>25 DEF StoreSet, CacheFree, journal, store, launches, runs, gcVars
  <1>26. ASSUME NEW h \in Sets, GcVisit(h)
       PROVE  Kept'
    BY <1>26, <1>0 DEF GcVisit, journal, store, launches, runs
  <1>27. ASSUME NEW h \in Sets, Publish(h)
       PROVE  Kept'
    BY <1>27 DEF Publish, StoreFree, journal, cache, launches, runs, gcVars
  <1>28. ASSUME NEW h \in Sets, TemplateCorrupts(h)
       PROVE  Kept'
    BY <1>28 DEF TemplateCorrupts, journal, cache, launches, runs, gcVars
  <1>29. CASE GcStart
    BY <1>29 DEF GcStart, CacheFree, Referenced, journal, cache, store, launches, runs
  <1>30. CASE GcEnd
    BY <1>30 DEF GcEnd, journal, cache, store, launches, runs
  <1>31. CASE PublishSwing
    BY <1>31 DEF PublishSwing, journal, cache, launches, runs, gcVars
  <1>32. CASE Reconcile
    BY <1>32 DEF Reconcile, Serving, Idle, Open, cache, store, launches, runs, gcVars,
        Runners, Terminal, Sweep
  <1>33. CASE ReconcileEnds
    BY <1>33 DEF ReconcileEnds, Sweep, journal, cache, store, launches, runs, gcVars
  <1>34. CASE Crash
    BY <1>34 DEF Crash, Runners, journal, cache, store, Sweep
  <1>35. CASE UNCHANGED vars
    BY <1>35 DEF vars, journal, cache, store, launches, runs, gcVars
  <1> QED
    BY <1>1, <1>2, <1>3, <1>4, <1>5, <1>6, <1>7, <1>8, <1>9, <1>10, <1>11, <1>12, <1>13,
       <1>14, <1>15, <1>16, <1>17, <1>18, <1>19, <1>20, <1>21, <1>22, <1>23, <1>24, <1>25,
       <1>26, <1>27, <1>28, <1>29, <1>30, <1>31, <1>32, <1>33, <1>34, <1>35
    DEF Next, LaunchStep, RunStep, DiskStep

\* Once track is lost, it stays lost.
LEMMA StaysUntracked == TypeOK /\ [Next]_vars => (untracked => untracked')
  <1> SUFFICES ASSUME TypeOK, [Next]_vars, untracked
               PROVE  untracked'
    OBVIOUS
  <1>1. ASSUME NEW e \in Execs, AcquireSet(e)
       PROVE  untracked'
    BY <1>1 DEF AcquireSet
  <1>2. ASSUME NEW e \in Execs, CreateOverlay(e)
       PROVE  untracked'
    BY <1>2 DEF CreateOverlay
  <1>3. ASSUME NEW e \in Execs, Provision(e)
       PROVE  untracked'
    BY <1>3 DEF Provision
  <1>4. ASSUME NEW e \in Execs, PlanFails(e)
       PROVE  untracked'
    BY <1>4 DEF PlanFails
  <1>5. ASSUME NEW e \in Execs, Validate(e)
       PROVE  untracked'
    BY <1>5 DEF Validate
  <1>6. ASSUME NEW e \in Execs, ResolveTemplate(e)
       PROVE  untracked'
    BY <1>6 DEF ResolveTemplate
  <1>7. ASSUME NEW e \in Execs, PinTemplate(e)
       PROVE  untracked'
    BY <1>7 DEF PinTemplate
  <1>8. ASSUME NEW e \in Execs, UndoAcquire(e)
       PROVE  untracked'
    BY <1>8 DEF UndoAcquire
  <1>9. ASSUME NEW e \in Execs, Commit(e)
       PROVE  untracked'
    BY <1>9 DEF Commit
  <1>10. ASSUME NEW e \in Execs, JournalFails(e)
       PROVE  untracked'
    BY <1>10 DEF JournalFails
  <1>11. ASSUME NEW e \in Execs, Bind(e)
       PROVE  untracked'
    BY <1>11 DEF Bind
  <1>12. ASSUME NEW e \in Execs, Booted(e)
       PROVE  untracked'
    BY <1>12 DEF Booted
  <1>13. ASSUME NEW e \in Execs, BootFails(e)
       PROVE  untracked'
    BY <1>13 DEF BootFails
  <1>14. ASSUME NEW e \in Execs, Park(e)
       PROVE  untracked'
    BY <1>14 DEF Park
  <1>15. ASSUME NEW e \in Execs, ReconcileRecord(e)
       PROVE  untracked'
    BY <1>15 DEF ReconcileRecord
  <1>16. ASSUME NEW e \in Execs, NEW h \in Sets, Launch(e, h)
       PROVE  untracked'
    BY <1>16 DEF Launch
  <1>17. ASSUME NEW k \in Killers, NEW e \in Execs, Kill(k, e)
       PROVE  untracked'
    BY <1>17 DEF Kill
  <1>18. ASSUME NEW a \in Runners, Stopped(a)
       PROVE  untracked'
    BY <1>18 DEF Stopped
  <1>19. ASSUME NEW a \in Runners, NetworkHook(a)
       PROVE  untracked'
    BY <1>19 DEF NetworkHook
  <1>20. ASSUME NEW a \in Runners, ArtifactHook(a)
       PROVE  untracked'
    BY <1>20 DEF ArtifactHook
  <1>21. ASSUME NEW a \in Runners, ReleaseHook(a)
       PROVE  untracked'
    BY <1>21 DEF ReleaseHook
  <1>22. ASSUME NEW a \in Runners, TemplateHook(a)
       PROVE  untracked'
    BY <1>22 DEF TemplateHook
  <1>23. ASSUME NEW a \in Runners, UnpinHook(a)
       PROVE  untracked'
    BY <1>23 DEF UnpinHook
  <1>24. ASSUME NEW a \in Runners, Finish(a)
       PROVE  untracked'
    BY <1>24 DEF Finish
  <1>25. ASSUME NEW h \in Sets, StoreSet(h)
       PROVE  untracked'
    BY <1>25 DEF StoreSet
  <1>26. ASSUME NEW h \in Sets, GcVisit(h)
       PROVE  untracked'
    BY <1>26 DEF GcVisit
  <1>27. ASSUME NEW h \in Sets, Publish(h)
       PROVE  untracked'
    BY <1>27 DEF Publish
  <1>28. ASSUME NEW h \in Sets, TemplateCorrupts(h)
       PROVE  untracked'
    BY <1>28 DEF TemplateCorrupts
  <1>29. CASE GcStart
    BY <1>29 DEF GcStart
  <1>30. CASE GcEnd
    BY <1>30 DEF GcEnd
  <1>31. CASE PublishSwing
    BY <1>31 DEF PublishSwing
  <1>32. CASE Reconcile
    BY <1>32 DEF Reconcile
  <1>33. CASE ReconcileEnds
    BY <1>33 DEF ReconcileEnds
  <1>34. CASE Crash
    BY <1>34 DEF Crash
  <1>35. CASE UNCHANGED vars
    BY <1>35 DEF vars, journal, cache, store, launches, runs, gcVars
  <1> QED
    BY <1>1, <1>2, <1>3, <1>4, <1>5, <1>6, <1>7, <1>8, <1>9, <1>10, <1>11, <1>12, <1>13,
       <1>14, <1>15, <1>16, <1>17, <1>18, <1>19, <1>20, <1>21, <1>22, <1>23, <1>24, <1>25,
       <1>26, <1>27, <1>28, <1>29, <1>30, <1>31, <1>32, <1>33, <1>34, <1>35
    DEF Next, LaunchStep, RunStep, DiskStep

\* Who is past the hooks, or waits for them, is not terminated.
LEMMA RunOpen ==
  ASSUME TypeOK, Runs, NEW a \in Runners, rpc[a] # "idle"
  PROVE  /\ rexec[a] \in Execs /\ lpc[rexec[a]] = "idle"
         /\ phase[rexec[a]] \notin Terminal \cup {"none"}
         /\ a # Sweep => phase[rexec[a]] # "reconciling"
  BY DEF TypeOK, Runs, Runners, Terminal

\* The steps that take or give back a reference, or lose track of one.
Taking ==
    \/ \E e \in Execs : AcquireSet(e) \/ UndoAcquire(e) \/ JournalFails(e)
    \/ \E a \in Runners : ReleaseHook(a)
    \/ \E h \in Sets : StoreSet(h)
    \/ Crash

\* The others change no refcount and no holder.
Steady(h) ==
    /\ count' = count /\ present' \subseteq present /\ untracked' = untracked
    /\ Holders(h)' = Holders(h)

\* Every step is of one of the two sorts.  The hook that looks at the refcount
\* without the mutex finds it positive, so that it does release.
LEMMA SteadyOrTaking ==
  ASSUME OneStop, OneStop', IsFiniteSet(Execs), TypeOK, Runs, LaunchPhase, HeldSetsPresent,
         CountIsExact, ~untracked, [Next]_vars, NEW h0 \in Sets
  PROVE  Steady(h0) \/ Taking
  <1> DEFINE Goal == Steady(h0) \/ Taking
  <1> /\ phase \in [Execs -> Phases] /\ ref \in [Execs -> Sets \cup {None}]
      /\ lpc \in [Execs -> LaunchPcs] /\ lset \in [Execs -> Sets \cup {None}]
      /\ rpc \in [Runners -> RunPcs] /\ rexec \in [Runners -> Execs \cup {None}]
      /\ \A a \in Runners : rpc[a] # "idle" =>
             /\ rexec[a] \in Execs /\ lpc[rexec[a]] = "idle"
             /\ phase[rexec[a]] \notin Terminal \cup {"none"}
    BY RunOpen DEF TypeOK
  <1> Execs \subseteq Runners /\ Killers \subseteq Runners /\ Sweep \in Runners
    BY DEF Runners
  <1> USE DEF Steady, Holders, RunPast, Acquiring
  <1>1. ASSUME NEW e \in Execs, AcquireSet(e)
       PROVE  Goal
    BY <1>1 DEF Taking
  <1>2. ASSUME NEW e \in Execs, CreateOverlay(e)
       PROVE  Goal
    BY <1>2 DEF CreateOverlay, LaunchTo, journal, cache, store, runs, gcVars
  <1>3. ASSUME NEW e \in Execs, Provision(e)
       PROVE  Goal
    BY <1>3 DEF Provision, LaunchTo, journal, cache, store, runs, gcVars
  <1>4. ASSUME NEW e \in Execs, PlanFails(e)
       PROVE  Goal
    BY <1>4 DEF PlanFails, LaunchTo, journal, cache, store, runs, gcVars
  <1>5. ASSUME NEW e \in Execs, Validate(e)
       PROVE  Goal
    BY <1>5 DEF Validate, LaunchTo, journal, cache, store, runs, gcVars
  <1>6. ASSUME NEW e \in Execs, ResolveTemplate(e)
       PROVE  Goal
    BY <1>6 DEF ResolveTemplate, LaunchTo, journal, cache, store, runs, gcVars
  <1>7. ASSUME NEW e \in Execs, PinTemplate(e)
       PROVE  Goal
    BY <1>7 DEF PinTemplate, StoreFree, LaunchTo, journal, cache, runs, gcVars
  <1>8. ASSUME NEW e \in Execs, UndoAcquire(e)
       PROVE  Goal
    BY <1>8 DEF Taking
  <1>9. ASSUME NEW e \in Execs, Commit(e)
       PROVE  Goal
    BY <1>9 DEF Commit, LaunchTo, cache, store, runs, gcVars, LaunchPhase, Before
  <1>10. ASSUME NEW e \in Execs, JournalFails(e)
       PROVE  Goal
    BY <1>10 DEF Taking
  <1>11. ASSUME NEW e \in Execs, Bind(e)
       PROVE  Goal
    BY <1>11 DEF Bind, LaunchTo, cache, store, runs, gcVars
  <1>12. ASSUME NEW e \in Execs, Booted(e)
       PROVE  Goal
    BY <1>12 DEF Booted, LaunchTo, cache, store, runs, gcVars, LaunchPhase, Before
  <1>13. ASSUME NEW e \in Execs, BootFails(e)
       PROVE  Goal
    BY <1>13 DEF BootFails, LaunchTo, cache, store, runs, gcVars
  <1>14. ASSUME NEW e \in Execs, Park(e)
       PROVE  Goal
    <2>1. /\ lpc[e] = "park"
          /\ lpc' = [lpc EXCEPT ![e] = "idle"] /\ rpc' = [rpc EXCEPT ![e] = "network"]
          /\ rexec' = [rexec EXCEPT ![e] = e]
          /\ UNCHANGED <<lset, ref, phase, count, present, untracked>>
      BY <1>14 DEF Park, LaunchTo, RunTo, journal, cache
    <2>2. rpc[e] = "idle"
      BY <2>1 DEF Runs
    <2>3. \A x \in Execs : RunPast(x, {"template", "unpin", "terminate"})'
                              <=> RunPast(x, {"template", "unpin", "terminate"})
      BY <2>1, <2>2
    <2> QED
      BY <2>1, <2>3
  <1>15. ASSUME NEW e \in Execs, ReconcileRecord(e)
       PROVE  Goal
    BY <1>15 DEF ReconcileRecord, RunTo, journal, cache, store, launches, gcVars
  <1>16. ASSUME NEW e \in Execs, NEW h \in Sets, Launch(e, h)
       PROVE  Goal
    BY <1>16 DEF Launch, Serving, LaunchTo, cache, store, runs, gcVars, LaunchPhase, Before
  <1>17. ASSUME NEW k \in Killers, NEW e \in Execs, Kill(k, e)
       PROVE  Goal
    <2>1. /\ phase[e] = "ready" /\ rpc[k] = "idle"
          /\ phase' = [phase EXCEPT ![e] = "terminating"]
          /\ rpc' = [rpc EXCEPT ![k] = "stop"] /\ rexec' = [rexec EXCEPT ![k] = e]
          /\ UNCHANGED <<lpc, lset, ref, count, present, untracked>>
      BY <1>17, KillFindsReady DEF Kill, RunTo, launches, cache
    <2>2. \A x \in Execs : RunPast(x, {"template", "unpin", "terminate"})'
                              <=> RunPast(x, {"template", "unpin", "terminate"})
      BY <2>1
    <2> QED
      BY <2>1, <2>2
  <1>18. ASSUME NEW a \in Runners, Stopped(a)
       PROVE  Goal
    BY <1>18 DEF Stopped, RunTo, journal, cache, store, launches, gcVars
  <1>19. ASSUME NEW a \in Runners, NetworkHook(a)
       PROVE  Goal
    BY <1>19 DEF NetworkHook, RunTo, journal, cache, store, launches, gcVars
  <1>20. ASSUME NEW a \in Runners, ArtifactHook(a)
       PROVE  Goal
    <2>1. /\ rpc[a] = "artifact"
          /\ rpc' = [rpc EXCEPT ![a] = IF ref[rexec[a]] \in present /\ count[ref[rexec[a]]] > 0
                                       THEN "release" ELSE "template"]
          /\ UNCHANGED <<lpc, lset, ref, phase, rexec, count, present, untracked>>
      BY <1>20 DEF ArtifactHook, RunTo, launches, cache, journal
    <2>2. \A b \in Runners : rpc[b] # "idle" /\ rexec[b] = rexec[a] => b = a
      BY <2>1, OneRun
    <2>3. CASE ref[rexec[a]] \in Sets
      <3> DEFINE h == ref[rexec[a]]
      <3>1. h \in present
        BY <2>1, <2>3 DEF HeldSetsPresent, Terminal
      <3>2. rexec[a] \in Holders(h)
        BY <2>1, <2>2 DEF Terminal
      <3>3. Holders(h) \subseteq Execs
        OBVIOUS
      <3>4. Cardinality(Holders(h)) \in Nat /\ Cardinality(Holders(h)) > 0
        <4>1. IsFiniteSet(Holders(h))
          BY <3>3, FS_Subset
        <4> QED
          BY <3>2, <4>1, CardHas
      <3>5. count[h] > 0
        BY <3>1, <3>4 DEF CountIsExact
      <3>6. rpc' = [rpc EXCEPT ![a] = "release"]
        BY <2>1, <3>1, <3>5
      <3>7. \A x \in Execs : RunPast(x, {"template", "unpin", "terminate"})'
                                <=> RunPast(x, {"template", "unpin", "terminate"})
        BY <2>1, <3>6
      <3> QED
        BY <2>1, <3>7
    <2>4. CASE ref[rexec[a]] \notin Sets
      <3>1. \A x \in Execs : x # rexec[a] =>
               (RunPast(x, {"template", "unpin", "terminate"})'
                  <=> RunPast(x, {"template", "unpin", "terminate"}))
        BY <2>1
      <3> QED
        BY <2>1, <2>4, <3>1
    <2> QED
      BY <2>3, <2>4
  <1>21. ASSUME NEW a \in Runners, ReleaseHook(a)
       PROVE  Goal
    BY <1>21 DEF Taking
  <1>22. ASSUME NEW a \in Runners, TemplateHook(a)
       PROVE  Goal
    BY <1>22 DEF TemplateHook, RunTo, journal, cache, store, launches, gcVars
  <1>23. ASSUME NEW a \in Runners, UnpinHook(a)
       PROVE  Goal
    BY <1>23 DEF UnpinHook, StoreFree, Unpinned, RunTo, journal, cache, launches, gcVars
  <1>24. ASSUME NEW a \in Runners, Finish(a)
       PROVE  Goal
    <2> DEFINE e == rexec[a]
    <2>1. /\ rpc[a] \in {"terminate", "quarantine"}
          /\ rpc' = [rpc EXCEPT ![a] = "idle"] /\ rexec' = [rexec EXCEPT ![a] = None]
          /\ UNCHANGED <<lpc, lset, ref, count, present, untracked>>
      BY <1>24 DEF Finish, RunDone, RunTo, launches, cache
    <2>2. phase' = [phase EXCEPT ![e] = IF rpc[a] = "terminate"
                                        THEN "terminated" ELSE "quarantined"]
      BY <1>24, <2>1, RunOpen DEF Finish
    <2>3. \A b \in Runners : rpc[b] # "idle" /\ rexec[b] = e => b = a
      BY <2>1, OneRun
    <2>4. \A x \in Execs : x # e =>
             /\ RunPast(x, {"template", "unpin", "terminate"})' <=> RunPast(x, {"template", "unpin", "terminate"})
             /\ phase'[x] = phase[x]
      BY <2>1, <2>2
    <2>5. ~RunPast(e, {"template", "unpin", "terminate"})'
      BY <2>1, <2>3
    <2>6. RunPast(e, {"template", "unpin", "terminate"}) <=> rpc[a] = "terminate"
      BY <2>1, <2>3
    <2>7. e \in Execs /\ lpc[e] = "idle" /\ phase[e] # "terminated"
          /\ phase'[e] = IF rpc[a] = "terminate" THEN "terminated" ELSE "quarantined"
      BY <2>1, <2>2 DEF Terminal
    <2> HIDE DEF e
    <2> QED
      BY <2>1, <2>4, <2>5, <2>6, <2>7
  <1>25. ASSUME NEW h \in Sets, StoreSet(h)
       PROVE  Goal
    BY <1>25 DEF Taking
  <1>26. ASSUME NEW h \in Sets, GcVisit(h)
       PROVE  Goal
    BY <1>26 DEF GcVisit, journal, store, launches, runs
  <1>27. ASSUME NEW h \in Sets, Publish(h)
       PROVE  Goal
    BY <1>27 DEF Publish, StoreFree, journal, cache, launches, runs, gcVars
  <1>28. ASSUME NEW h \in Sets, TemplateCorrupts(h)
       PROVE  Goal
    BY <1>28 DEF TemplateCorrupts, journal, cache, launches, runs, gcVars
  <1>29. CASE GcStart
    BY <1>29 DEF GcStart, CacheFree, Referenced, journal, cache, store, launches, runs
  <1>30. CASE GcEnd
    BY <1>30 DEF GcEnd, journal, cache, store, launches, runs
  <1>31. CASE PublishSwing
    BY <1>31 DEF PublishSwing, journal, cache, launches, runs, gcVars
  <1>32. CASE Reconcile
    BY <1>32 DEF Reconcile, Serving, Idle, Open, cache, store, launches, runs, gcVars,
        Terminal
  <1>33. CASE ReconcileEnds
    BY <1>33 DEF ReconcileEnds, journal, cache, store, launches, runs, gcVars
  <1>34. CASE Crash
    BY <1>34 DEF Taking
  <1>35. CASE UNCHANGED vars
    BY <1>35 DEF vars, journal, cache, store, launches, runs, gcVars
  <1> QED
    BY <1>1, <1>2, <1>3, <1>4, <1>5, <1>6, <1>7, <1>8, <1>9, <1>10, <1>11, <1>12, <1>13,
       <1>14, <1>15, <1>16, <1>17, <1>18, <1>19, <1>20, <1>21, <1>22, <1>23, <1>24, <1>25,
       <1>26, <1>27, <1>28, <1>29, <1>30, <1>31, <1>32, <1>33, <1>34, <1>35
    DEF Next, LaunchStep, RunStep, DiskStep

\* What is held is finite, and in the cache.
LEMMA HoldersPresent ==
  ASSUME IsFiniteSet(Execs), TypeOK, HeldSetsPresent, NEW h \in Sets
  PROVE  /\ IsFiniteSet(Holders(h)) /\ Cardinality(Holders(h)) \in Nat
         /\ h \notin present => Holders(h) = {}
  <1>1. Holders(h) \subseteq Execs
    BY DEF Holders
  <1>2. IsFiniteSet(Holders(h)) /\ Cardinality(Holders(h)) \in Nat
    BY <1>1, FS_Subset, FS_CardinalityType
  <1>3. ASSUME NEW e \in Holders(h) PROVE h \in present
    BY DEF Holders, HeldSetsPresent
  <1> QED
    BY <1>2, <1>3

\* Each acquire is released once.
LEMMA CountStep ==
  ASSUME IsFiniteSet(Execs)
  PROVE  OneStop /\ OneStop' /\ TypeOK /\ Runs /\ LaunchPhase /\ HeldSetsPresent
         /\ CountIsExact /\ [Next]_vars => CountIsExact'
  <1> SUFFICES ASSUME OneStop, OneStop', TypeOK, Runs, LaunchPhase, HeldSetsPresent,
                      CountIsExact, [Next]_vars, ~untracked', NEW h0 \in present'
               PROVE  count'[h0] = Cardinality(Holders(h0)')
    BY DEF CountIsExact
  <1> DEFINE Goal == count'[h0] = Cardinality(Holders(h0)')
  <1> present \subseteq Sets /\ count \in [Sets -> Nat] /\ TypeOK'
    BY TypeStep DEF TypeOK
  <1> h0 \in Sets
    BY DEF TypeOK
  <1>0. ~untracked
    <2>1. untracked => untracked'
      <3>1. TypeOK /\ [Next]_vars
        OBVIOUS
      <3> QED
        BY <3>1, StaysUntracked
    <2> QED
      BY <2>1
  <1> /\ IsFiniteSet(Holders(h0)) /\ Cardinality(Holders(h0)) \in Nat
      /\ h0 \notin present => Holders(h0) = {}
    BY HoldersPresent
  <1> /\ lpc \in [Execs -> LaunchPcs] /\ lset \in [Execs -> Sets \cup {None}]
      /\ rpc \in [Runners -> RunPcs] /\ rexec \in [Runners -> Execs \cup {None}]
      /\ ref \in [Execs -> Sets \cup {None}]
    BY DEF TypeOK
  <1>1. CASE Steady(h0)
    BY <1>0, <1>1 DEF Steady, CountIsExact
  <1>2. ASSUME NEW e \in Execs, AcquireSet(e) PROVE Goal
    <2>1. /\ lpc[e] = "acquire" /\ h0 \in present /\ ref[e] = None
          /\ UNCHANGED <<phase, ref, lset, rpc, rexec>>
          /\ \A x \in Execs : x # e => lpc'[x] = lpc[x]
      BY <1>2 DEF AcquireSet, LaunchTo, journal, runs, LaunchPhase, Before
    <2>2. count[h0] = Cardinality(Holders(h0)) /\ e \notin Holders(h0)
      BY <1>0, <2>1 DEF CountIsExact, Holders, Acquiring
    <2>3. \A x \in Execs : x # e => (x \in Holders(h0)' <=> x \in Holders(h0))
      BY <2>1 DEF Holders, Acquiring, RunPast
    <2>4. CASE lset[e] = h0
      <3>1. count' = [count EXCEPT ![h0] = @ + 1] /\ lpc' = [lpc EXCEPT ![e] = "overlay"]
        BY <1>2, <2>1, <2>4 DEF AcquireSet, Acquired, LaunchTo
      <3>2. e \in Holders(h0)'
        BY <2>1, <2>4, <3>1 DEF Holders, Acquiring
      <3>3. Holders(h0)' = Holders(h0) \cup {e}
        <4>1. Holders(h0)' \subseteq Execs /\ Holders(h0) \subseteq Execs
          BY DEF Holders
        <4> QED
          BY <2>3, <3>2, <4>1
      <3>4. Cardinality(Holders(h0)') = Cardinality(Holders(h0)) + 1
        BY <2>2, <3>3, CardGains
      <3> QED
        BY <2>2, <3>1, <3>4
    <2>5. CASE lset[e] # h0
      <3>1. count'[h0] = count[h0]
        BY <1>2, <2>5 DEF AcquireSet, Acquired
      <3>2. e \notin Holders(h0)'
        BY <2>1, <2>5 DEF Holders
      <3>3. Holders(h0)' = Holders(h0)
        <4>1. Holders(h0)' \subseteq Execs /\ Holders(h0) \subseteq Execs
          BY DEF Holders
        <4> QED
          BY <2>2, <2>3, <3>2, <4>1, SMTT(30)
      <3> QED
        BY <2>2, <3>1, <3>3
    <2> QED
      BY <2>4, <2>5
  <1>3. ASSUME NEW e \in Execs, UndoAcquire(e) PROVE Goal
    <2>1. /\ lpc[e] = "undo" /\ h0 \in present /\ ref[e] = None /\ present' = present
          /\ lpc' = [lpc EXCEPT ![e] = "park"]
          /\ UNCHANGED <<phase, ref, lset, rpc, rexec>>
      BY <1>3 DEF UndoAcquire, LaunchTo, journal, runs, LaunchPhase, Before
    <2>2. count[h0] = Cardinality(Holders(h0)) /\ e \notin Holders(h0)'
      BY <1>0, <2>1 DEF CountIsExact, Holders, Acquiring
    <2>3. Holders(h0)' = Holders(h0) \ {e}
      BY <2>1 DEF Holders, Acquiring, RunPast
    <2>4. CASE lset[e] = h0
      <3>1. e \in Holders(h0)
        BY <2>1, <2>4 DEF Holders, Acquiring
      <3>2. Cardinality(Holders(h0)) > 0
            /\ Cardinality(Holders(h0)') = Cardinality(Holders(h0)) - 1
        BY <2>3, <3>1, CardLoses
      <3>3. count'[h0] = count[h0] - 1
        BY <1>3, <2>1, <2>2, <2>4, <3>2 DEF UndoAcquire, Released
      <3> QED
        BY <2>2, <3>2, <3>3
    <2>5. CASE lset[e] # h0
      <3>1. count'[h0] = count[h0] /\ e \notin Holders(h0)
        BY <1>3, <2>1, <2>5 DEF UndoAcquire, Released, Holders
      <3>2. Holders(h0) \ {e} = Holders(h0)
        BY <3>1
      <3> QED
        BY <2>2, <2>3, <3>1, <3>2
    <2> QED
      BY <2>4, <2>5
  <1>4. ASSUME NEW a \in Runners, ReleaseHook(a) PROVE Goal
    <2> DEFINE e == rexec[a]
    <2>1. /\ rpc[a] = "release" /\ h0 \in present /\ present' = present
          /\ rpc' = [rpc EXCEPT ![a] = "template"]
          /\ UNCHANGED <<phase, ref, lset, lpc, rexec>>
      BY <1>4 DEF ReleaseHook, RunTo, journal, launches
    <2>2. e \in Execs /\ lpc[e] = "idle" /\ phase[e] # "terminated"
      BY <2>1, RunOpen DEF Terminal
    <2>3. \A b \in Runners : rpc[b] # "idle" /\ rexec[b] = e => b = a
      BY <2>1, OneRun
    <2>4. count[h0] = Cardinality(Holders(h0))
      BY <1>0, <2>1 DEF CountIsExact
    <2>5. \A x \in Execs : x # e => (x \in Holders(h0)' <=> x \in Holders(h0))
      BY <2>1 DEF Holders, Acquiring, RunPast
    <2>6. e \notin Holders(h0)'
      BY <2>1, <2>2 DEF Holders, Acquiring, RunPast
    <2>7. Holders(h0)' \subseteq Execs /\ Holders(h0) \subseteq Execs
      BY DEF Holders
    <2>8. CASE ref[e] = h0
      <3>1. e \in Holders(h0)
        BY <2>1, <2>2, <2>3, <2>8 DEF Holders, RunPast
      <3>2. Holders(h0)' = Holders(h0) \ {e}
        BY <2>5, <2>6, <2>7
      <3>3. Cardinality(Holders(h0)) > 0
            /\ Cardinality(Holders(h0)') = Cardinality(Holders(h0)) - 1
        BY <3>1, <3>2, CardLoses
      <3>4. count'[h0] = count[h0] - 1
        BY <1>4, <2>1, <2>4, <2>8, <3>3 DEF ReleaseHook, Released
      <3> QED
        BY <2>4, <3>3, <3>4
    <2>9. CASE ref[e] # h0
      <3>1. count'[h0] = count[h0]
        BY <1>4, <2>9 DEF ReleaseHook, Released
      <3>2. e \notin Holders(h0)
        BY <2>2, <2>9 DEF Holders, Acquiring
      <3>3. Holders(h0)' \subseteq Holders(h0) /\ Holders(h0) \subseteq Holders(h0)'
        BY <2>5, <2>6, <2>7, <3>2
      <3>4. Holders(h0)' = Holders(h0)
        BY <3>3
      <3> QED
        BY <2>4, <3>1, <3>4
    <2> QED
      BY <2>8, <2>9
  <1>5. ASSUME NEW h \in Sets, StoreSet(h) PROVE Goal
    <2>1. /\ UNCHANGED <<phase, ref, lset, lpc, rpc, rexec>>
          /\ h \notin present /\ present' = present \cup {h}
          /\ count' = [count EXCEPT ![h] = 0]
      BY <1>5 DEF StoreSet, journal, launches, runs
    <2>2. Holders(h0)' = Holders(h0)
      BY <2>1 DEF Holders, Acquiring, RunPast
    <2>3. CASE h0 = h
      BY <2>1, <2>2, <2>3, FS_EmptySet
    <2>4. CASE h0 # h
      BY <1>0, <2>1, <2>2, <2>4 DEF CountIsExact
    <2> QED
      BY <2>3, <2>4
  <1>6. (\A e \in Execs : ~JournalFails(e)) /\ ~Crash
    BY DEF JournalFails, Crash
  <1> QED
    BY <1>0, <1>1, <1>2, <1>3, <1>4, <1>5, <1>6, SteadyOrTaking DEF Taking

-----------------------------------------------------------------------------
(***************************************************************************)
(* The template pins and the overlay files.                                *)
(***************************************************************************)
\* A restore holds its pin from the acquire on, and the commit journals it.
Restoring ==
    \A e \in lrestore :
        /\ lpc[e] \in {"commit", "bind", "boot", "park"}
        /\ lpc[e] \in {"bind", "boot"} => e \in pinned
        /\ lpc[e] = "park" => untracked

\* The overlay of an execution is made after its acquire, and whoever has let
\* go of it can find it by the execution id in the record.
Overlays ==
    /\ \A e \in Execs : lpc[e] = "boot" => e \in bound
    /\ ~untracked => \A e \in overlay :
           /\ phase[e] \notin {"none", "terminated"}
           /\ lpc[e] \notin {"acquire", "overlay"}
           /\ lpc[e] \in {"idle", "park"} => e \in bound
           /\ ~RunPast(e, {"release", "template", "unpin", "terminate"})

\* The pin a launch took stays with it until its record carries the marker.
LEMMA RestoringStep == TypeOK /\ Runs /\ LaunchPhase /\ Restoring /\ [Next]_vars => Restoring'
  <1> SUFFICES ASSUME TypeOK, Runs, LaunchPhase, Restoring, [Next]_vars
               PROVE  Restoring'
    OBVIOUS
  <1> /\ lpc \in [Execs -> LaunchPcs] /\ phase \in [Execs -> Phases]
      /\ lrestore \subseteq Execs
    BY DEF TypeOK
  <1> USE DEF Restoring
  <1>1. ASSUME NEW e \in Execs, AcquireSet(e)
       PROVE  Restoring'
    BY <1>1 DEF AcquireSet, CacheFree, Acquired, LaunchTo, journal, store, runs, gcVars
  <1>2. ASSUME NEW e \in Execs, CreateOverlay(e)
       PROVE  Restoring'
    BY <1>2 DEF CreateOverlay, LaunchTo, journal, cache, store, runs, gcVars
  <1>3. ASSUME NEW e \in Execs, Provision(e)
       PROVE  Restoring'
    BY <1>3 DEF Provision, LaunchTo, journal, cache, store, runs, gcVars
  <1>4. ASSUME NEW e \in Execs, PlanFails(e)
       PROVE  Restoring'
    BY <1>4 DEF PlanFails, LaunchTo, journal, cache, store, runs, gcVars
  <1>5. ASSUME NEW e \in Execs, Validate(e)
       PROVE  Restoring'
    BY <1>5 DEF Validate, LaunchTo, journal, cache, store, runs, gcVars
  <1>6. ASSUME NEW e \in Execs, ResolveTemplate(e)
       PROVE  Restoring'
    BY <1>6 DEF ResolveTemplate, LaunchTo, journal, cache, store, runs, gcVars
  <1>7. ASSUME NEW e \in Execs, PinTemplate(e)
       PROVE  Restoring'
    BY <1>7 DEF PinTemplate, StoreFree, LaunchTo, journal, cache, runs, gcVars
  <1>8. ASSUME NEW e \in Execs, UndoAcquire(e)
       PROVE  Restoring'
    BY <1>8 DEF UndoAcquire, CacheFree, Released, LaunchTo, journal, store, runs, gcVars
  <1>9. ASSUME NEW e \in Execs, Commit(e)
       PROVE  Restoring'
    BY <1>9 DEF Commit, LaunchTo, cache, store, runs, gcVars
  <1>10. ASSUME NEW e \in Execs, JournalFails(e)
       PROVE  Restoring'
    BY <1>10 DEF JournalFails, LaunchTo, journal, cache, store, runs, gcVars
  <1>11. ASSUME NEW e \in Execs, Bind(e)
       PROVE  Restoring'
    BY <1>11 DEF Bind, LaunchTo, cache, store, runs, gcVars
  <1>12. ASSUME NEW e \in Execs, Booted(e)
       PROVE  Restoring'
    BY <1>12 DEF Booted, LaunchTo, cache, store, runs, gcVars
  <1>13. ASSUME NEW e \in Execs, BootFails(e)
       PROVE  Restoring'
    BY <1>13 DEF BootFails, LaunchTo, cache, store, runs, gcVars
  <1>14. ASSUME NEW e \in Execs, Park(e)
       PROVE  Restoring'
    BY <1>14 DEF Park, LaunchTo, RunTo, journal, cache, store, gcVars
  <1>15. ASSUME NEW e \in Execs, ReconcileRecord(e)
       PROVE  Restoring'
    BY <1>15 DEF ReconcileRecord, Sweep, RunTo, journal, cache, store, launches, gcVars
  <1>16. ASSUME NEW e \in Execs, NEW h \in Sets, Launch(e, h)
       PROVE  Restoring'
    BY <1>16 DEF Launch, Serving, LaunchTo, cache, store, runs, gcVars, LaunchPhase, Before
  <1>17. ASSUME NEW k \in Killers, NEW e \in Execs, Kill(k, e)
       PROVE  Restoring'
    BY <1>17 DEF Kill, Serving, RunTo, cache, store, launches, gcVars
  <1>18. ASSUME NEW a \in Runners, Stopped(a)
       PROVE  Restoring'
    BY <1>18 DEF Stopped, RunTo, journal, cache, store, launches, gcVars
  <1>19. ASSUME NEW a \in Runners, NetworkHook(a)
       PROVE  Restoring'
    BY <1>19 DEF NetworkHook, RunTo, journal, cache, store, launches, gcVars
  <1>20. ASSUME NEW a \in Runners, ArtifactHook(a)
       PROVE  Restoring'
    BY <1>20 DEF ArtifactHook, RunTo, journal, cache, store, launches, gcVars
  <1>21. ASSUME NEW a \in Runners, ReleaseHook(a)
       PROVE  Restoring'
    BY <1>21 DEF ReleaseHook, CacheFree, Released, RunTo, journal, store, launches, gcVars
  <1>22. ASSUME NEW a \in Runners, TemplateHook(a)
       PROVE  Restoring'
    BY <1>22 DEF TemplateHook, RunTo, journal, cache, store, launches, gcVars
  <1>23. ASSUME NEW a \in Runners, UnpinHook(a)
       PROVE  Restoring'
    BY <1>23 DEF UnpinHook, StoreFree, Unpinned, RunTo, journal, cache, launches, gcVars
  <1>24. ASSUME NEW a \in Runners, Finish(a)
       PROVE  Restoring'
    BY <1>24 DEF Finish, Sweep, Terminal, RunDone, cache, store, launches, gcVars, RunTo
  <1>25. ASSUME NEW h \in Sets, StoreSet(h)
       PROVE  Restoring'
    BY <1>25 DEF StoreSet, CacheFree, journal, store, launches, runs, gcVars
  <1>26. ASSUME NEW h \in Sets, GcVisit(h)
       PROVE  Restoring'
    BY <1>26 DEF GcVisit, journal, store, launches, runs
  <1>27. ASSUME NEW h \in Sets, Publish(h)
       PROVE  Restoring'
    BY <1>27 DEF Publish, StoreFree, journal, cache, launches, runs, gcVars
  <1>28. ASSUME NEW h \in Sets, TemplateCorrupts(h)
       PROVE  Restoring'
    BY <1>28 DEF TemplateCorrupts, journal, cache, launches, runs, gcVars
  <1>29. CASE GcStart
    BY <1>29 DEF GcStart, CacheFree, Referenced, journal, cache, store, launches, runs
  <1>30. CASE GcEnd
    BY <1>30 DEF GcEnd, journal, cache, store, launches, runs
  <1>31. CASE PublishSwing
    BY <1>31 DEF PublishSwing, journal, cache, launches, runs, gcVars
  <1>32. CASE Reconcile
    BY <1>32 DEF Reconcile, Serving, Idle, Open, cache, store, launches, runs, gcVars,
        Runners, Terminal, Sweep
  <1>33. CASE ReconcileEnds
    BY <1>33 DEF ReconcileEnds, Sweep, journal, cache, store, launches, runs, gcVars
  <1>34. CASE Crash
    BY <1>34 DEF Crash, Runners, journal, cache, store, Sweep
  <1>35. CASE UNCHANGED vars
    BY <1>35 DEF vars, journal, cache, store, launches, runs, gcVars
  <1> QED
    BY <1>1, <1>2, <1>3, <1>4, <1>5, <1>6, <1>7, <1>8, <1>9, <1>10, <1>11, <1>12, <1>13,
       <1>14, <1>15, <1>16, <1>17, <1>18, <1>19, <1>20, <1>21, <1>22, <1>23, <1>24, <1>25,
       <1>26, <1>27, <1>28, <1>29, <1>30, <1>31, <1>32, <1>33, <1>34, <1>35
    DEF Next, LaunchStep, RunStep, DiskStep

\* Nobody forgets an overlay file, and the artifact hook removes it.
LEMMA OverlayStep ==
  OneStop /\ OneStop' /\ TypeOK /\ Runs /\ LaunchPhase /\ Overlays /\ [Next]_vars => Overlays'
  <1> SUFFICES ASSUME OneStop, OneStop', TypeOK, Runs, LaunchPhase, Overlays, [Next]_vars
               PROVE  Overlays'
    OBVIOUS
  <1>0. untracked => untracked'
    BY StaysUntracked
  <1> /\ phase \in [Execs -> Phases] /\ ref \in [Execs -> Sets \cup {None}]
      /\ lpc \in [Execs -> LaunchPcs] /\ overlay \subseteq Execs /\ bound \subseteq Execs
      /\ rpc \in [Runners -> RunPcs] /\ rexec \in [Runners -> Execs \cup {None}]
      /\ \A a \in Runners : rpc[a] # "idle" =>
             /\ rexec[a] \in Execs /\ lpc[rexec[a]] = "idle"
             /\ phase[rexec[a]] \notin Terminal \cup {"none"}
    BY RunOpen DEF TypeOK
  <1> Execs \subseteq Runners /\ Killers \subseteq Runners /\ Sweep \in Runners
    BY DEF Runners
  <1> USE DEF Overlays, RunPast
  <1>1. ASSUME NEW e \in Execs, AcquireSet(e)
       PROVE  Overlays'
    BY <1>1 DEF AcquireSet, CacheFree, Acquired, LaunchTo, journal, store, runs, gcVars
  <1>2. ASSUME NEW e \in Execs, CreateOverlay(e)
       PROVE  Overlays'
    BY <1>2 DEF CreateOverlay, LaunchTo, journal, cache, store, runs, gcVars, LaunchPhase,
        Before
  <1>3. ASSUME NEW e \in Execs, Provision(e)
       PROVE  Overlays'
    BY <1>3 DEF Provision, LaunchTo, journal, cache, store, runs, gcVars
  <1>4. ASSUME NEW e \in Execs, PlanFails(e)
       PROVE  Overlays'
    BY <1>4 DEF PlanFails, LaunchTo, journal, cache, store, runs, gcVars
  <1>5. ASSUME NEW e \in Execs, Validate(e)
       PROVE  Overlays'
    BY <1>5 DEF Validate, LaunchTo, journal, cache, store, runs, gcVars
  <1>6. ASSUME NEW e \in Execs, ResolveTemplate(e)
       PROVE  Overlays'
    BY <1>6 DEF ResolveTemplate, LaunchTo, journal, cache, store, runs, gcVars
  <1>7. ASSUME NEW e \in Execs, PinTemplate(e)
       PROVE  Overlays'
    BY <1>7 DEF PinTemplate, StoreFree, LaunchTo, journal, cache, runs, gcVars
  <1>8. ASSUME NEW e \in Execs, UndoAcquire(e)
       PROVE  Overlays'
    BY <1>8 DEF UndoAcquire, CacheFree, Released, LaunchTo, journal, store, runs, gcVars
  <1>9. ASSUME NEW e \in Execs, Commit(e)
       PROVE  Overlays'
    BY <1>9 DEF Commit, LaunchTo, cache, store, runs, gcVars
  <1>10. ASSUME NEW e \in Execs, JournalFails(e)
       PROVE  Overlays'
    BY <1>10 DEF JournalFails, LaunchTo, journal, cache, store, runs, gcVars
  <1>11. ASSUME NEW e \in Execs, Bind(e)
       PROVE  Overlays'
    BY <1>11 DEF Bind, LaunchTo, cache, store, runs, gcVars
  <1>12. ASSUME NEW e \in Execs, Booted(e)
       PROVE  Overlays'
    BY <1>12 DEF Booted, LaunchTo, cache, store, runs, gcVars
  <1>13. ASSUME NEW e \in Execs, BootFails(e)
       PROVE  Overlays'
    BY <1>13 DEF BootFails, LaunchTo, cache, store, runs, gcVars
  <1>14. ASSUME NEW e \in Execs, Park(e)
       PROVE  Overlays'
    <2>1. /\ lpc[e] = "park"
          /\ lpc' = [lpc EXCEPT ![e] = "idle"] /\ rpc' = [rpc EXCEPT ![e] = "network"]
          /\ rexec' = [rexec EXCEPT ![e] = e]
          /\ UNCHANGED <<phase, overlay, bound, untracked>>
      BY <1>14 DEF Park, LaunchTo, RunTo, journal
    <2>2. rpc[e] = "idle"
      BY <2>1 DEF Runs
    <2>3. \A x \in Execs : RunPast(x, {"release", "template", "unpin", "terminate"})'
                              <=> RunPast(x, {"release", "template", "unpin", "terminate"})
      BY <2>1, <2>2
    <2> QED
      BY <2>1, <2>3
  <1>15. ASSUME NEW e \in Execs, ReconcileRecord(e)
       PROVE  Overlays'
    BY <1>15 DEF ReconcileRecord, RunTo, journal, cache, store, launches, gcVars
  <1>16. ASSUME NEW e \in Execs, NEW h \in Sets, Launch(e, h)
       PROVE  Overlays'
    BY <1>16 DEF Launch, Serving, LaunchTo, cache, store, runs, gcVars, LaunchPhase, Before
  <1>17. ASSUME NEW k \in Killers, NEW e \in Execs, Kill(k, e)
       PROVE  Overlays'
    BY <1>17 DEF Kill, Serving, RunTo, cache, store, launches, gcVars
  <1>18. ASSUME NEW a \in Runners, Stopped(a)
       PROVE  Overlays'
    BY <1>18 DEF Stopped, RunTo, journal, cache, store, launches, gcVars
  <1>19. ASSUME NEW a \in Runners, NetworkHook(a)
       PROVE  Overlays'
    BY <1>19 DEF NetworkHook, RunTo, journal, cache, store, launches, gcVars
  <1>20. ASSUME NEW a \in Runners, ArtifactHook(a)
       PROVE  Overlays'
    BY <1>20 DEF ArtifactHook, RunTo, journal, cache, store, launches, gcVars
  <1>21. ASSUME NEW a \in Runners, ReleaseHook(a)
       PROVE  Overlays'
    BY <1>21 DEF ReleaseHook, CacheFree, Released, RunTo, journal, store, launches, gcVars
  <1>22. ASSUME NEW a \in Runners, TemplateHook(a)
       PROVE  Overlays'
    BY <1>22 DEF TemplateHook, RunTo, journal, cache, store, launches, gcVars
  <1>23. ASSUME NEW a \in Runners, UnpinHook(a)
       PROVE  Overlays'
    BY <1>23 DEF UnpinHook, StoreFree, Unpinned, RunTo, journal, cache, launches, gcVars
  <1>24. ASSUME NEW a \in Runners, Finish(a)
       PROVE  Overlays'
    <2>1. /\ rpc[a] \in {"terminate", "quarantine"}
          /\ rpc' = [rpc EXCEPT ![a] = "idle"] /\ rexec' = [rexec EXCEPT ![a] = None]
          /\ UNCHANGED <<lpc, overlay, bound, untracked>>
      BY <1>24 DEF Finish, RunDone, RunTo, launches
    <2>2. phase' = [phase EXCEPT ![rexec[a]] = IF rpc[a] = "terminate"
                                               THEN "terminated" ELSE "quarantined"]
      BY <1>24, <2>1, RunOpen DEF Finish
    <2>3. \A x \in Execs : RunPast(x, {"release", "template", "unpin", "terminate"})'
                              => RunPast(x, {"release", "template", "unpin", "terminate"})
      BY <2>1
    <2>4. ~untracked /\ rpc[a] = "terminate" => rexec[a] \notin overlay
      BY <2>1
    <2> HIDE DEF RunPast
    <2> QED
      BY <2>1, <2>2, <2>3, <2>4
  <1>25. ASSUME NEW h \in Sets, StoreSet(h)
       PROVE  Overlays'
    BY <1>25 DEF StoreSet, CacheFree, journal, store, launches, runs, gcVars
  <1>26. ASSUME NEW h \in Sets, GcVisit(h)
       PROVE  Overlays'
    BY <1>26 DEF GcVisit, journal, store, launches, runs
  <1>27. ASSUME NEW h \in Sets, Publish(h)
       PROVE  Overlays'
    BY <1>27 DEF Publish, StoreFree, journal, cache, launches, runs, gcVars
  <1>28. ASSUME NEW h \in Sets, TemplateCorrupts(h)
       PROVE  Overlays'
    BY <1>28 DEF TemplateCorrupts, journal, cache, launches, runs, gcVars
  <1>29. CASE GcStart
    BY <1>29 DEF GcStart, CacheFree, Referenced, journal, cache, store, launches, runs
  <1>30. CASE GcEnd
    BY <1>30 DEF GcEnd, journal, cache, store, launches, runs
  <1>31. CASE PublishSwing
    BY <1>31 DEF PublishSwing, journal, cache, launches, runs, gcVars
  <1>32. CASE Reconcile
    BY <1>32 DEF Reconcile, Serving, Idle, Open, cache, store, launches, runs, gcVars,
        Terminal
  <1>33. CASE ReconcileEnds
    BY <1>33 DEF ReconcileEnds, journal, cache, store, launches, runs, gcVars
  <1>34. CASE Crash
    BY <1>34 DEF Crash, journal, cache, store
  <1>35. CASE UNCHANGED vars
    BY <1>35 DEF vars, journal, cache, store, launches, runs, gcVars
  <1> QED
    BY <1>1, <1>2, <1>3, <1>4, <1>5, <1>6, <1>7, <1>8, <1>9, <1>10, <1>11, <1>12, <1>13,
       <1>14, <1>15, <1>16, <1>17, <1>18, <1>19, <1>20, <1>21, <1>22, <1>23, <1>24, <1>25,
       <1>26, <1>27, <1>28, <1>29, <1>30, <1>31, <1>32, <1>33, <1>34, <1>35
    DEF Next, LaunchStep, RunStep, DiskStep

\* The steps that change a pin, a template or what is known of them.
Pinning ==
    \/ \E e \in Execs : PinTemplate(e) \/ JournalFails(e)
    \/ \E a \in Runners : TemplateHook(a) \/ UnpinHook(a)
    \/ \E h \in Sets : Publish(h)
    \/ PublishSwing \/ Crash

\* The others leave the pins alone and take none from an execution.
PinSteady(h) ==
    /\ pins' = pins /\ (tmpl'[h] # "absent" => tmpl[h] # "absent")
    /\ PinHolders(h) \subseteq PinHolders(h)'

\* Every step is of one of the two sorts.
LEMMA SteadyOrPinning ==
  ASSUME OneStop, OneStop', TypeOK, Runs, LaunchPhase, Restoring,
         ~untracked, [Next]_vars, NEW h0 \in Sets
  PROVE  PinSteady(h0) \/ Pinning
  <1> DEFINE Goal == PinSteady(h0) \/ Pinning
  <1> /\ phase \in [Execs -> Phases] /\ ref \in [Execs -> Sets \cup {None}]
      /\ lpc \in [Execs -> LaunchPcs] /\ lset \in [Execs -> Sets \cup {None}]
      /\ rpc \in [Runners -> RunPcs] /\ rexec \in [Runners -> Execs \cup {None}]
      /\ lrestore \subseteq Execs /\ pinned \subseteq Execs
      /\ tmpl \in [Sets -> {"absent", "valid", "invalid"}]
      /\ \A a \in Runners : rpc[a] # "idle" =>
             /\ rexec[a] \in Execs /\ lpc[rexec[a]] = "idle"
             /\ phase[rexec[a]] \notin Terminal \cup {"none"}
    BY RunOpen DEF TypeOK
  <1> Execs \subseteq Runners /\ Killers \subseteq Runners /\ Sweep \in Runners
    BY DEF Runners
  <1> USE DEF PinSteady, PinHolders, RunPast
  <1>1. ASSUME NEW e \in Execs, AcquireSet(e)
       PROVE  Goal
    BY <1>1 DEF AcquireSet, CacheFree, Acquired, LaunchTo, journal, store, runs, gcVars
  <1>2. ASSUME NEW e \in Execs, CreateOverlay(e)
       PROVE  Goal
    BY <1>2 DEF CreateOverlay, LaunchTo, journal, cache, store, runs, gcVars
  <1>3. ASSUME NEW e \in Execs, Provision(e)
       PROVE  Goal
    BY <1>3 DEF Provision, LaunchTo, journal, cache, store, runs, gcVars
  <1>4. ASSUME NEW e \in Execs, PlanFails(e)
       PROVE  Goal
    BY <1>4 DEF PlanFails, LaunchTo, journal, cache, store, runs, gcVars
  <1>5. ASSUME NEW e \in Execs, Validate(e)
       PROVE  Goal
    BY <1>5 DEF Validate, LaunchTo, journal, cache, store, runs, gcVars
  <1>6. ASSUME NEW e \in Execs, ResolveTemplate(e)
       PROVE  Goal
    BY <1>6 DEF ResolveTemplate, LaunchTo, journal, cache, store, runs, gcVars
  <1>7. ASSUME NEW e \in Execs, PinTemplate(e)
       PROVE  Goal
    BY <1>7 DEF Pinning
  <1>8. ASSUME NEW e \in Execs, UndoAcquire(e)
       PROVE  Goal
    BY <1>8 DEF UndoAcquire, CacheFree, Released, LaunchTo, journal, store, runs, gcVars
  <1>9. ASSUME NEW e \in Execs, Commit(e)
       PROVE  Goal
    BY <1>9 DEF Commit, LaunchTo, cache, store, runs, gcVars, LaunchPhase, Before, Restoring
  <1>10. ASSUME NEW e \in Execs, JournalFails(e)
       PROVE  Goal
    BY <1>10 DEF Pinning
  <1>11. ASSUME NEW e \in Execs, Bind(e)
       PROVE  Goal
    BY <1>11 DEF Bind, LaunchTo, cache, store, runs, gcVars
  <1>12. ASSUME NEW e \in Execs, Booted(e)
       PROVE  Goal
    <2>1. /\ lpc[e] = "boot" /\ phase'[e] # "terminated"
          /\ \A x \in Execs : x # e => phase'[x] = phase[x]
          /\ UNCHANGED <<ref, lset, pinned, rpc, rexec, pins, tmpl>>
          /\ lrestore' \subseteq lrestore /\ lrestore \subseteq lrestore' \cup {e}
      BY <1>12 DEF Booted, runs, store, LaunchPhase
    <2>2. /\ ref[e] = lset[e] /\ (e \in lrestore => e \in pinned)
          /\ ~RunPast(e, {"terminate"})
      BY <2>1 DEF LaunchPhase, Restoring
    <2> QED
      BY <2>1, <2>2
  <1>13. ASSUME NEW e \in Execs, BootFails(e)
       PROVE  Goal
    <2>1. /\ lpc[e] = "boot" /\ phase'[e] # "terminated"
          /\ \A x \in Execs : x # e => phase'[x] = phase[x]
          /\ UNCHANGED <<ref, lset, pinned, rpc, rexec, pins, tmpl>>
          /\ lrestore' \subseteq lrestore /\ lrestore \subseteq lrestore' \cup {e}
      BY <1>13 DEF BootFails, runs, store, LaunchPhase
    <2>2. /\ ref[e] = lset[e] /\ (e \in lrestore => e \in pinned)
          /\ ~RunPast(e, {"terminate"})
      BY <2>1 DEF LaunchPhase, Restoring
    <2> QED
      BY <2>1, <2>2
  <1>14. ASSUME NEW e \in Execs, Park(e)
       PROVE  Goal
    <2>1. /\ lpc[e] = "park" /\ e \notin lrestore
          /\ rpc' = [rpc EXCEPT ![e] = "network"] /\ rexec' = [rexec EXCEPT ![e] = e]
          /\ UNCHANGED <<lset, ref, phase, pinned, pins, tmpl>> /\ lrestore' = lrestore
      BY <1>14 DEF Park, RunTo, journal, store, Restoring
    <2>2. rpc[e] = "idle"
      BY <2>1 DEF Runs
    <2>3. \A x \in Execs : RunPast(x, {"terminate"})' <=> RunPast(x, {"terminate"})
      BY <2>1, <2>2
    <2> HIDE DEF RunPast
    <2> QED
      BY <2>1, <2>3
  <1>15. ASSUME NEW e \in Execs, ReconcileRecord(e)
       PROVE  Goal
    BY <1>15 DEF ReconcileRecord, RunTo, journal, cache, store, launches, gcVars
  <1>16. ASSUME NEW e \in Execs, NEW h \in Sets, Launch(e, h)
       PROVE  Goal
    BY <1>16 DEF Launch, Serving, LaunchTo, cache, store, runs, gcVars, LaunchPhase, Before,
        Restoring
  <1>17. ASSUME NEW k \in Killers, NEW e \in Execs, Kill(k, e)
       PROVE  Goal
    <2>1. /\ phase[e] = "ready" /\ rpc[k] = "idle"
          /\ phase' = [phase EXCEPT ![e] = "terminating"]
          /\ rpc' = [rpc EXCEPT ![k] = "stop"] /\ rexec' = [rexec EXCEPT ![k] = e]
          /\ UNCHANGED <<lset, ref, lrestore, pinned, pins, tmpl>>
      BY <1>17, KillFindsReady DEF Kill, RunTo, launches, store
    <2>2. \A x \in Execs : RunPast(x, {"terminate"})' <=> RunPast(x, {"terminate"})
      BY <2>1
    <2> HIDE DEF RunPast
    <2> QED
      BY <2>1, <2>2
  <1>18. ASSUME NEW a \in Runners, Stopped(a)
       PROVE  Goal
    BY <1>18 DEF Stopped, RunTo, journal, cache, store, launches, gcVars
  <1>19. ASSUME NEW a \in Runners, NetworkHook(a)
       PROVE  Goal
    BY <1>19 DEF NetworkHook, RunTo, journal, cache, store, launches, gcVars
  <1>20. ASSUME NEW a \in Runners, ArtifactHook(a)
       PROVE  Goal
    BY <1>20 DEF ArtifactHook, RunTo, journal, cache, store, launches, gcVars
  <1>21. ASSUME NEW a \in Runners, ReleaseHook(a)
       PROVE  Goal
    BY <1>21 DEF ReleaseHook, CacheFree, Released, RunTo, journal, store, launches, gcVars
  <1>22. ASSUME NEW a \in Runners, TemplateHook(a)
       PROVE  Goal
    BY <1>22 DEF Pinning
  <1>23. ASSUME NEW a \in Runners, UnpinHook(a)
       PROVE  Goal
    BY <1>23 DEF Pinning
  <1>24. ASSUME NEW a \in Runners, Finish(a)
       PROVE  Goal
    <2> DEFINE e == rexec[a]
    <2>1. /\ rpc[a] \in {"terminate", "quarantine"}
          /\ rpc' = [rpc EXCEPT ![a] = "idle"] /\ rexec' = [rexec EXCEPT ![a] = None]
          /\ UNCHANGED <<lpc, lset, ref, pins, tmpl, pinned, lrestore, untracked>>
      BY <1>24 DEF Finish, RunDone, RunTo, launches, store
    <2>2. phase' = [phase EXCEPT ![e] = IF rpc[a] = "terminate"
                                        THEN "terminated" ELSE "quarantined"]
      BY <1>24, <2>1, RunOpen DEF Finish
    <2>3. \A b \in Runners : rpc[b] # "idle" /\ rexec[b] = e => b = a
      BY <2>1, OneRun
    <2>4. \A x \in Execs : x # e =>
             /\ RunPast(x, {"terminate"})' <=> RunPast(x, {"terminate"})
             /\ phase'[x] = phase[x]
      BY <2>1, <2>2
    <2>5. ~RunPast(e, {"terminate"})'
      BY <2>1, <2>3
    <2>6. RunPast(e, {"terminate"}) <=> rpc[a] = "terminate"
      BY <2>1, <2>3
    <2>7. e \in Execs /\ lpc[e] = "idle" /\ phase[e] # "terminated"
          /\ phase'[e] = IF rpc[a] = "terminate" THEN "terminated" ELSE "quarantined"
      BY <2>1, <2>2 DEF Terminal
    <2> HIDE DEF e
    <2> QED
      BY <2>1, <2>4, <2>5, <2>6, <2>7
  <1>25. ASSUME NEW h \in Sets, StoreSet(h)
       PROVE  Goal
    BY <1>25 DEF StoreSet, CacheFree, journal, store, launches, runs, gcVars
  <1>26. ASSUME NEW h \in Sets, GcVisit(h)
       PROVE  Goal
    BY <1>26 DEF GcVisit, journal, store, launches, runs
  <1>27. ASSUME NEW h \in Sets, Publish(h)
       PROVE  Goal
    BY <1>27 DEF Pinning
  <1>28. ASSUME NEW h \in Sets, TemplateCorrupts(h)
       PROVE  Goal
    BY <1>28 DEF TemplateCorrupts, journal, cache, launches, runs, gcVars
  <1>29. CASE GcStart
    BY <1>29 DEF GcStart, CacheFree, Referenced, journal, cache, store, launches, runs
  <1>30. CASE GcEnd
    BY <1>30 DEF GcEnd, journal, cache, store, launches, runs
  <1>31. CASE PublishSwing
    BY <1>31 DEF Pinning
  <1>32. CASE Reconcile
    BY <1>32 DEF Reconcile, Serving, Idle, Open, cache, store, launches, runs, gcVars,
        Terminal
  <1>33. CASE ReconcileEnds
    BY <1>33 DEF ReconcileEnds, journal, cache, store, launches, runs, gcVars
  <1>34. CASE Crash
    BY <1>34 DEF Pinning
  <1>35. CASE UNCHANGED vars
    BY <1>35 DEF vars, journal, cache, store, launches, runs, gcVars
  <1> QED
    BY <1>1, <1>2, <1>3, <1>4, <1>5, <1>6, <1>7, <1>8, <1>9, <1>10, <1>11, <1>12, <1>13,
       <1>14, <1>15, <1>16, <1>17, <1>18, <1>19, <1>20, <1>21, <1>22, <1>23, <1>24, <1>25,
       <1>26, <1>27, <1>28, <1>29, <1>30, <1>31, <1>32, <1>33, <1>34, <1>35
    DEF Next, LaunchStep, RunStep, DiskStep

\* Each pin is given back with its execution.
LEMMA PinStep ==
  ASSUME IsFiniteSet(Execs)
  PROVE  OneStop /\ OneStop' /\ TypeOK /\ Runs /\ LaunchPhase /\ Restoring
         /\ PinsNotLeaked /\ [Next]_vars => PinsNotLeaked'
  <1> SUFFICES ASSUME OneStop, OneStop', TypeOK, Runs, LaunchPhase, Restoring,
                      PinsNotLeaked, [Next]_vars, ~untracked', NEW h0 \in Sets,
                      tmpl'[h0] # "absent"
               PROVE  pins'[h0] <= Cardinality(PinHolders(h0)')
    BY DEF PinsNotLeaked
  <1> DEFINE Goal == pins'[h0] <= Cardinality(PinHolders(h0)')
  <1>0. ~untracked
    BY StaysUntracked
  <1> /\ pins \in [Sets -> Nat] /\ tmpl \in [Sets -> {"absent", "valid", "invalid"}]
      /\ ref \in [Execs -> Sets \cup {None}] /\ lset \in [Execs -> Sets \cup {None}]
      /\ rpc \in [Runners -> RunPcs]
    BY DEF TypeOK
  <1> PinHolders(h0) \subseteq Execs /\ PinHolders(h0)' \subseteq Execs
    BY DEF PinHolders
  <1> /\ IsFiniteSet(PinHolders(h0)) /\ Cardinality(PinHolders(h0)) \in Nat
      /\ IsFiniteSet(PinHolders(h0)') /\ Cardinality(PinHolders(h0)') \in Nat
    BY FS_Subset, FS_CardinalityType
  <1>a. tmpl[h0] # "absent" => pins[h0] <= Cardinality(PinHolders(h0))
    BY <1>0 DEF PinsNotLeaked
  <1>1. CASE PinSteady(h0)
    <2>1. /\ pins'[h0] = pins[h0] /\ tmpl[h0] # "absent"
          /\ PinHolders(h0) \subseteq PinHolders(h0)'
      BY <1>1 DEF PinSteady
    <2>2. Cardinality(PinHolders(h0)) <= Cardinality(PinHolders(h0)')
      BY <2>1, CardShrinks
    <2> QED
      BY <1>a, <2>1, <2>2
  <1>2. ASSUME NEW e \in Execs, PinTemplate(e) PROVE Goal
    <2>1. /\ lpc[e] = "pin" /\ UNCHANGED <<ref, phase, pinned, lset, rpc, rexec, tmpl>>
          /\ lrestore \subseteq lrestore'
      BY <1>2 DEF PinTemplate, journal, runs
    <2>2. e \notin PinHolders(h0)
      BY <2>1 DEF PinHolders, LaunchPhase, Before, Restoring
    <2>3. PinHolders(h0) \subseteq PinHolders(h0)'
      BY <2>1 DEF PinHolders, RunPast
    <2>4. CASE lset[e] = h0
      <3>1. pins'[h0] = pins[h0] + 1 /\ e \in lrestore'
        BY <1>2, <2>1, <2>4 DEF PinTemplate
      <3>2. PinHolders(h0) \cup {e} \subseteq PinHolders(h0)'
        BY <2>1, <2>3, <2>4, <3>1 DEF PinHolders
      <3>3. Cardinality(PinHolders(h0) \cup {e}) = Cardinality(PinHolders(h0)) + 1
        BY <2>2, CardGains
      <3>4. Cardinality(PinHolders(h0) \cup {e}) <= Cardinality(PinHolders(h0)')
        BY <3>2, CardShrinks
      <3> QED
        BY <1>a, <2>1, <3>1, <3>3, <3>4
    <2>5. CASE lset[e] # h0
      <3>1. pins'[h0] = pins[h0]
        BY <1>2, <2>5 DEF PinTemplate
      <3>2. Cardinality(PinHolders(h0)) <= Cardinality(PinHolders(h0)')
        BY <2>3, CardShrinks
      <3> QED
        BY <1>a, <2>1, <3>1, <3>2
    <2> QED
      BY <2>4, <2>5
  <1>3. ASSUME NEW a \in Runners, TemplateHook(a) PROVE Goal
    <2> DEFINE e == rexec[a]
    <2>1. /\ rpc[a] = "template" /\ UNCHANGED <<ref, phase, pinned, lset, lrestore, rexec, pins, tmpl>>
      BY <1>3 DEF TemplateHook, journal, launches, store
    <2>2. \A b \in Runners : b # a => rpc'[b] = rpc[b]
      BY <1>3 DEF TemplateHook, RunTo
    <2>3. e \in Execs /\ e \notin lrestore
      BY <2>1, RunOpen DEF Restoring
    <2>4. CASE e \in PinHolders(h0) /\ rpc'[a] = "terminate"
      <3>1. e \in pinned /\ ref[e] = h0
        BY <2>3, <2>4 DEF PinHolders
      <3>2. pins[h0] = 0
        BY <1>3, <2>1, <2>4, <3>1 DEF TemplateHook, RunTo
      <3> QED
        BY <2>1, <3>2
    <2>5. CASE ~(e \in PinHolders(h0) /\ rpc'[a] = "terminate")
      <3>1. \A x \in PinHolders(h0) : x \in PinHolders(h0)'
        BY <2>1, <2>2, <2>3, <2>5 DEF PinHolders, RunPast
      <3>2. PinHolders(h0) \subseteq PinHolders(h0)'
        BY <3>1
      <3>3. Cardinality(PinHolders(h0)) <= Cardinality(PinHolders(h0)')
        BY <3>2, CardShrinks
      <3> QED
        BY <1>a, <2>1, <3>3
    <2> QED
      BY <2>4, <2>5
  <1>4. ASSUME NEW a \in Runners, UnpinHook(a) PROVE Goal
    <2> DEFINE e == rexec[a]
    <2>1. /\ rpc[a] = "unpin" /\ rpc' = [rpc EXCEPT ![a] = "terminate"]
          /\ UNCHANGED <<ref, phase, pinned, lset, lrestore, rexec, tmpl>>
      BY <1>4 DEF UnpinHook, RunTo, journal, launches
    <2>2. e \in Execs /\ e \notin lrestore /\ e \in pinned /\ phase[e] # "terminated"
      BY <2>1, RunOpen DEF Restoring, Runs, Terminal
    <2>3. \A x \in PinHolders(h0) : x # e => x \in PinHolders(h0)'
      BY <2>1 DEF PinHolders, RunPast
    <2>4. CASE ref[e] = h0
      <3>1. e \in PinHolders(h0)
        <4>1. \A b \in Runners : rpc[b] # "idle" /\ rexec[b] = e => b = a
          BY <2>1, OneRun
        <4> QED
          BY <2>1, <2>2, <2>4, <4>1 DEF PinHolders, RunPast
      <3>2. PinHolders(h0) \ {e} \subseteq PinHolders(h0)'
        BY <2>3
      <3>3. /\ Cardinality(PinHolders(h0) \ {e}) = Cardinality(PinHolders(h0)) - 1
            /\ Cardinality(PinHolders(h0)) > 0
        BY <3>1, CardLoses
      <3>4. Cardinality(PinHolders(h0) \ {e}) <= Cardinality(PinHolders(h0)')
        BY <3>2, CardShrinks
      <3>5. pins'[h0] = IF pins[h0] > 0 THEN pins[h0] - 1 ELSE pins[h0]
        BY <1>4, <2>1, <2>4 DEF UnpinHook, Unpinned
      <3> QED
        BY <1>a, <2>1, <3>3, <3>4, <3>5
    <2>5. CASE ref[e] # h0
      <3>1. pins'[h0] = pins[h0]
        BY <1>4, <2>5 DEF UnpinHook, Unpinned
      <3>2. PinHolders(h0) \subseteq PinHolders(h0)'
        BY <2>2, <2>3, <2>5 DEF PinHolders
      <3>3. Cardinality(PinHolders(h0)) <= Cardinality(PinHolders(h0)')
        BY <3>2, CardShrinks
      <3> QED
        BY <1>a, <2>1, <3>1, <3>3
    <2> QED
      BY <2>4, <2>5
  <1>5. ASSUME NEW h \in Sets, Publish(h) PROVE Goal
    <2>1. UNCHANGED <<ref, phase, pinned, lset, lrestore, rpc, rexec>>
      BY <1>5 DEF Publish, journal, launches, runs
    <2>2. PinHolders(h0)' = PinHolders(h0)
      BY <2>1 DEF PinHolders, RunPast
    <2>3. pins'[h0] = 0 \/ (tmpl[h0] # "absent" /\ pins'[h0] = pins[h0])
      BY <1>5 DEF Publish
    <2> QED
      BY <1>a, <2>2, <2>3
  <1>6. CASE PublishSwing
    <2>1. UNCHANGED <<ref, phase, pinned, lset, lrestore, rpc, rexec>>
      BY <1>6 DEF PublishSwing, journal, launches, runs
    <2>2. PinHolders(h0)' = PinHolders(h0)
      BY <2>1 DEF PinHolders, RunPast
    <2>3. pins'[h0] = 0 \/ (tmpl[h0] # "absent" /\ pins'[h0] = pins[h0])
      BY <1>6 DEF PublishSwing
    <2> QED
      BY <1>a, <2>2, <2>3
  <1>7. (\A e \in Execs : ~JournalFails(e)) /\ ~Crash
    BY DEF JournalFails, Crash
  <1> QED
    BY <1>0, <1>1, <1>2, <1>3, <1>4, <1>5, <1>6, <1>7, SteadyOrPinning DEF Pinning

-----------------------------------------------------------------------------
\* The inductive invariant: who runs, what is held, and what the files count.
IInv ==
    /\ TypeOK /\ Runs /\ LaunchPhase /\ Kept /\ Enough
    /\ CountIsExact /\ Restoring /\ PinsNotLeaked /\ Overlays

\* IInv holds at the start.
LEMMA InvInit == Init => IInv
  <1> SUFFICES ASSUME Init PROVE IInv
    OBVIOUS
  <1> USE DEF Init
  <1>1. TypeOK
    BY DEF TypeOK, Phases, LaunchPcs, RunPcs
  <1>2. Runs /\ LaunchPhase /\ Restoring /\ Overlays /\ Kept
    BY DEF Runs, LaunchPhase, Before, Runners, Restoring, Overlays, Kept, HeldSetsPresent,
           Acquiring
  <1>3. \A h \in Sets : Owed(h) = {}
    BY DEF Owed, Acquiring, InProcess, Runners
  <1>4. \A h \in Sets : Holders(h) = {}
    BY DEF Holders, Acquiring
  <1>5. Cardinality({}) = 0
    BY FS_EmptySet
  <1>6. \A h \in Sets : count[h] = 0 /\ Cardinality(Owed(h)) = 0 /\ Cardinality(Holders(h)) = 0
    BY <1>3, <1>4, <1>5
  <1>7. Enough /\ CountIsExact
    BY <1>6 DEF Enough, CountIsExact
  <1>8. PinsNotLeaked
    BY DEF PinsNotLeaked
  <1> QED
    BY <1>1, <1>2, <1>7, <1>8 DEF IInv

\* IInv is inductive while nobody stops an execution that is being stopped:
\* the hooks of module Artifacts run once per launch, and what they find in
\* the record is what the launch took.
THEOREM Inductive ==
  ASSUME IsFiniteSet(Execs)
  PROVE  Spec /\ []OneStop => []IInv
  <1>1. IInv /\ OneStop /\ OneStop' /\ [Next]_vars => IInv'
    <2> SUFFICES ASSUME IInv, OneStop, OneStop', [Next]_vars PROVE IInv'
      OBVIOUS
    <2>1. TypeOK' /\ Runs' /\ LaunchPhase' /\ Restoring' /\ Overlays'
      BY TypeStep, RunsStep, PhaseStep, RestoringStep, OverlayStep DEF IInv
    <2>2. Kept' /\ Enough' /\ CountIsExact' /\ PinsNotLeaked'
      BY KeptStep, EnoughStep, CountStep, PinStep DEF IInv, Kept
    <2> QED
      BY <2>1, <2>2 DEF IInv
  <1> QED
    BY <1>1, InvInit, PTL DEF Spec

\* A set that an uncommitted launch has acquired, or that an unterminated
\* record cites, is never reaped (launch_planner.ts resolve, cache.ts gc),
\* whatever crashes, failing hooks and collector passes happen.
THEOREM HeldSetsKept ==
  ASSUME IsFiniteSet(Execs)
  PROVE  Spec /\ []OneStop => []HeldSetsPresent
  <1>1. IInv => HeldSetsPresent
    BY DEF IInv, Kept
  <1> QED
    BY <1>1, Inductive, PTL

\* While no crash and no lost journal write happened, a refcount file says how
\* many launches and records hold the set: resolve's catch, the park, the kill
\* and the sweep release each acquire exactly once between them.
THEOREM RefcountsAreExact ==
  ASSUME IsFiniteSet(Execs)
  PROVE  Spec /\ []OneStop => []CountIsExact
  <1>1. IInv => CountIsExact
    BY DEF IInv
  <1> QED
    BY <1>1, Inductive, PTL

\* While no crash and no lost journal write happened, no pin outlives the
\* executions that took one, and a terminated record has no overlay file.
THEOREM EverythingIsReturned ==
  ASSUME IsFiniteSet(Execs)
  PROVE  Spec /\ []OneStop => []TakenIsReturned
  <1>1. IInv => TakenIsReturned
    BY DEF IInv, Overlays, TakenIsReturned, TerminatedHasNoOverlay
  <1> QED
    BY <1>1, Inductive, PTL

=============================================================================
