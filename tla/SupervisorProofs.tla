-------------------------- MODULE SupervisorProofs --------------------------
(***************************************************************************)
(* Theorems about Supervisor, for every set of sandboxes, slots, ports,    *)
(* calls and faults.                                                       *)
(***************************************************************************)
EXTENDS Supervisor, TLAPS

USE SlotsAssumption, FaultsAssumption, NoneAssumption

\* The first state has the declared types.
LEMMA TypeInit == Init => TypeOK
  BY DEF Init, TypeOK, Phases, Terminal, Kinds, LaunchPcs, KillPcs, CallPcs, SweepPcs

\* Every step keeps the types.
LEMMA TypeStep == TypeOK /\ [Next]_vars => TypeOK'
  <1> SUFFICES ASSUME TypeOK, [Next]_vars
               PROVE  TypeOK'
      OBVIOUS
  <1> USE DEF TypeOK, Phases, Terminal, Kinds, LaunchPcs, KillPcs, CallPcs, SweepPcs,
              vars, journal, host, memory, launchVars, killVars, callVars, sweepVars
  <1>1. CASE StartReserve
       BY <1>1 DEF StartReserve
  <1>2. CASE StartSweep
       BY <1>2 DEF StartSweep
  <1>3. CASE Crash
       BY <1>3 DEF Crash
  <1>4. CASE Reconcile
       BY <1>4 DEF Reconcile, OpenRecords
  <1>5. CASE ReconcileNothing
       BY <1>5 DEF ReconcileNothing, OpenRecords
  <1>6. CASE ReconcilePackage
       BY <1>6 DEF ReconcilePackage, PackageSweep, SweepFailures, Reclaimed
  <1>7. CASE ReconcileThrows
       BY <1>7 DEF ReconcileThrows, PackageSweep, SweepFailures, Reclaimed
  <1>8. CASE ReconcileHookPf
       BY <1>8 DEF ReconcileHookPf, ReclaimForwards
  <1>9. CASE ReconcileHookTap
       BY <1>9 DEF ReconcileHookTap, ReclaimTap
  <1>10. CASE ReconcileHookFails
       BY <1>10 DEF ReconcileHookFails
  <1>11. CASE ReconcileWrite
       BY <1>11 DEF ReconcileWrite
  <1>12. CASE ReconcileEnd
       BY <1>12 DEF ReconcileEnd
  <1>13. ASSUME NEW s \in Sandboxes, VmmExit(s)
       PROVE  TypeOK'
       BY <1>13 DEF VmmExit
  <1>14. ASSUME NEW s \in Sandboxes, Launch(s)
       PROVE  TypeOK'
       BY <1>14 DEF Launch, LaunchTo
  <1>15. ASSUME NEW s \in Sandboxes, ExpireBridge(s)
       PROVE  TypeOK'
       BY <1>15 DEF ExpireBridge
  <1>16. ASSUME NEW s \in Sandboxes, ReconcileMark(s)
       PROVE  TypeOK'
       BY <1>16 DEF ReconcileMark
  <1>17. ASSUME NEW s \in Sandboxes, ReconcilePick(s)
       PROVE  TypeOK'
       BY <1>17 DEF ReconcilePick
  <1>18. ASSUME NEW s \in Sandboxes, LaunchStage(s)
       PROVE  TypeOK'
       BY <1>18 DEF LaunchStage, Move, AfterMove, LaunchTo, CanMove, WriterOwns
  <1>19. ASSUME NEW s \in Sandboxes, ResolveNetless(s)
       PROVE  TypeOK'
       BY <1>19 DEF ResolveNetless, LaunchTo
  <1>20. ASSUME NEW s \in Sandboxes, ResolveAllocate(s)
       PROVE  TypeOK'
       BY <1>20 DEF ResolveAllocate, LaunchTo
  <1>21. ASSUME NEW s \in Sandboxes, ResolveRefused(s)
       PROVE  TypeOK'
       BY <1>21 DEF ResolveRefused, LaunchTo
  <1>22. ASSUME NEW s \in Sandboxes, ResolveProvision(s)
       PROVE  TypeOK'
       BY <1>22 DEF ResolveProvision, LaunchTo
  <1>23. ASSUME NEW s \in Sandboxes, ResolveUnwind(s)
       PROVE  TypeOK'
    <2>1. lslot[s] \in Slots
         BY <1>23 DEF ResolveUnwind
    <2>2. tap' \in [Slots -> Sandboxes \cup {None}]
         BY <1>23, <2>1 DEF ResolveUnwind
    <2> QED
         BY <1>23, <2>2, ZenonT(60) DEF ResolveUnwind, LaunchTo
  <1>24. ASSUME NEW s \in Sandboxes, LaunchCommit(s)
       PROVE  TypeOK'
       BY <1>24 DEF LaunchCommit, Move, AfterMove, CanMove, LaunchTo, WriterOwns
  <1>25. ASSUME NEW s \in Sandboxes, LaunchBind(s)
       PROVE  TypeOK'
       BY <1>25 DEF LaunchBind, LaunchTo, Bound
  <1>26. ASSUME NEW s \in Sandboxes, LaunchSpawn(s)
       PROVE  TypeOK'
       BY <1>26 DEF LaunchSpawn, LaunchTo
  <1>27. ASSUME NEW s \in Sandboxes, LaunchBooted(s)
       PROVE  TypeOK'
       BY <1>27 DEF LaunchBooted, LaunchTo
  <1>28. ASSUME NEW s \in Sandboxes, LaunchBootFailed(s)
       PROVE  TypeOK'
       BY <1>28 DEF LaunchBootFailed, LaunchTo, Reclaimed, AfterPutDown
  <1>29. ASSUME NEW s \in Sandboxes, LaunchBootStuck(s)
       PROVE  TypeOK'
       BY <1>29 DEF LaunchBootStuck, LaunchTo
  <1>30. ASSUME NEW s \in Sandboxes, LaunchDialed(s)
       PROVE  TypeOK'
       BY <1>30 DEF LaunchDialed, LaunchTo
  <1>31. ASSUME NEW s \in Sandboxes, LaunchDialFailed(s)
       PROVE  TypeOK'
       BY <1>31 DEF LaunchDialFailed, LaunchTo, Reclaimed, AfterPutDown
  <1>32. ASSUME NEW s \in Sandboxes, LaunchDialStuck(s)
       PROVE  TypeOK'
       BY <1>32 DEF LaunchDialStuck, LaunchTo
  <1>33. ASSUME NEW s \in Sandboxes, LaunchFallback(s)
       PROVE  TypeOK'
       BY <1>33 DEF LaunchFallback, WriterOwns, LaunchTo
  <1>34. ASSUME NEW s \in Sandboxes, LaunchFlip(s)
       PROVE  TypeOK'
       BY <1>34 DEF LaunchFlip, Move, AfterMove, LaunchTo, CanMove, WriterOwns
  <1>35. ASSUME NEW s \in Sandboxes, LaunchTrack(s)
       PROVE  TypeOK'
       BY <1>35 DEF LaunchTrack, LaunchTo
  <1>36. ASSUME NEW s \in Sandboxes, ParkHooks(s)
       PROVE  TypeOK'
       BY <1>36, ZenonT(60) DEF ParkHooks, LaunchTo, ReclaimTap
  <1>37. ASSUME NEW s \in Sandboxes, ParkHooksFail(s)
       PROVE  TypeOK'
       BY <1>37 DEF ParkHooksFail, LaunchTo
  <1>38. ASSUME NEW s \in Sandboxes, ParkWrite(s)
       PROVE  TypeOK'
       BY <1>38 DEF ParkWrite, WriterOwns, LaunchTo
  <1>39. ASSUME NEW k \in Killers, KillMark(k)
       PROVE  TypeOK'
       BY <1>39 DEF KillMark, Move, CanMove, KillTo, KillDone, WriterOwns
  <1>40. ASSUME NEW k \in Killers, KillStop(k)
       PROVE  TypeOK'
       BY <1>40 DEF KillStop, Reclaimed, KillTo
  <1>41. ASSUME NEW k \in Killers, KillStopFails(k)
       PROVE  TypeOK'
       BY <1>41 DEF KillStopFails, KillTo
  <1>42. ASSUME NEW k \in Killers, KillHookPf(k)
       PROVE  TypeOK'
       BY <1>42 DEF KillHookPf, ReclaimForwards, KillTo
  <1>43. ASSUME NEW k \in Killers, KillHookTap(k)
       PROVE  TypeOK'
       BY <1>43, ZenonT(60) DEF KillHookTap, ReclaimTap, KillTo
  <1>44. ASSUME NEW k \in Killers, KillHookFails(k)
       PROVE  TypeOK'
       BY <1>44 DEF KillHookFails, KillTo
  <1>45. ASSUME NEW k \in Killers, KillQuarantine(k)
       PROVE  TypeOK'
       BY <1>45 DEF KillQuarantine, WriterOwns, KillDone, KillTo
  <1>46. ASSUME NEW k \in Killers, KillFinish(k)
       PROVE  TypeOK'
       BY <1>46 DEF KillFinish, WriterOwns, KillTo, KillDone
  <1>47. ASSUME NEW k \in Killers, KillUntrack(k)
       PROVE  TypeOK'
       BY <1>47 DEF KillUntrack, KillDone, KillTo
  <1>48. ASSUME NEW k \in Killers, NEW s \in Sandboxes, Kill(k, s)
       PROVE  TypeOK'
       BY <1>48 DEF Kill, KillTo, Bound
  <1>49. ASSUME NEW x \in Callers, ExposeRead(x)
       PROVE  TypeOK'
       BY <1>49 DEF ExposeRead, CallTo, CallDone, Bound
  <1>50. ASSUME NEW x \in Callers, ExposeInstall(x)
       PROVE  TypeOK'
       BY <1>50 DEF ExposeInstall, CallTo
  <1>51. ASSUME NEW x \in Callers, ExposeInstallFails(x)
       PROVE  TypeOK'
       BY <1>51 DEF ExposeInstallFails, CallDone, CallTo
  <1>52. ASSUME NEW x \in Callers, ExposeJournal(x)
       PROVE  TypeOK'
       BY <1>52 DEF ExposeJournal, WriterOwns, CallTo, CallDone
  <1>53. ASSUME NEW x \in Callers, ExposeUndo(x)
       PROVE  TypeOK'
       BY <1>53 DEF ExposeUndo, ReclaimForwards, CallDone, CallTo
  <1>54. ASSUME NEW x \in Callers, GrantBridge(x)
       PROVE  TypeOK'
       BY <1>54 DEF GrantBridge, CallDone, CallTo
  <1>55. ASSUME NEW x \in Callers, NEW s \in Sandboxes, OpenBridge(x, s)
       PROVE  TypeOK'
       BY <1>55 DEF OpenBridge, CallTo, Bound
  <1>56. ASSUME NEW x \in Callers, NEW s \in Sandboxes, NEW p \in Ports, Expose(x, s, p)
       PROVE  TypeOK'
       BY <1>56 DEF Expose, CallTo
  <1>57. CASE UNCHANGED vars
       BY <1>57
  <1> QED
       BY <1>1, <1>2, <1>3, <1>4, <1>5, <1>6, <1>7, <1>8, <1>9, <1>10, <1>11, <1>12, <1>13, <1>14, <1>15, <1>16, <1>17, <1>18, <1>19, <1>20, <1>21, <1>22, <1>23, <1>24, <1>25, <1>26, <1>27, <1>28, <1>29, <1>30, <1>31, <1>32, <1>33, <1>34, <1>35, <1>36, <1>37, <1>38, <1>39, <1>40, <1>41, <1>42, <1>43, <1>44, <1>45, <1>46, <1>47, <1>48, <1>49, <1>50, <1>51, <1>52, <1>53, <1>54, <1>55, <1>56, <1>57 DEF Next, LaunchStep, KillStep, CallStep, SweepStep

\* Every reachable state has the declared types.
THEOREM TypeCorrect == Spec => []TypeOK
  <1>1. Init => TypeOK
       BY TypeInit
  <1>2. TypeOK /\ [Next]_vars => TypeOK'
       BY TypeStep
  <1> QED
       BY <1>1, <1>2, PTL DEF Spec

-----------------------------------------------------------------------------
(***************************************************************************)
(* The inductive invariant.  VmmJournaled and SingleVmm rest on who may    *)
(* touch a record: a sandbox is in at most one of "being launched",        *)
(* "tracked, so killable" and "being swept", and a launch spawns only      *)
(* right after it bound an unbound record.                                 *)
(***************************************************************************)

\* A launch in flight excludes the sweep and any kill of its sandbox.
LaunchOwns ==
    \A s \in Sandboxes : lpc[s] # "idle" =>
        rpc = "idle" /\ s \notin machines /\ phase[s] # "none"

\* A kill in flight excludes the sweep, and its target is not being launched.
KillOwns ==
    \A k \in Killers : kpc[k] # "idle" =>
        rpc = "idle" /\ phase[ktgt[k]] # "none" /\ lpc[ktgt[k]] = "idle"

\* A tracked machine belongs to a journaled sandbox.
TrackedJournaled == \A s \in machines : phase[s] # "none"

\* From the spawn until it is ready, a launch has its JailRecord in the journal;
\* where it may spawn, no VMM is alive, and where it may clear the binding, the
\* VMM is reclaimed.
LaunchAlone ==
    \A s \in Sandboxes :
        /\ lpc[s] \in {"spawn", "boot", "dial", "flip"} => machine[s] = "jailed"
        /\ lpc[s] = "spawn" => vmm[s] = {}
        /\ lpc[s] = "unbind" => machine[s] = "reclaiming" /\ vmm[s] = {}

\* What a running sweep still has to write is not terminal.
SweepOpen ==
    /\ rpc # "idle" => \A s \in ropen : phase[s] \notin Terminal
    /\ rpc \in {"hookPf", "hookTap", "terminate", "quarantine"} => rcur \in ropen

Ownership ==
    /\ LaunchOwns
    /\ KillOwns
    /\ TrackedJournaled
    /\ LaunchAlone
    /\ VmmJournaled
    /\ SingleVmm
    /\ SweepOpen

IInv == TypeOK /\ Ownership

\* The first state satisfies the inductive invariant.
LEMMA InvInit == Init => IInv
  BY TypeInit DEF Init, IInv, Ownership, LaunchOwns, KillOwns, TrackedJournaled,
                  LaunchAlone, VmmJournaled, SingleVmm, SweepOpen

\* Every step keeps it.
LEMMA InvStep == IInv /\ [Next]_vars => IInv'
  <1> SUFFICES ASSUME IInv, [Next]_vars
               PROVE  Ownership'
      BY TypeStep DEF IInv
  <1> TypeOK'
      BY TypeStep DEF IInv
  <1> USE DEF IInv, TypeOK, Ownership, LaunchOwns, KillOwns, TrackedJournaled, LaunchAlone,
              VmmJournaled, SingleVmm, SweepOpen, Terminal,
              vars, journal, host, memory, launchVars, killVars, callVars, sweepVars
  <1>1. CASE StartReserve
       BY <1>1 DEF StartReserve
  <1>2. CASE StartSweep
       BY <1>2 DEF StartSweep
  <1>3. CASE Crash
       BY <1>3 DEF Crash
  <1>4. CASE Reconcile
       BY <1>4 DEF Reconcile, OpenRecords, Accepting, Inflight, reconciling
  <1>5. CASE ReconcileNothing
       BY <1>5 DEF ReconcileNothing, OpenRecords, Accepting, Inflight, reconciling
  <1>6. CASE ReconcilePackage
       BY <1>6 DEF ReconcilePackage, PackageSweep, SweepFailures, reconciling, Reclaimed
  <1>7. CASE ReconcileThrows
       BY <1>7 DEF ReconcileThrows, PackageSweep, SweepFailures, reconciling, Reclaimed
  <1>8. CASE ReconcileHookPf
       BY <1>8 DEF ReconcileHookPf, ReclaimForwards
  <1>9. CASE ReconcileHookTap
       BY <1>9 DEF ReconcileHookTap, ReclaimTap
  <1>10. CASE ReconcileHookFails
       BY <1>10 DEF ReconcileHookFails
  <1>11. CASE ReconcileWrite
       BY <1>11 DEF ReconcileWrite
  <1>12. CASE ReconcileEnd
       BY <1>12 DEF ReconcileEnd
  <1>13. ASSUME NEW s \in Sandboxes, VmmExit(s)
       PROVE  Ownership'
       BY <1>13 DEF VmmExit
  <1>14. ASSUME NEW s \in Sandboxes, Launch(s)
       PROVE  Ownership'
       BY <1>14 DEF Launch, LaunchTo, Accepting, reconciling
  <1>15. ASSUME NEW s \in Sandboxes, ExpireBridge(s)
       PROVE  Ownership'
       BY <1>15 DEF ExpireBridge
  <1>16. ASSUME NEW s \in Sandboxes, ReconcileMark(s)
       PROVE  Ownership'
       BY <1>16 DEF ReconcileMark, reconciling
  <1>17. ASSUME NEW s \in Sandboxes, ReconcilePick(s)
       PROVE  Ownership'
       BY <1>17 DEF ReconcilePick
  <1>18. ASSUME NEW s \in Sandboxes, LaunchStage(s)
       PROVE  Ownership'
       BY <1>18 DEF LaunchStage, Move, AfterMove, LaunchTo, CanMove, WriterOwns
  <1>19. ASSUME NEW s \in Sandboxes, ResolveNetless(s)
       PROVE  Ownership'
       BY <1>19 DEF ResolveNetless, LaunchTo
  <1>20. ASSUME NEW s \in Sandboxes, ResolveAllocate(s)
       PROVE  Ownership'
       BY <1>20 DEF ResolveAllocate, LaunchTo
  <1>21. ASSUME NEW s \in Sandboxes, ResolveRefused(s)
       PROVE  Ownership'
       BY <1>21 DEF ResolveRefused, LaunchTo
  <1>22. ASSUME NEW s \in Sandboxes, ResolveProvision(s)
       PROVE  Ownership'
       BY <1>22 DEF ResolveProvision, LaunchTo
  <1>23. ASSUME NEW s \in Sandboxes, ResolveUnwind(s)
       PROVE  Ownership'
       BY <1>23 DEF ResolveUnwind, LaunchTo
  <1>24. ASSUME NEW s \in Sandboxes, LaunchCommit(s)
       PROVE  Ownership'
       BY <1>24 DEF LaunchCommit, Move, AfterMove, CanMove, LaunchTo, WriterOwns
  <1>25. ASSUME NEW s \in Sandboxes, LaunchBind(s)
       PROVE  Ownership'
       BY <1>25 DEF LaunchBind, LaunchTo, Bound
  <1>26. ASSUME NEW s \in Sandboxes, LaunchSpawn(s)
       PROVE  Ownership'
       BY <1>26 DEF LaunchSpawn, LaunchTo
  <1>27. ASSUME NEW s \in Sandboxes, LaunchBooted(s)
       PROVE  Ownership'
       BY <1>27 DEF LaunchBooted, LaunchTo
  <1>28. ASSUME NEW s \in Sandboxes, LaunchBootFailed(s)
       PROVE  Ownership'
       BY <1>28 DEF LaunchBootFailed, LaunchTo, Reclaimed, AfterPutDown
  <1>29. ASSUME NEW s \in Sandboxes, LaunchBootStuck(s)
       PROVE  Ownership'
       BY <1>29 DEF LaunchBootStuck, LaunchTo
  <1>30. ASSUME NEW s \in Sandboxes, LaunchDialed(s)
       PROVE  Ownership'
       BY <1>30 DEF LaunchDialed, LaunchTo
  <1>31. ASSUME NEW s \in Sandboxes, LaunchDialFailed(s)
       PROVE  Ownership'
       BY <1>31 DEF LaunchDialFailed, LaunchTo, Reclaimed, AfterPutDown
  <1>32. ASSUME NEW s \in Sandboxes, LaunchDialStuck(s)
       PROVE  Ownership'
       BY <1>32 DEF LaunchDialStuck, LaunchTo
  <1>33. ASSUME NEW s \in Sandboxes, LaunchFallback(s)
       PROVE  Ownership'
       BY <1>33 DEF LaunchFallback, WriterOwns, LaunchTo
  <1>34. ASSUME NEW s \in Sandboxes, LaunchFlip(s)
       PROVE  Ownership'
       BY <1>34 DEF LaunchFlip, Move, AfterMove, LaunchTo, CanMove, WriterOwns
  <1>35. ASSUME NEW s \in Sandboxes, LaunchTrack(s)
       PROVE  Ownership'
       BY <1>35 DEF LaunchTrack, LaunchTo
  <1>36. ASSUME NEW s \in Sandboxes, ParkHooks(s)
       PROVE  Ownership'
       BY <1>36 DEF ParkHooks, LaunchTo, ReclaimTap
  <1>37. ASSUME NEW s \in Sandboxes, ParkHooksFail(s)
       PROVE  Ownership'
       BY <1>37 DEF ParkHooksFail, LaunchTo
  <1>38. ASSUME NEW s \in Sandboxes, ParkWrite(s)
       PROVE  Ownership'
       BY <1>38 DEF ParkWrite, WriterOwns, LaunchTo
  <1>39. ASSUME NEW k \in Killers, KillMark(k)
       PROVE  Ownership'
       BY <1>39 DEF KillMark, Move, CanMove, KillTo, KillDone, WriterOwns
  <1>40. ASSUME NEW k \in Killers, KillStop(k)
       PROVE  Ownership'
       BY <1>40 DEF KillStop, Reclaimed, KillTo
  <1>41. ASSUME NEW k \in Killers, KillStopFails(k)
       PROVE  Ownership'
       BY <1>41 DEF KillStopFails, KillTo
  <1>42. ASSUME NEW k \in Killers, KillHookPf(k)
       PROVE  Ownership'
       BY <1>42 DEF KillHookPf, ReclaimForwards, KillTo
  <1>43. ASSUME NEW k \in Killers, KillHookTap(k)
       PROVE  Ownership'
       BY <1>43 DEF KillHookTap, ReclaimTap, KillTo
  <1>44. ASSUME NEW k \in Killers, KillHookFails(k)
       PROVE  Ownership'
       BY <1>44 DEF KillHookFails, KillTo
  <1>45. ASSUME NEW k \in Killers, KillQuarantine(k)
       PROVE  Ownership'
       BY <1>45 DEF KillQuarantine, WriterOwns, KillDone, KillTo
  <1>46. ASSUME NEW k \in Killers, KillFinish(k)
       PROVE  Ownership'
       BY <1>46 DEF KillFinish, WriterOwns, KillTo, KillDone
  <1>47. ASSUME NEW k \in Killers, KillUntrack(k)
       PROVE  Ownership'
       BY <1>47 DEF KillUntrack, KillDone, KillTo
  <1>48. ASSUME NEW k \in Killers, NEW s \in Sandboxes, Kill(k, s)
       PROVE  Ownership'
       BY <1>48 DEF Kill, KillTo, Bound, Accepting, reconciling
  <1>49. ASSUME NEW x \in Callers, ExposeRead(x)
       PROVE  Ownership'
       BY <1>49 DEF ExposeRead, CallTo, CallDone, Bound
  <1>50. ASSUME NEW x \in Callers, ExposeInstall(x)
       PROVE  Ownership'
       BY <1>50 DEF ExposeInstall, CallTo
  <1>51. ASSUME NEW x \in Callers, ExposeInstallFails(x)
       PROVE  Ownership'
       BY <1>51 DEF ExposeInstallFails, CallDone, CallTo
  <1>52. ASSUME NEW x \in Callers, ExposeJournal(x)
       PROVE  Ownership'
       BY <1>52 DEF ExposeJournal, WriterOwns, CallTo, CallDone
  <1>53. ASSUME NEW x \in Callers, ExposeUndo(x)
       PROVE  Ownership'
       BY <1>53 DEF ExposeUndo, ReclaimForwards, CallDone, CallTo
  <1>54. ASSUME NEW x \in Callers, GrantBridge(x)
       PROVE  Ownership'
       BY <1>54 DEF GrantBridge, CallDone, CallTo
  <1>55. ASSUME NEW x \in Callers, NEW s \in Sandboxes, OpenBridge(x, s)
       PROVE  Ownership'
       BY <1>55 DEF OpenBridge, CallTo, Bound, Accepting, reconciling
  <1>56. ASSUME NEW x \in Callers, NEW s \in Sandboxes, NEW p \in Ports, Expose(x, s, p)
       PROVE  Ownership'
       BY <1>56 DEF Expose, CallTo, Accepting, reconciling
  <1>57. CASE UNCHANGED vars
       BY <1>57
  <1> QED
       BY <1>1, <1>2, <1>3, <1>4, <1>5, <1>6, <1>7, <1>8, <1>9, <1>10, <1>11,
          <1>12, <1>13, <1>14, <1>15, <1>16, <1>17, <1>18, <1>19, <1>20, <1>21, <1>22,
          <1>23, <1>24, <1>25, <1>26, <1>27, <1>28, <1>29, <1>30, <1>31, <1>32, <1>33,
          <1>34, <1>35, <1>36, <1>37, <1>38, <1>39, <1>40, <1>41, <1>42, <1>43, <1>44,
          <1>45, <1>46, <1>47, <1>48, <1>49, <1>50, <1>51, <1>52, <1>53, <1>54, <1>55,
          <1>56, <1>57
       DEF Next, LaunchStep, KillStep, CallStep, SweepStep

\* The inductive invariant holds in every reachable state.
THEOREM Inductive == Spec => []IInv
  <1>1. Init => IInv
       BY InvInit
  <1>2. IInv /\ [Next]_vars => IInv'
       BY InvStep
  <1> QED
       BY <1>1, <1>2, PTL DEF Spec

\* No launch, kill, sweep or crash ever leaves a VMM without its JailRecord in
\* the journal, and no launch, restore or fallback boots one beside a live one.
THEOREM VmmsAreAccounted == Spec => []VmmAccounted
  <1>1. IInv => VmmAccounted
       BY DEF IInv, Ownership, VmmAccounted
  <1> QED
       BY <1>1, Inductive, PTL

-----------------------------------------------------------------------------
(***************************************************************************)
(* Who moves a record, and when.                                           *)
(***************************************************************************)
\* A record is as far as its launch: nobody else moves it meanwhile.
LaunchPhase ==
    \A s \in Sandboxes :
        /\ lpc[s] = "stage" => phase[s] = "allocating"
        /\ lpc[s] \in {"resolve", "provision", "commit"} => phase[s] = "staging"
        /\ lpc[s] \in {"bind", "spawn", "boot", "dial", "flip", "unbind"} => phase[s] = "booting"
        /\ lpc[s] = "track" => phase[s] = "ready"
        /\ lpc[s] \in {"park", "parkDirty", "terminate", "quarantine"} =>
               phase[s] \in {"staging", "booting"}
        /\ lslot[s] # None => lpc[s] \in {"provision", "commit"}
        /\ phase[s] \in {"none", "allocating", "staging"} => tapSlot[s] = None
        /\ phase[s] = "none" => lpc[s] = "idle"

\* What this process tracks was launched, and is not being launched.
Tracked == \A s \in machines : phase[s] \in {"ready", "terminating"} \cup Reconciled

\* A kill is for a record that was ready; one that took it is the reason why
\* it no longer is.
KillMoves ==
    \A k \in Killers :
        /\ kpc[k] = "mark" => phase[ktgt[k]] \in Reconciled \cup {"ready", "terminating"}
        /\ kpc[k] \notin {"idle", "mark"} => phase[ktgt[k]] \in Terminal \cup {"terminating"}

\* The sweep reclaims nothing before every open record is marked.
SweepMarked ==
    /\ rpc = "mark" => \A s \in Sandboxes : phase[s] \notin Terminal \cup {"none"} => s \in ropen
    /\ rpc # "idle" => \A s \in ropen : phase[s] # "none"
    /\ rpc \notin {"idle", "mark"} => \A s \in Sandboxes : phase[s] \in Reconciled \cup {"none"}

\* A rootd that is not serving does nothing.
Off ==
    up # "serving" =>
        /\ \A s \in Sandboxes : lpc[s] = "idle" /\ lslot[s] = None
        /\ \A k \in Killers : kpc[k] = "idle"
        /\ machines = {} /\ rpc = "idle"

\* All of them.
Order ==
    /\ LaunchPhase
    /\ Tracked
    /\ KillMoves
    /\ SweepMarked
    /\ Off
    /\ BridgesHaveMachine

\* Every step keeps the order of the operations.
LEMMA OrderStep == IInv /\ Order /\ [Next]_vars => Order'
  <1> SUFFICES ASSUME IInv, Order, [Next]_vars
               PROVE  Order'
    OBVIOUS
  <1> /\ phase \in [Sandboxes -> Phases] /\ lpc \in [Sandboxes -> LaunchPcs]
      /\ tapSlot \in [Sandboxes -> Slots \cup {None}] /\ lslot \in [Sandboxes -> Slots \cup {None}]
      /\ kpc \in [Killers -> KillPcs] /\ ktgt \in [Killers -> Sandboxes \cup {None}]
      /\ \A k \in Killers : kpc[k] # "idle" => ktgt[k] \in Sandboxes
      /\ machines \subseteq Sandboxes /\ bridges \subseteq Sandboxes /\ ropen \subseteq Sandboxes /\ rpc \in SweepPcs
      /\ up \in {"down", "starting", "serving"}
      /\ rpc \in {"hookPf", "hookTap", "terminate", "quarantine"} => rcur \in Sandboxes
      /\ LaunchOwns /\ KillOwns /\ SweepOpen
    BY DEF IInv, TypeOK, Ownership
  <1> USE DEF Order, BridgesHaveMachine, LaunchPhase, Tracked, KillMoves, SweepMarked, Off, Terminal, Reconciled, LaunchOwns,
              KillOwns, SweepOpen, vars, journal, host, memory, launchVars, killVars,
              callVars, sweepVars
  <1>1. CASE StartReserve
    BY <1>1 DEF StartReserve, OwnsDataplane
  <1>2. CASE StartSweep
    BY <1>2 DEF StartSweep, OwnsDataplane
  <1>3. CASE Crash
    BY <1>3 DEF Crash
  <1>4. CASE Reconcile
    BY <1>4 DEF Reconcile, Accepting, Inflight, OpenRecords, reconciling
  <1>5. CASE ReconcileNothing
    BY <1>5 DEF ReconcileNothing, Accepting, Inflight, OpenRecords, reconciling
  <1>6. CASE ReconcilePackage
    BY <1>6 DEF ReconcilePackage, SweepFailures, PackageSweep, Reclaimed
  <1>7. CASE ReconcileThrows
    BY <1>7 DEF ReconcileThrows, SweepFailures, PackageSweep, Reclaimed
  <1>8. CASE ReconcileHookPf
    BY <1>8 DEF ReconcileHookPf, ReclaimForwards
  <1>9. CASE ReconcileHookTap
    BY <1>9 DEF ReconcileHookTap, ReclaimTap
  <1>10. CASE ReconcileHookFails
    BY <1>10 DEF ReconcileHookFails
  <1>11. CASE ReconcileWrite
    BY <1>11 DEF ReconcileWrite
  <1>12. CASE ReconcileEnd
    BY <1>12 DEF ReconcileEnd
  <1>13. ASSUME NEW s \in Sandboxes, VmmExit(s)
       PROVE  Order'
    BY <1>13 DEF VmmExit
  <1>14. ASSUME NEW s \in Sandboxes, Launch(s)
       PROVE  Order'
    BY <1>14 DEF Launch, Accepting, LaunchTo, reconciling
  <1>15. ASSUME NEW s \in Sandboxes, ExpireBridge(s)
       PROVE  Order'
    BY <1>15 DEF ExpireBridge
  <1>16. ASSUME NEW s \in Sandboxes, ReconcileMark(s)
       PROVE  Order'
    BY <1>16 DEF ReconcileMark
  <1>17. ASSUME NEW s \in Sandboxes, ReconcilePick(s)
       PROVE  Order'
    BY <1>17 DEF ReconcilePick
  <1>18. ASSUME NEW s \in Sandboxes, LaunchStage(s)
       PROVE  Order'
    BY <1>18 DEF LaunchStage, Move, LaunchTo, AfterMove, CanMove, WriterOwns
  <1>19. ASSUME NEW s \in Sandboxes, ResolveNetless(s)
       PROVE  Order'
    BY <1>19 DEF ResolveNetless, LaunchTo
  <1>20. ASSUME NEW s \in Sandboxes, ResolveAllocate(s)
       PROVE  Order'
    BY <1>20 DEF ResolveAllocate, LaunchTo
  <1>21. ASSUME NEW s \in Sandboxes, ResolveRefused(s)
       PROVE  Order'
    BY <1>21 DEF ResolveRefused, LaunchTo
  <1>22. ASSUME NEW s \in Sandboxes, ResolveProvision(s)
       PROVE  Order'
    BY <1>22 DEF ResolveProvision, Kinds, LaunchTo
  <1>23. ASSUME NEW s \in Sandboxes, ResolveUnwind(s)
       PROVE  Order'
    BY <1>23 DEF ResolveUnwind, LaunchTo
  <1>24. ASSUME NEW s \in Sandboxes, LaunchCommit(s)
       PROVE  Order'
    BY <1>24 DEF LaunchCommit, Move, CanMove, LaunchTo, AfterMove, WriterOwns
  <1>25. ASSUME NEW s \in Sandboxes, LaunchBind(s)
       PROVE  Order'
    BY <1>25 DEF LaunchBind, Bound, LaunchTo
  <1>26. ASSUME NEW s \in Sandboxes, LaunchSpawn(s)
       PROVE  Order'
    BY <1>26 DEF LaunchSpawn, LaunchTo
  <1>27. ASSUME NEW s \in Sandboxes, LaunchBooted(s)
       PROVE  Order'
    BY <1>27 DEF LaunchBooted, LaunchTo
  <1>28. ASSUME NEW s \in Sandboxes, LaunchBootFailed(s)
       PROVE  Order'
    BY <1>28 DEF LaunchBootFailed, Reclaimed, LaunchTo, AfterPutDown
  <1>29. ASSUME NEW s \in Sandboxes, LaunchBootStuck(s)
       PROVE  Order'
    BY <1>29 DEF LaunchBootStuck, LaunchTo
  <1>30. ASSUME NEW s \in Sandboxes, LaunchDialed(s)
       PROVE  Order'
    BY <1>30 DEF LaunchDialed, LaunchTo
  <1>31. ASSUME NEW s \in Sandboxes, LaunchDialFailed(s)
       PROVE  Order'
    BY <1>31 DEF LaunchDialFailed, Reclaimed, LaunchTo, AfterPutDown
  <1>32. ASSUME NEW s \in Sandboxes, LaunchDialStuck(s)
       PROVE  Order'
    BY <1>32 DEF LaunchDialStuck, LaunchTo
  <1>33. ASSUME NEW s \in Sandboxes, LaunchFallback(s)
       PROVE  Order'
    BY <1>33 DEF LaunchFallback, WriterOwns, LaunchTo
  <1>34. ASSUME NEW s \in Sandboxes, LaunchFlip(s)
       PROVE  Order'
    BY <1>34 DEF LaunchFlip, Move, LaunchTo, AfterMove, CanMove, WriterOwns
  <1>35. ASSUME NEW s \in Sandboxes, LaunchTrack(s)
       PROVE  Order'
    BY <1>35 DEF LaunchTrack, LaunchTo
  <1>36. ASSUME NEW s \in Sandboxes, ParkHooks(s)
       PROVE  Order'
    BY <1>36 DEF ParkHooks, ReclaimTap, LaunchTo
  <1>37. ASSUME NEW s \in Sandboxes, ParkHooksFail(s)
       PROVE  Order'
    BY <1>37 DEF ParkHooksFail, LaunchTo
  <1>38. ASSUME NEW s \in Sandboxes, ParkWrite(s)
       PROVE  Order'
    BY <1>38 DEF ParkWrite, WriterOwns, LaunchTo
  <1>39. ASSUME NEW k \in Killers, KillMark(k)
       PROVE  Order'
    BY <1>39 DEF KillMark, Move, CanMove, KillTo, KillDone, WriterOwns
  <1>40. ASSUME NEW k \in Killers, KillStop(k)
       PROVE  Order'
    BY <1>40 DEF KillStop, Reclaimed, KillTo
  <1>41. ASSUME NEW k \in Killers, KillStopFails(k)
       PROVE  Order'
    BY <1>41 DEF KillStopFails, KillTo
  <1>42. ASSUME NEW k \in Killers, KillHookPf(k)
       PROVE  Order'
    BY <1>42 DEF KillHookPf, ReclaimForwards, KillTo
  <1>43. ASSUME NEW k \in Killers, KillHookTap(k)
       PROVE  Order'
    BY <1>43 DEF KillHookTap, ReclaimTap, KillTo
  <1>44. ASSUME NEW k \in Killers, KillHookFails(k)
       PROVE  Order'
    BY <1>44 DEF KillHookFails, KillTo
  <1>45. ASSUME NEW k \in Killers, KillQuarantine(k)
       PROVE  Order'
    BY <1>45 DEF KillQuarantine, WriterOwns, KillDone, KillTo
  <1>46. ASSUME NEW k \in Killers, KillFinish(k)
       PROVE  Order'
    BY <1>46 DEF KillFinish, WriterOwns, KillTo, KillDone
  <1>47. ASSUME NEW k \in Killers, KillUntrack(k)
       PROVE  Order'
    BY <1>47 DEF KillUntrack, KillDone, KillTo
  <1>48. ASSUME NEW k \in Killers, NEW s \in Sandboxes, Kill(k, s)
       PROVE  Order'
    BY <1>48 DEF Kill, Accepting, Bound, KillTo, reconciling
  <1>49. ASSUME NEW x \in Callers, ExposeRead(x)
       PROVE  Order'
    BY <1>49 DEF ExposeRead, ExposeLockFree, Bound, Live, CallTo, CallDone
  <1>50. ASSUME NEW x \in Callers, ExposeInstall(x)
       PROVE  Order'
    BY <1>50 DEF ExposeInstall, CallTo
  <1>51. ASSUME NEW x \in Callers, ExposeInstallFails(x)
       PROVE  Order'
    BY <1>51 DEF ExposeInstallFails, CallDone, CallTo
  <1>52. ASSUME NEW x \in Callers, ExposeJournal(x)
       PROVE  Order'
    BY <1>52 DEF ExposeJournal, WriterOwns, CallDone, CallTo
  <1>53. ASSUME NEW x \in Callers, ExposeUndo(x)
       PROVE  Order'
    BY <1>53 DEF ExposeUndo, ReclaimForwards, CallDone, CallTo
  <1>54. ASSUME NEW x \in Callers, GrantBridge(x)
       PROVE  Order'
    BY <1>54 DEF GrantBridge, Live, CallDone, CallTo
  <1>55. ASSUME NEW x \in Callers, NEW s \in Sandboxes, OpenBridge(x, s)
       PROVE  Order'
    BY <1>55 DEF OpenBridge, Accepting, Bound, CallTo, reconciling
  <1>56. ASSUME NEW x \in Callers, NEW s \in Sandboxes, NEW p \in Ports, Expose(x, s, p)
       PROVE  Order'
    BY <1>56 DEF Expose, Accepting, CallTo, reconciling
  <1>57. CASE UNCHANGED vars
    BY <1>57
  <1> QED
    BY <1>1, <1>2, <1>3, <1>4, <1>5, <1>6, <1>7, <1>8, <1>9, <1>10, <1>11, <1>12, <1>13,
       <1>14, <1>15, <1>16, <1>17, <1>18, <1>19, <1>20, <1>21, <1>22, <1>23, <1>24, <1>25,
       <1>26, <1>27, <1>28, <1>29, <1>30, <1>31, <1>32, <1>33, <1>34, <1>35, <1>36, <1>37,
       <1>38, <1>39, <1>40, <1>41, <1>42, <1>43, <1>44, <1>45, <1>46, <1>47, <1>48, <1>49,
       <1>50, <1>51, <1>52, <1>53, <1>54, <1>55, <1>56, <1>57
    DEF Next, LaunchStep, KillStep, CallStep, SweepStep

-----------------------------------------------------------------------------
(***************************************************************************)
(* Who stops a VMM before a record becomes terminated.                     *)
(***************************************************************************)
\* Wherever a terminated write may follow, no VMM is left, and the sweep's
\* failed list has every one that is.
PutDown ==
    /\ \A s \in Sandboxes :
          /\ lpc[s] \in {"stage", "resolve", "provision", "commit", "bind"} => vmm[s] = {}
          /\ lpc[s] \in {"park", "terminate"} /\ NoStuckDial => vmm[s] = {}
          /\ phase[s] = "none" => vmm[s] = {}
    /\ \A k \in Killers : kpc[k] \in {"hookPf", "hookTap", "finish"} => vmm[ktgt[k]] = {}
    /\ rpc \notin {"idle", "mark"} => \A s \in Sandboxes : vmm[s] # {} => s \in rfail
    /\ rpc \in {"hookPf", "hookTap", "terminate"} => rcur \notin rfail
    /\ NoStuckDial => TerminatedHasNoVmm

\* Every step keeps VMMs down once they have to be.
LEMMA PutDownStep == IInv /\ Order /\ PutDown /\ [Next]_vars => PutDown'
  <1> SUFFICES ASSUME IInv, Order, PutDown, [Next]_vars
               PROVE  PutDown'
    OBVIOUS
  <1> /\ phase \in [Sandboxes -> Phases] /\ lpc \in [Sandboxes -> LaunchPcs]
      /\ vmm \in [Sandboxes -> SUBSET Kinds] /\ lkind \in [Sandboxes -> Kinds]
      /\ kpc \in [Killers -> KillPcs] /\ ktgt \in [Killers -> Sandboxes \cup {None}]
      /\ \A k \in Killers : kpc[k] # "idle" => ktgt[k] \in Sandboxes
      /\ rfail \subseteq Sandboxes /\ rpc \in SweepPcs
      /\ rpc \in {"hookPf", "hookTap", "terminate", "quarantine"} => rcur \in Sandboxes
      /\ LaunchOwns /\ KillOwns /\ VmmJournaled /\ LaunchAlone /\ LaunchPhase /\ SweepMarked
      /\ Off /\ SweepOpen
    BY DEF IInv, TypeOK, Ownership, Order
  <1> USE DEF PutDown, TerminatedHasNoVmm, LaunchOwns, KillOwns, LaunchAlone, LaunchPhase,
              vars, journal, host, memory, launchVars, killVars, callVars, sweepVars
  <1>1. CASE StartReserve
    BY <1>1 DEF StartReserve, OwnsDataplane
  <1>2. CASE StartSweep
    BY <1>2 DEF StartSweep, OwnsDataplane
  <1>3. CASE Crash
    BY <1>3 DEF Crash, Off
  <1>4. CASE Reconcile
    BY <1>4 DEF Reconcile, Accepting, Inflight, OpenRecords, reconciling, Terminal
  <1>5. CASE ReconcileNothing
    BY <1>5 DEF ReconcileNothing, Accepting, Inflight, OpenRecords, reconciling, Terminal
  <1>6. CASE ReconcilePackage
    BY <1>6 DEF ReconcilePackage, SweepFailures, PackageSweep, Reclaimed, VmmJournaled,
        Reconciled
  <1>7. CASE ReconcileThrows
    BY <1>7 DEF ReconcileThrows, SweepFailures, PackageSweep, Reclaimed
  <1>8. CASE ReconcileHookPf
    BY <1>8 DEF ReconcileHookPf, ReclaimForwards
  <1>9. CASE ReconcileHookTap
    BY <1>9 DEF ReconcileHookTap, ReclaimTap
  <1>10. CASE ReconcileHookFails
    BY <1>10 DEF ReconcileHookFails
  <1>11. CASE ReconcileWrite
    BY <1>11 DEF ReconcileWrite
  <1>12. CASE ReconcileEnd
    BY <1>12 DEF ReconcileEnd
  <1>13. ASSUME NEW s \in Sandboxes, VmmExit(s)
       PROVE  PutDown'
    BY <1>13 DEF VmmExit
  <1>14. ASSUME NEW s \in Sandboxes, Launch(s)
       PROVE  PutDown'
    BY <1>14 DEF Launch, Accepting, LaunchTo, reconciling
  <1>15. ASSUME NEW s \in Sandboxes, ExpireBridge(s)
       PROVE  PutDown'
    BY <1>15 DEF ExpireBridge
  <1>16. ASSUME NEW s \in Sandboxes, ReconcileMark(s)
       PROVE  PutDown'
    BY <1>16 DEF ReconcileMark
  <1>17. ASSUME NEW s \in Sandboxes, ReconcilePick(s)
       PROVE  PutDown'
    BY <1>17 DEF ReconcilePick
  <1>18. ASSUME NEW s \in Sandboxes, LaunchStage(s)
       PROVE  PutDown'
    BY <1>18 DEF LaunchStage, Move, LaunchTo, AfterMove, CanMove, WriterOwns, Reconciled
  <1>19. ASSUME NEW s \in Sandboxes, ResolveNetless(s)
       PROVE  PutDown'
    BY <1>19 DEF ResolveNetless, LaunchTo
  <1>20. ASSUME NEW s \in Sandboxes, ResolveAllocate(s)
       PROVE  PutDown'
    BY <1>20 DEF ResolveAllocate, LaunchTo
  <1>21. ASSUME NEW s \in Sandboxes, ResolveRefused(s)
       PROVE  PutDown'
    BY <1>21 DEF ResolveRefused, LaunchTo
  <1>22. ASSUME NEW s \in Sandboxes, ResolveProvision(s)
       PROVE  PutDown'
    BY <1>22 DEF ResolveProvision, Kinds, LaunchTo
  <1>23. ASSUME NEW s \in Sandboxes, ResolveUnwind(s)
       PROVE  PutDown'
    BY <1>23 DEF ResolveUnwind, LaunchTo
  <1>24. ASSUME NEW s \in Sandboxes, LaunchCommit(s)
       PROVE  PutDown'
    BY <1>24 DEF LaunchCommit, Move, CanMove, LaunchTo, AfterMove, WriterOwns, Reconciled
  <1>25. ASSUME NEW s \in Sandboxes, LaunchBind(s)
       PROVE  PutDown'
    BY <1>25 DEF LaunchBind, Bound, LaunchTo
  <1>26. ASSUME NEW s \in Sandboxes, LaunchSpawn(s)
       PROVE  PutDown'
    BY <1>26 DEF LaunchSpawn, LaunchTo
  <1>27. ASSUME NEW s \in Sandboxes, LaunchBooted(s)
       PROVE  PutDown'
    BY <1>27 DEF LaunchBooted, LaunchTo
  <1>28. ASSUME NEW s \in Sandboxes, LaunchBootFailed(s)
       PROVE  PutDown'
    BY <1>28 DEF LaunchBootFailed, Reclaimed, LaunchTo, AfterPutDown
  <1>29. ASSUME NEW s \in Sandboxes, LaunchBootStuck(s)
       PROVE  PutDown'
    BY <1>29 DEF LaunchBootStuck, LaunchTo
  <1>30. ASSUME NEW s \in Sandboxes, LaunchDialed(s)
       PROVE  PutDown'
    BY <1>30 DEF LaunchDialed, LaunchTo
  <1>31. ASSUME NEW s \in Sandboxes, LaunchDialFailed(s)
       PROVE  PutDown'
    BY <1>31 DEF LaunchDialFailed, Reclaimed, LaunchTo, AfterPutDown
  <1>32. ASSUME NEW s \in Sandboxes, LaunchDialStuck(s)
       PROVE  PutDown'
    BY <1>32 DEF LaunchDialStuck, LaunchTo, NoStuckDial
  <1>33. ASSUME NEW s \in Sandboxes, LaunchFallback(s)
       PROVE  PutDown'
    BY <1>33 DEF LaunchFallback, WriterOwns, LaunchTo, Reconciled
  <1>34. ASSUME NEW s \in Sandboxes, LaunchFlip(s)
       PROVE  PutDown'
    BY <1>34 DEF LaunchFlip, Move, LaunchTo, AfterMove, CanMove, WriterOwns, Reconciled
  <1>35. ASSUME NEW s \in Sandboxes, LaunchTrack(s)
       PROVE  PutDown'
    BY <1>35 DEF LaunchTrack, LaunchTo
  <1>36. ASSUME NEW s \in Sandboxes, ParkHooks(s)
       PROVE  PutDown'
    BY <1>36 DEF ParkHooks, ReclaimTap, LaunchTo
  <1>37. ASSUME NEW s \in Sandboxes, ParkHooksFail(s)
       PROVE  PutDown'
    BY <1>37 DEF ParkHooksFail, LaunchTo
  <1>38. ASSUME NEW s \in Sandboxes, ParkWrite(s)
       PROVE  PutDown'
    BY <1>38 DEF ParkWrite, WriterOwns, LaunchTo, Reconciled
  <1>39. ASSUME NEW k \in Killers, KillMark(k)
       PROVE  PutDown'
    BY <1>39 DEF KillMark, Move, CanMove, KillTo, KillDone, WriterOwns
  <1>40. ASSUME NEW k \in Killers, KillStop(k)
       PROVE  PutDown'
    BY <1>40 DEF KillStop, Reclaimed, KillTo
  <1>41. ASSUME NEW k \in Killers, KillStopFails(k)
       PROVE  PutDown'
    BY <1>41 DEF KillStopFails, KillTo
  <1>42. ASSUME NEW k \in Killers, KillHookPf(k)
       PROVE  PutDown'
    BY <1>42 DEF KillHookPf, ReclaimForwards, KillTo
  <1>43. ASSUME NEW k \in Killers, KillHookTap(k)
       PROVE  PutDown'
    BY <1>43 DEF KillHookTap, ReclaimTap, KillTo
  <1>44. ASSUME NEW k \in Killers, KillHookFails(k)
       PROVE  PutDown'
    BY <1>44 DEF KillHookFails, KillTo
  <1>45. ASSUME NEW k \in Killers, KillQuarantine(k)
       PROVE  PutDown'
    BY <1>45 DEF KillQuarantine, WriterOwns, KillDone, KillTo
  <1>46. ASSUME NEW k \in Killers, KillFinish(k)
       PROVE  PutDown'
    BY <1>46 DEF KillFinish, WriterOwns, KillTo, KillDone
  <1>47. ASSUME NEW k \in Killers, KillUntrack(k)
       PROVE  PutDown'
    BY <1>47 DEF KillUntrack, KillDone, KillTo
  <1>48. ASSUME NEW k \in Killers, NEW s \in Sandboxes, Kill(k, s)
       PROVE  PutDown'
    BY <1>48 DEF Kill, Accepting, Bound, Terminal, KillTo, reconciling
  <1>49. ASSUME NEW x \in Callers, ExposeRead(x)
       PROVE  PutDown'
    BY <1>49 DEF ExposeRead, ExposeLockFree, Bound, Live, CallTo, CallDone
  <1>50. ASSUME NEW x \in Callers, ExposeInstall(x)
       PROVE  PutDown'
    BY <1>50 DEF ExposeInstall, CallTo
  <1>51. ASSUME NEW x \in Callers, ExposeInstallFails(x)
       PROVE  PutDown'
    BY <1>51 DEF ExposeInstallFails, CallDone, CallTo
  <1>52. ASSUME NEW x \in Callers, ExposeJournal(x)
       PROVE  PutDown'
    BY <1>52 DEF ExposeJournal, WriterOwns, CallDone, CallTo
  <1>53. ASSUME NEW x \in Callers, ExposeUndo(x)
       PROVE  PutDown'
    BY <1>53 DEF ExposeUndo, ReclaimForwards, CallDone, CallTo
  <1>54. ASSUME NEW x \in Callers, GrantBridge(x)
       PROVE  PutDown'
    BY <1>54 DEF GrantBridge, Live, CallDone, CallTo
  <1>55. ASSUME NEW x \in Callers, NEW s \in Sandboxes, OpenBridge(x, s)
       PROVE  PutDown'
    BY <1>55 DEF OpenBridge, Accepting, Bound, CallTo, reconciling
  <1>56. ASSUME NEW x \in Callers, NEW s \in Sandboxes, NEW p \in Ports, Expose(x, s, p)
       PROVE  PutDown'
    BY <1>56 DEF Expose, Accepting, CallTo, reconciling
  <1>57. CASE UNCHANGED vars
    BY <1>57
  <1> QED
    BY <1>1, <1>2, <1>3, <1>4, <1>5, <1>6, <1>7, <1>8, <1>9, <1>10, <1>11, <1>12, <1>13,
       <1>14, <1>15, <1>16, <1>17, <1>18, <1>19, <1>20, <1>21, <1>22, <1>23, <1>24, <1>25,
       <1>26, <1>27, <1>28, <1>29, <1>30, <1>31, <1>32, <1>33, <1>34, <1>35, <1>36, <1>37,
       <1>38, <1>39, <1>40, <1>41, <1>42, <1>43, <1>44, <1>45, <1>46, <1>47, <1>48, <1>49,
       <1>50, <1>51, <1>52, <1>53, <1>54, <1>55, <1>56, <1>57
    DEF Next, LaunchStep, KillStep, CallStep, SweepStep

-----------------------------------------------------------------------------
(***************************************************************************)
(* The forward tables and the bridge grants.                               *)
(***************************************************************************)
\* Inside #withExposeLock.
InSection(x) == xpc[x] \in {"install", "journal", "undo"}

\* A caller in the section has it to itself and has planned over what the
\* journal records; a sandbox that was never tracked has no forward.
Forwards ==
    /\ \A x \in Callers : InSection(x) => lpc[xtgt[x]] = "idle" /\ phase[xtgt[x]] # "none"
    /\ \A x, y \in Callers : InSection(x) /\ InSection(y) /\ xtgt[x] = xtgt[y] => x = y
    /\ \A x \in Callers : xpc[x] = "install" => xfwd[x] = exposedPorts[xtgt[x]] \cup {xport[x]}
    /\ \A x \in Callers : xpc[x] = "undo" => phase[xtgt[x]] \in Reconciled
    /\ \A x \in Callers : xpc[x] = "journal" /\ phase[xtgt[x]] = "ready" /\ xtgt[x] \in machines
          => pfTable[xtgt[x]] = exposedPorts[xtgt[x]] \cup {xport[x]}
    /\ \A s \in Sandboxes : lpc[s] # "idle" \/ phase[s] = "none" =>
          pfTable[s] = {} /\ exposedPorts[s] = {}
    /\ ForwardsMatchJournal

\* Every step keeps the forward tables with the journal.
LEMMA ForwardStep == IInv /\ Order /\ Forwards /\ [Next]_vars => Forwards'
  <1> SUFFICES ASSUME IInv, Order, Forwards, [Next]_vars
               PROVE  Forwards'
    OBVIOUS
  <1> /\ phase \in [Sandboxes -> Phases] /\ lpc \in [Sandboxes -> LaunchPcs]
      /\ pfTable \in [Sandboxes -> SUBSET Ports] /\ exposedPorts \in [Sandboxes -> SUBSET Ports]
      /\ kpc \in [Killers -> KillPcs] /\ ktgt \in [Killers -> Sandboxes \cup {None}]
      /\ \A k \in Killers : kpc[k] # "idle" => ktgt[k] \in Sandboxes
      /\ xpc \in [Callers -> CallPcs] /\ xtgt \in [Callers -> Sandboxes \cup {None}]
      /\ \A x \in Callers : xpc[x] # "idle" => xtgt[x] \in Sandboxes
      /\ xport \in [Callers -> Ports \cup {None}] /\ xfwd \in [Callers -> SUBSET Ports]
      /\ machines \subseteq Sandboxes
      /\ rpc \in {"hookPf", "hookTap", "terminate", "quarantine"} => rcur \in Sandboxes
      /\ LaunchOwns /\ KillOwns /\ TrackedJournaled /\ SweepOpen
      /\ LaunchPhase /\ SweepMarked /\ Off /\ Tracked /\ KillMoves
    BY DEF IInv, TypeOK, Ownership, Order
  <1> USE DEF Forwards, InSection, ForwardsMatchJournal, LaunchOwns, KillOwns, LaunchPhase,
              Reconciled, vars, journal, host, memory, launchVars, killVars, callVars, sweepVars
  <1>1. CASE StartReserve
    BY <1>1 DEF StartReserve, OwnsDataplane
  <1>2. CASE StartSweep
    BY <1>2 DEF StartSweep, OwnsDataplane, Off
  <1>3. CASE Crash
    BY <1>3 DEF Crash
  <1>4. CASE Reconcile
    BY <1>4 DEF Reconcile, Accepting, Inflight, OpenRecords, reconciling, Terminal
  <1>5. CASE ReconcileNothing
    BY <1>5 DEF ReconcileNothing, Accepting, Inflight, OpenRecords, reconciling, Terminal
  <1>6. CASE ReconcilePackage
    BY <1>6 DEF ReconcilePackage, SweepFailures, PackageSweep, Reclaimed
  <1>7. CASE ReconcileThrows
    BY <1>7 DEF ReconcileThrows, SweepFailures, PackageSweep, Reclaimed
  <1>8. CASE ReconcileHookPf
    BY <1>8 DEF ReconcileHookPf, ReclaimForwards, SweepMarked
  <1>9. CASE ReconcileHookTap
    BY <1>9 DEF ReconcileHookTap, ReclaimTap
  <1>10. CASE ReconcileHookFails
    BY <1>10 DEF ReconcileHookFails
  <1>11. CASE ReconcileWrite
    BY <1>11 DEF ReconcileWrite
  <1>12. CASE ReconcileEnd
    BY <1>12 DEF ReconcileEnd
  <1>13. ASSUME NEW s \in Sandboxes, VmmExit(s)
       PROVE  Forwards'
    BY <1>13 DEF VmmExit
  <1>14. ASSUME NEW s \in Sandboxes, Launch(s)
       PROVE  Forwards'
    BY <1>14 DEF Launch, Accepting, LaunchTo, reconciling, TrackedJournaled
  <1>15. ASSUME NEW s \in Sandboxes, ExpireBridge(s)
       PROVE  Forwards'
    BY <1>15 DEF ExpireBridge
  <1>16. ASSUME NEW s \in Sandboxes, ReconcileMark(s)
       PROVE  Forwards'
    BY <1>16 DEF ReconcileMark
  <1>17. ASSUME NEW s \in Sandboxes, ReconcilePick(s)
       PROVE  Forwards'
    BY <1>17 DEF ReconcilePick
  <1>18. ASSUME NEW s \in Sandboxes, LaunchStage(s)
       PROVE  Forwards'
    BY <1>18 DEF LaunchStage, Move, LaunchTo, AfterMove, CanMove, WriterOwns
  <1>19. ASSUME NEW s \in Sandboxes, ResolveNetless(s)
       PROVE  Forwards'
    BY <1>19 DEF ResolveNetless, LaunchTo
  <1>20. ASSUME NEW s \in Sandboxes, ResolveAllocate(s)
       PROVE  Forwards'
    BY <1>20 DEF ResolveAllocate, LaunchTo
  <1>21. ASSUME NEW s \in Sandboxes, ResolveRefused(s)
       PROVE  Forwards'
    BY <1>21 DEF ResolveRefused, LaunchTo
  <1>22. ASSUME NEW s \in Sandboxes, ResolveProvision(s)
       PROVE  Forwards'
    BY <1>22 DEF ResolveProvision, Kinds, LaunchTo
  <1>23. ASSUME NEW s \in Sandboxes, ResolveUnwind(s)
       PROVE  Forwards'
    BY <1>23 DEF ResolveUnwind, LaunchTo
  <1>24. ASSUME NEW s \in Sandboxes, LaunchCommit(s)
       PROVE  Forwards'
    BY <1>24 DEF LaunchCommit, Move, CanMove, LaunchTo, AfterMove, WriterOwns
  <1>25. ASSUME NEW s \in Sandboxes, LaunchBind(s)
       PROVE  Forwards'
    BY <1>25 DEF LaunchBind, Bound, LaunchTo
  <1>26. ASSUME NEW s \in Sandboxes, LaunchSpawn(s)
       PROVE  Forwards'
    BY <1>26 DEF LaunchSpawn, LaunchTo
  <1>27. ASSUME NEW s \in Sandboxes, LaunchBooted(s)
       PROVE  Forwards'
    BY <1>27 DEF LaunchBooted, LaunchTo
  <1>28. ASSUME NEW s \in Sandboxes, LaunchBootFailed(s)
       PROVE  Forwards'
    BY <1>28 DEF LaunchBootFailed, Reclaimed, LaunchTo, AfterPutDown
  <1>29. ASSUME NEW s \in Sandboxes, LaunchBootStuck(s)
       PROVE  Forwards'
    BY <1>29 DEF LaunchBootStuck, LaunchTo
  <1>30. ASSUME NEW s \in Sandboxes, LaunchDialed(s)
       PROVE  Forwards'
    BY <1>30 DEF LaunchDialed, LaunchTo
  <1>31. ASSUME NEW s \in Sandboxes, LaunchDialFailed(s)
       PROVE  Forwards'
    BY <1>31 DEF LaunchDialFailed, Reclaimed, LaunchTo, AfterPutDown
  <1>32. ASSUME NEW s \in Sandboxes, LaunchDialStuck(s)
       PROVE  Forwards'
    BY <1>32 DEF LaunchDialStuck, LaunchTo
  <1>33. ASSUME NEW s \in Sandboxes, LaunchFallback(s)
       PROVE  Forwards'
    BY <1>33 DEF LaunchFallback, WriterOwns, LaunchTo
  <1>34. ASSUME NEW s \in Sandboxes, LaunchFlip(s)
       PROVE  Forwards'
    BY <1>34 DEF LaunchFlip, Move, LaunchTo, AfterMove, CanMove, WriterOwns
  <1>35. ASSUME NEW s \in Sandboxes, LaunchTrack(s)
       PROVE  Forwards'
    <2>1. /\ lpc[s] = "track" /\ lpc' = [lpc EXCEPT ![s] = "idle"]
          /\ machines' = machines \cup {s}
          /\ UNCHANGED <<phase, pfTable, exposedPorts, xpc, xtgt, xport, xfwd>>
      BY <1>35 DEF LaunchTrack, LaunchTo
    <2>2. \A x \in Callers : InSection(x) => xtgt[x] # s
      BY <2>1
    <2>3. pfTable[s] = {} /\ exposedPorts[s] = {}
      BY <2>1
    <2>4. ForwardsMatchJournal'
      BY <2>1, <2>3, ZenonT(60)
    <2>5. \A x \in Callers : InSection(x)' => InSection(x) /\ xtgt'[x] = xtgt[x] /\ xtgt[x] # s
      BY <2>1, <2>2
    <2>6. \A t \in Sandboxes : (lpc'[t] # "idle" \/ phase'[t] = "none") =>
              pfTable'[t] = {} /\ exposedPorts'[t] = {}
      BY <2>1
    <2>7. \A x \in Callers : xpc'[x] = "journal" /\ phase'[xtgt'[x]] = "ready" /\ xtgt'[x] \in machines'
             => pfTable'[xtgt'[x]] = exposedPorts'[xtgt'[x]] \cup {xport'[x]}
      BY <2>1, <2>5
    <2>8. \A x \in Callers : InSection(x)' => lpc'[xtgt'[x]] = "idle" /\ phase'[xtgt'[x]] # "none"
      BY <2>1, <2>5
    <2> HIDE DEF ForwardsMatchJournal
    <2> QED
      BY <2>1, <2>4, <2>6, <2>7, <2>8
  <1>36. ASSUME NEW s \in Sandboxes, ParkHooks(s)
       PROVE  Forwards'
    BY <1>36 DEF ParkHooks, ReclaimTap, LaunchTo
  <1>37. ASSUME NEW s \in Sandboxes, ParkHooksFail(s)
       PROVE  Forwards'
    BY <1>37 DEF ParkHooksFail, LaunchTo
  <1>38. ASSUME NEW s \in Sandboxes, ParkWrite(s)
       PROVE  Forwards'
    BY <1>38 DEF ParkWrite, WriterOwns, LaunchTo
  <1>39. ASSUME NEW k \in Killers, KillMark(k)
       PROVE  Forwards'
    BY <1>39 DEF KillMark, Move, CanMove, KillTo, KillDone, WriterOwns
  <1>40. ASSUME NEW k \in Killers, KillStop(k)
       PROVE  Forwards'
    BY <1>40 DEF KillStop, Reclaimed, KillTo
  <1>41. ASSUME NEW k \in Killers, KillStopFails(k)
       PROVE  Forwards'
    BY <1>41 DEF KillStopFails, KillTo
  <1>42. ASSUME NEW k \in Killers, KillHookPf(k)
       PROVE  Forwards'
    BY <1>42 DEF KillHookPf, ReclaimForwards, KillTo, KillMoves, Terminal
  <1>43. ASSUME NEW k \in Killers, KillHookTap(k)
       PROVE  Forwards'
    BY <1>43 DEF KillHookTap, ReclaimTap, KillTo
  <1>44. ASSUME NEW k \in Killers, KillHookFails(k)
       PROVE  Forwards'
    BY <1>44 DEF KillHookFails, KillTo
  <1>45. ASSUME NEW k \in Killers, KillQuarantine(k)
       PROVE  Forwards'
    BY <1>45 DEF KillQuarantine, WriterOwns, KillDone, KillTo
  <1>46. ASSUME NEW k \in Killers, KillFinish(k)
       PROVE  Forwards'
    BY <1>46 DEF KillFinish, WriterOwns, KillTo, KillDone
  <1>47. ASSUME NEW k \in Killers, KillUntrack(k)
       PROVE  Forwards'
    BY <1>47 DEF KillUntrack, KillDone, KillTo
  <1>48. ASSUME NEW k \in Killers, NEW s \in Sandboxes, Kill(k, s)
       PROVE  Forwards'
    BY <1>48 DEF Kill, Accepting, Bound, Terminal, KillTo, reconciling
  <1>49. ASSUME NEW x \in Callers, ExposeRead(x)
       PROVE  Forwards'
    BY <1>49 DEF ExposeRead, ExposeLockFree, Bound, Live, CallTo, CallDone
  <1>50. ASSUME NEW x \in Callers, ExposeInstall(x)
       PROVE  Forwards'
    BY <1>50 DEF ExposeInstall, CallTo
  <1>51. ASSUME NEW x \in Callers, ExposeInstallFails(x)
       PROVE  Forwards'
    BY <1>51 DEF ExposeInstallFails, CallDone, CallTo
  <1>52. ASSUME NEW x \in Callers, ExposeJournal(x)
       PROVE  Forwards'
    <2> DEFINE s == xtgt[x]
    <2>1. /\ xpc[x] = "journal" /\ s \in Sandboxes
          /\ UNCHANGED <<phase, lpc, pfTable, machines>>
      BY <1>52 DEF ExposeJournal
    <2>2. \A y \in Callers : y # x /\ InSection(y) => xtgt[y] # s
      BY <2>1
    <2>3. CASE WriterOwns(s)
      <3>1. /\ exposedPorts' = [exposedPorts EXCEPT ![s] = @ \cup {xport[x]}]
            /\ xpc' = [xpc EXCEPT ![x] = "idle"] /\ xtgt' = [xtgt EXCEPT ![x] = None]
            /\ xport' = [xport EXCEPT ![x] = None] /\ xfwd' = [xfwd EXCEPT ![x] = {}]
        BY <1>52, <2>3 DEF ExposeJournal, CallDone, CallTo
      <3>2. exposedPorts'[s] = exposedPorts[s] \cup {xport[x]}
            /\ \A t \in Sandboxes : t # s => exposedPorts'[t] = exposedPorts[t]
        BY <2>1, <3>1
      <3>3. \A y \in Callers : /\ y # x => /\ xpc'[y] = xpc[y] /\ xtgt'[y] = xtgt[y]
                                           /\ xport'[y] = xport[y] /\ xfwd'[y] = xfwd[y]
                               /\ xpc'[x] = "idle" /\ xtgt'[x] = None
        BY <3>1
      <3>4. lpc[s] = "idle" /\ phase[s] # "none"
        BY <2>1
      <3>5. s \in machines /\ phase[s] = "ready" => pfTable[s] = exposedPorts'[s]
        BY <2>1, <3>2
      <3> HIDE DEF s
      <3>6. ForwardsMatchJournal'
        <4> SUFFICES ASSUME NEW t \in machines', phase'[t] = "ready",
                            \A y \in Callers : xtgt'[y] = t => xpc'[y] # "journal"
                     PROVE  pfTable'[t] = exposedPorts'[t]
          BY DEF ForwardsMatchJournal
        <4>1. CASE t = s
          BY <2>1, <3>5, <4>1
        <4>2. CASE t # s
          BY <2>1, <2>2, <3>2, <3>3, <4>2 DEF s
        <4> QED
          BY <4>1, <4>2
      <3>7. \A y \in Callers : InSection(y)' => y # x /\ xtgt[y] # s
        BY <2>2, <3>3
      <3> QED
        BY <2>1, <3>2, <3>3, <3>4, <3>6, <3>7
    <2>4. CASE ~WriterOwns(s)
      <3>1. /\ xpc' = [xpc EXCEPT ![x] = "undo"]
            /\ UNCHANGED <<exposedPorts, xtgt, xport, xfwd>>
        BY <1>52, <2>4 DEF ExposeJournal, CallTo
      <3>2. phase[s] \in Reconciled
        BY <2>4 DEF WriterOwns
      <3> QED
        BY <2>1, <3>1, <3>2
    <2> QED
      BY <2>3, <2>4
  <1>53. ASSUME NEW x \in Callers, ExposeUndo(x)
       PROVE  Forwards'
    BY <1>53 DEF ExposeUndo, ReclaimForwards, CallDone, CallTo
  <1>54. ASSUME NEW x \in Callers, GrantBridge(x)
       PROVE  Forwards'
    BY <1>54 DEF GrantBridge, Live, CallDone, CallTo
  <1>55. ASSUME NEW x \in Callers, NEW s \in Sandboxes, OpenBridge(x, s)
       PROVE  Forwards'
    BY <1>55 DEF OpenBridge, Accepting, Bound, CallTo, reconciling
  <1>56. ASSUME NEW x \in Callers, NEW s \in Sandboxes, NEW p \in Ports, Expose(x, s, p)
       PROVE  Forwards'
    BY <1>56 DEF Expose, Accepting, CallTo, reconciling
  <1>57. CASE UNCHANGED vars
    BY <1>57
  <1> QED
    BY <1>1, <1>2, <1>3, <1>4, <1>5, <1>6, <1>7, <1>8, <1>9, <1>10, <1>11, <1>12, <1>13,
       <1>14, <1>15, <1>16, <1>17, <1>18, <1>19, <1>20, <1>21, <1>22, <1>23, <1>24, <1>25,
       <1>26, <1>27, <1>28, <1>29, <1>30, <1>31, <1>32, <1>33, <1>34, <1>35, <1>36, <1>37,
       <1>38, <1>39, <1>40, <1>41, <1>42, <1>43, <1>44, <1>45, <1>46, <1>47, <1>48, <1>49,
       <1>50, <1>51, <1>52, <1>53, <1>54, <1>55, <1>56, <1>57
    DEF Next, LaunchStep, KillStep, CallStep, SweepStep

-----------------------------------------------------------------------------
(***************************************************************************)
(* The network slots, while nobody stops a sandbox that is being stopped:  *)
(* two terminates of one sandbox reach the network hook one after the      *)
(* other, and the second deletes what a new launch has put up.             *)
(***************************************************************************)
\* At most one stop of a sandbox at a time.
OneStop ==
    \A k, l \in Killers :
        kpc[k] # "idle" /\ kpc[l] # "idle" /\ ktgt[k] = ktgt[l] => k = l

\* A kill has its sandbox to itself from the mark to the end.
KillTracks ==
    /\ \A s \in machines : phase[s] = "terminating" =>
          \E k \in Killers : ktgt[k] = s /\ kpc[k] \notin {"idle", "mark", "untrack"}
    /\ \A k \in Killers : kpc[k] # "idle" => ktgt[k] \in machines
    /\ \A k \in Killers : kpc[k] \notin {"idle", "mark", "untrack"} => phase[ktgt[k]] = "terminating"

\* A kill finds a ready record, or one it may not move.
LEMMA MarkFindsReady ==
  ASSUME OneStop, KillTracks, TypeOK, Order, NEW k \in Killers, kpc[k] = "mark"
  PROVE  phase[ktgt[k]] \in {"ready"} \cup Reconciled
  <1>1. ktgt[k] \in machines /\ ktgt[k] \in Sandboxes
    BY DEF KillTracks, TypeOK
  <1>2. phase[ktgt[k]] # "terminating"
    BY <1>1 DEF OneStop, KillTracks
  <1> QED
    BY <1>1, <1>2 DEF Order, Tracked

\* Every step keeps a kill's sandbox to that kill.
LEMMA KillStepAlone ==
  OneStop /\ OneStop' /\ IInv /\ Order /\ KillTracks /\ [Next]_vars => KillTracks'
  <1> SUFFICES ASSUME OneStop, OneStop', IInv, Order, KillTracks, [Next]_vars
               PROVE  KillTracks'
    OBVIOUS
  <1> /\ phase \in [Sandboxes -> Phases] /\ lpc \in [Sandboxes -> LaunchPcs]
      /\ kpc \in [Killers -> KillPcs] /\ ktgt \in [Killers -> Sandboxes \cup {None}]
      /\ \A k \in Killers : kpc[k] # "idle" => ktgt[k] \in Sandboxes
      /\ machines \subseteq Sandboxes
      /\ rpc \in {"hookPf", "hookTap", "terminate", "quarantine"} => rcur \in Sandboxes
      /\ LaunchOwns /\ KillOwns /\ SweepOpen /\ LaunchPhase /\ SweepMarked /\ Tracked
      /\ \A k \in Killers : kpc[k] = "mark" => phase[ktgt[k]] \in {"ready"} \cup Reconciled
    BY MarkFindsReady DEF IInv, TypeOK, Ownership, Order
  <1> USE DEF KillTracks, OneStop, LaunchOwns, KillOwns, LaunchPhase, Reconciled,
              vars, journal, host, memory, launchVars, killVars, callVars, sweepVars
  <1>1. CASE StartReserve
    BY <1>1 DEF StartReserve, OwnsDataplane
  <1>2. CASE StartSweep
    BY <1>2 DEF StartSweep, OwnsDataplane
  <1>3. CASE Crash
    BY <1>3 DEF Crash
  <1>4. CASE Reconcile
    BY <1>4 DEF Reconcile, Accepting, Inflight, OpenRecords, reconciling, Terminal
  <1>5. CASE ReconcileNothing
    BY <1>5 DEF ReconcileNothing, Accepting, Inflight, OpenRecords, reconciling, Terminal
  <1>6. CASE ReconcilePackage
    BY <1>6 DEF ReconcilePackage, SweepFailures, PackageSweep, Reclaimed
  <1>7. CASE ReconcileThrows
    BY <1>7 DEF ReconcileThrows, SweepFailures, PackageSweep, Reclaimed
  <1>8. CASE ReconcileHookPf
    BY <1>8 DEF ReconcileHookPf, ReclaimForwards
  <1>9. CASE ReconcileHookTap
    BY <1>9 DEF ReconcileHookTap, ReclaimTap
  <1>10. CASE ReconcileHookFails
    BY <1>10 DEF ReconcileHookFails
  <1>11. CASE ReconcileWrite
    BY <1>11 DEF ReconcileWrite
  <1>12. CASE ReconcileEnd
    BY <1>12 DEF ReconcileEnd
  <1>13. ASSUME NEW s \in Sandboxes, VmmExit(s)
       PROVE  KillTracks'
    BY <1>13 DEF VmmExit
  <1>14. ASSUME NEW s \in Sandboxes, Launch(s)
       PROVE  KillTracks'
    BY <1>14 DEF Launch, Accepting, LaunchTo, reconciling
  <1>15. ASSUME NEW s \in Sandboxes, ExpireBridge(s)
       PROVE  KillTracks'
    BY <1>15 DEF ExpireBridge
  <1>16. ASSUME NEW s \in Sandboxes, ReconcileMark(s)
       PROVE  KillTracks'
    BY <1>16 DEF ReconcileMark, SweepMarked
  <1>17. ASSUME NEW s \in Sandboxes, ReconcilePick(s)
       PROVE  KillTracks'
    BY <1>17 DEF ReconcilePick
  <1>18. ASSUME NEW s \in Sandboxes, LaunchStage(s)
       PROVE  KillTracks'
    BY <1>18 DEF LaunchStage, Move, LaunchTo, AfterMove, CanMove, WriterOwns
  <1>19. ASSUME NEW s \in Sandboxes, ResolveNetless(s)
       PROVE  KillTracks'
    BY <1>19 DEF ResolveNetless, LaunchTo
  <1>20. ASSUME NEW s \in Sandboxes, ResolveAllocate(s)
       PROVE  KillTracks'
    BY <1>20 DEF ResolveAllocate, LaunchTo
  <1>21. ASSUME NEW s \in Sandboxes, ResolveRefused(s)
       PROVE  KillTracks'
    BY <1>21 DEF ResolveRefused, LaunchTo
  <1>22. ASSUME NEW s \in Sandboxes, ResolveProvision(s)
       PROVE  KillTracks'
    BY <1>22 DEF ResolveProvision, Kinds, LaunchTo
  <1>23. ASSUME NEW s \in Sandboxes, ResolveUnwind(s)
       PROVE  KillTracks'
    BY <1>23 DEF ResolveUnwind, LaunchTo
  <1>24. ASSUME NEW s \in Sandboxes, LaunchCommit(s)
       PROVE  KillTracks'
    BY <1>24 DEF LaunchCommit, Move, CanMove, LaunchTo, AfterMove, WriterOwns
  <1>25. ASSUME NEW s \in Sandboxes, LaunchBind(s)
       PROVE  KillTracks'
    BY <1>25 DEF LaunchBind, Bound, LaunchTo
  <1>26. ASSUME NEW s \in Sandboxes, LaunchSpawn(s)
       PROVE  KillTracks'
    BY <1>26 DEF LaunchSpawn, LaunchTo
  <1>27. ASSUME NEW s \in Sandboxes, LaunchBooted(s)
       PROVE  KillTracks'
    BY <1>27 DEF LaunchBooted, LaunchTo
  <1>28. ASSUME NEW s \in Sandboxes, LaunchBootFailed(s)
       PROVE  KillTracks'
    BY <1>28 DEF LaunchBootFailed, Reclaimed, LaunchTo, AfterPutDown
  <1>29. ASSUME NEW s \in Sandboxes, LaunchBootStuck(s)
       PROVE  KillTracks'
    BY <1>29 DEF LaunchBootStuck, LaunchTo
  <1>30. ASSUME NEW s \in Sandboxes, LaunchDialed(s)
       PROVE  KillTracks'
    BY <1>30 DEF LaunchDialed, LaunchTo
  <1>31. ASSUME NEW s \in Sandboxes, LaunchDialFailed(s)
       PROVE  KillTracks'
    BY <1>31 DEF LaunchDialFailed, Reclaimed, LaunchTo, AfterPutDown
  <1>32. ASSUME NEW s \in Sandboxes, LaunchDialStuck(s)
       PROVE  KillTracks'
    BY <1>32 DEF LaunchDialStuck, LaunchTo
  <1>33. ASSUME NEW s \in Sandboxes, LaunchFallback(s)
       PROVE  KillTracks'
    BY <1>33 DEF LaunchFallback, WriterOwns, LaunchTo
  <1>34. ASSUME NEW s \in Sandboxes, LaunchFlip(s)
       PROVE  KillTracks'
    BY <1>34 DEF LaunchFlip, Move, LaunchTo, AfterMove, CanMove, WriterOwns
  <1>35. ASSUME NEW s \in Sandboxes, LaunchTrack(s)
       PROVE  KillTracks'
    BY <1>35 DEF LaunchTrack, LaunchTo, KillMoves
  <1>36. ASSUME NEW s \in Sandboxes, ParkHooks(s)
       PROVE  KillTracks'
    BY <1>36 DEF ParkHooks, ReclaimTap, LaunchTo
  <1>37. ASSUME NEW s \in Sandboxes, ParkHooksFail(s)
       PROVE  KillTracks'
    BY <1>37 DEF ParkHooksFail, LaunchTo
  <1>38. ASSUME NEW s \in Sandboxes, ParkWrite(s)
       PROVE  KillTracks'
    BY <1>38 DEF ParkWrite, WriterOwns, LaunchTo
  <1>39. ASSUME NEW k \in Killers, KillMark(k)
       PROVE  KillTracks'
    BY <1>39 DEF KillMark, Move, CanMove, KillTo, KillDone, WriterOwns
  <1>40. ASSUME NEW k \in Killers, KillStop(k)
       PROVE  KillTracks'
    BY <1>40 DEF KillStop, Reclaimed, KillTo
  <1>41. ASSUME NEW k \in Killers, KillStopFails(k)
       PROVE  KillTracks'
    BY <1>41 DEF KillStopFails, KillTo
  <1>42. ASSUME NEW k \in Killers, KillHookPf(k)
       PROVE  KillTracks'
    BY <1>42 DEF KillHookPf, ReclaimForwards, KillTo
  <1>43. ASSUME NEW k \in Killers, KillHookTap(k)
       PROVE  KillTracks'
    BY <1>43 DEF KillHookTap, ReclaimTap, KillTo
  <1>44. ASSUME NEW k \in Killers, KillHookFails(k)
       PROVE  KillTracks'
    BY <1>44 DEF KillHookFails, KillTo
  <1>45. ASSUME NEW k \in Killers, KillQuarantine(k)
       PROVE  KillTracks'
    BY <1>45 DEF KillQuarantine, WriterOwns, KillDone, KillTo
  <1>46. ASSUME NEW k \in Killers, KillFinish(k)
       PROVE  KillTracks'
    BY <1>46 DEF KillFinish, WriterOwns, KillTo, KillDone
  <1>47. ASSUME NEW k \in Killers, KillUntrack(k)
       PROVE  KillTracks'
    BY <1>47 DEF KillUntrack, KillDone, KillTo
  <1>48. ASSUME NEW k \in Killers, NEW s \in Sandboxes, Kill(k, s)
       PROVE  KillTracks'
    BY <1>48 DEF Kill, Accepting, Bound, Terminal, KillTo, reconciling
  <1>49. ASSUME NEW x \in Callers, ExposeRead(x)
       PROVE  KillTracks'
    BY <1>49 DEF ExposeRead, ExposeLockFree, Bound, Live, CallTo, CallDone
  <1>50. ASSUME NEW x \in Callers, ExposeInstall(x)
       PROVE  KillTracks'
    BY <1>50 DEF ExposeInstall, CallTo
  <1>51. ASSUME NEW x \in Callers, ExposeInstallFails(x)
       PROVE  KillTracks'
    BY <1>51 DEF ExposeInstallFails, CallDone, CallTo
  <1>52. ASSUME NEW x \in Callers, ExposeJournal(x)
       PROVE  KillTracks'
    BY <1>52 DEF ExposeJournal, WriterOwns, CallDone, CallTo
  <1>53. ASSUME NEW x \in Callers, ExposeUndo(x)
       PROVE  KillTracks'
    BY <1>53 DEF ExposeUndo, ReclaimForwards, CallDone, CallTo
  <1>54. ASSUME NEW x \in Callers, GrantBridge(x)
       PROVE  KillTracks'
    BY <1>54 DEF GrantBridge, Live, CallDone, CallTo
  <1>55. ASSUME NEW x \in Callers, NEW s \in Sandboxes, OpenBridge(x, s)
       PROVE  KillTracks'
    BY <1>55 DEF OpenBridge, Accepting, Bound, CallTo, reconciling
  <1>56. ASSUME NEW x \in Callers, NEW s \in Sandboxes, NEW p \in Ports, Expose(x, s, p)
       PROVE  KillTracks'
    BY <1>56 DEF Expose, Accepting, CallTo, reconciling
  <1>57. CASE UNCHANGED vars
    BY <1>57
  <1> QED
    BY <1>1, <1>2, <1>3, <1>4, <1>5, <1>6, <1>7, <1>8, <1>9, <1>10, <1>11, <1>12, <1>13,
       <1>14, <1>15, <1>16, <1>17, <1>18, <1>19, <1>20, <1>21, <1>22, <1>23, <1>24, <1>25,
       <1>26, <1>27, <1>28, <1>29, <1>30, <1>31, <1>32, <1>33, <1>34, <1>35, <1>36, <1>37,
       <1>38, <1>39, <1>40, <1>41, <1>42, <1>43, <1>44, <1>45, <1>46, <1>47, <1>48, <1>49,
       <1>50, <1>51, <1>52, <1>53, <1>54, <1>55, <1>56, <1>57
    DEF Next, LaunchStep, KillStep, CallStep, SweepStep

\* Slot n is s's to reclaim: a launch has taken it, the record of a ready
\* sandbox has it, or a kill has not yet come to its network hook.
Claims(s, n) ==
    \/ lslot[s] = n
    \/ /\ tapSlot[s] = n
       /\ \/ lpc[s] \in {"bind", "spawn", "boot", "dial", "flip", "track", "unbind",
                         "park", "parkDirty"}
          \/ phase[s] = "ready"
          \/ \E k \in Killers : ktgt[k] = s /\ kpc[k] \in {"stop", "hookPf", "hookTap"}

\* A claimed slot has one claimer, is allocated, and carries its TAP.
SlotsClaimed ==
    /\ \A s, t \in Sandboxes, n \in Slots : Claims(s, n) /\ Claims(t, n) => s = t
    /\ up # "down" => \A s \in Sandboxes, n \in Slots : Claims(s, n) => n \in used
    /\ \A s \in Sandboxes, n \in Slots : Claims(s, n) /\ lpc[s] # "provision" => tap[n] = s

\* A free slot has no TAP.
Clean ==
    /\ up = "starting" => \A s \in Sandboxes : OwnsDataplane(s) => tapSlot[s] \in used \cup {None}
    /\ CleanSlotReuse

\* The steps that change the allocator or the TAPs.
Slotting ==
    \/ StartReserve \/ StartSweep \/ Crash \/ ReconcileHookTap
    \/ \E s \in Sandboxes : \/ ResolveAllocate(s) \/ ResolveProvision(s)
                            \/ ResolveUnwind(s) \/ ParkHooks(s)
    \/ \E k \in Killers : KillHookTap(k)

\* The others claim no slot that was not claimed.
Calm ==
    /\ used' = used /\ tap' = tap /\ up' = up
    /\ up = "starting" => UNCHANGED <<phase, tapSlot>>
    /\ \A s \in Sandboxes, n \in Slots :
           Claims(s, n)' => Claims(s, n) /\ (lpc'[s] # "provision" => lpc[s] # "provision")

\* Every step is of one of the two sorts.
LEMMA CalmOrSlotting ==
  ASSUME OneStop, IInv, Order, KillTracks, [Next]_vars
  PROVE  Calm \/ Slotting
  <1> DEFINE Goal == Calm \/ Slotting
  <1> /\ phase \in [Sandboxes -> Phases] /\ lpc \in [Sandboxes -> LaunchPcs]
      /\ tapSlot \in [Sandboxes -> Slots \cup {None}] /\ lslot \in [Sandboxes -> Slots \cup {None}]
      /\ kpc \in [Killers -> KillPcs] /\ ktgt \in [Killers -> Sandboxes \cup {None}]
      /\ \A k \in Killers : kpc[k] # "idle" => ktgt[k] \in Sandboxes
      /\ rpc \in {"hookPf", "hookTap", "terminate", "quarantine"} => rcur \in Sandboxes
      /\ LaunchOwns /\ KillOwns /\ LaunchPhase /\ Off
      /\ \A k \in Killers : kpc[k] = "mark" => phase[ktgt[k]] \in {"ready"} \cup Reconciled
    BY MarkFindsReady DEF IInv, TypeOK, Ownership, Order
  <1> USE DEF Calm, Claims, LaunchOwns, KillOwns, LaunchPhase, Off, Reconciled,
              vars, journal, host, memory, launchVars, killVars, callVars, sweepVars
  <1>1. CASE StartReserve
    BY <1>1 DEF Slotting
  <1>2. CASE StartSweep
    BY <1>2 DEF Slotting
  <1>3. CASE Crash
    BY <1>3 DEF Slotting
  <1>4. CASE Reconcile
    BY <1>4 DEF Reconcile, Accepting, Inflight, OpenRecords, reconciling, Terminal
  <1>5. CASE ReconcileNothing
    BY <1>5 DEF ReconcileNothing, Accepting, Inflight, OpenRecords, reconciling, Terminal
  <1>6. CASE ReconcilePackage
    BY <1>6 DEF ReconcilePackage, SweepFailures, PackageSweep, Reclaimed
  <1>7. CASE ReconcileThrows
    BY <1>7 DEF ReconcileThrows, SweepFailures, PackageSweep, Reclaimed
  <1>8. CASE ReconcileHookPf
    BY <1>8 DEF ReconcileHookPf, ReclaimForwards
  <1>9. CASE ReconcileHookTap
    BY <1>9 DEF Slotting
  <1>10. CASE ReconcileHookFails
    BY <1>10 DEF ReconcileHookFails
  <1>11. CASE ReconcileWrite
    BY <1>11 DEF ReconcileWrite
  <1>12. CASE ReconcileEnd
    BY <1>12 DEF ReconcileEnd
  <1>13. ASSUME NEW s \in Sandboxes, VmmExit(s)
       PROVE  Goal
    BY <1>13 DEF VmmExit
  <1>14. ASSUME NEW s \in Sandboxes, Launch(s)
       PROVE  Goal
    BY <1>14 DEF Launch, Accepting, LaunchTo, reconciling
  <1>15. ASSUME NEW s \in Sandboxes, ExpireBridge(s)
       PROVE  Goal
    BY <1>15 DEF ExpireBridge
  <1>16. ASSUME NEW s \in Sandboxes, ReconcileMark(s)
       PROVE  Goal
    BY <1>16 DEF ReconcileMark
  <1>17. ASSUME NEW s \in Sandboxes, ReconcilePick(s)
       PROVE  Goal
    BY <1>17 DEF ReconcilePick
  <1>18. ASSUME NEW s \in Sandboxes, LaunchStage(s)
       PROVE  Goal
    BY <1>18 DEF LaunchStage, Move, LaunchTo, AfterMove, CanMove, WriterOwns
  <1>19. ASSUME NEW s \in Sandboxes, ResolveNetless(s)
       PROVE  Goal
    BY <1>19 DEF ResolveNetless, LaunchTo
  <1>20. ASSUME NEW s \in Sandboxes, ResolveAllocate(s)
       PROVE  Goal
    BY <1>20 DEF Slotting
  <1>21. ASSUME NEW s \in Sandboxes, ResolveRefused(s)
       PROVE  Goal
    BY <1>21 DEF ResolveRefused, LaunchTo
  <1>22. ASSUME NEW s \in Sandboxes, ResolveProvision(s)
       PROVE  Goal
    BY <1>22 DEF Slotting
  <1>23. ASSUME NEW s \in Sandboxes, ResolveUnwind(s)
       PROVE  Goal
    BY <1>23 DEF Slotting
  <1>24. ASSUME NEW s \in Sandboxes, LaunchCommit(s)
       PROVE  Goal
    BY <1>24 DEF LaunchCommit, Move, CanMove, LaunchTo, AfterMove, WriterOwns
  <1>25. ASSUME NEW s \in Sandboxes, LaunchBind(s)
       PROVE  Goal
    BY <1>25 DEF LaunchBind, Bound, LaunchTo
  <1>26. ASSUME NEW s \in Sandboxes, LaunchSpawn(s)
       PROVE  Goal
    BY <1>26 DEF LaunchSpawn, LaunchTo
  <1>27. ASSUME NEW s \in Sandboxes, LaunchBooted(s)
       PROVE  Goal
    BY <1>27 DEF LaunchBooted, LaunchTo
  <1>28. ASSUME NEW s \in Sandboxes, LaunchBootFailed(s)
       PROVE  Goal
    BY <1>28 DEF LaunchBootFailed, Reclaimed, LaunchTo, AfterPutDown
  <1>29. ASSUME NEW s \in Sandboxes, LaunchBootStuck(s)
       PROVE  Goal
    BY <1>29 DEF LaunchBootStuck, LaunchTo
  <1>30. ASSUME NEW s \in Sandboxes, LaunchDialed(s)
       PROVE  Goal
    BY <1>30 DEF LaunchDialed, LaunchTo
  <1>31. ASSUME NEW s \in Sandboxes, LaunchDialFailed(s)
       PROVE  Goal
    BY <1>31 DEF LaunchDialFailed, Reclaimed, LaunchTo, AfterPutDown
  <1>32. ASSUME NEW s \in Sandboxes, LaunchDialStuck(s)
       PROVE  Goal
    BY <1>32 DEF LaunchDialStuck, LaunchTo
  <1>33. ASSUME NEW s \in Sandboxes, LaunchFallback(s)
       PROVE  Goal
    BY <1>33 DEF LaunchFallback, WriterOwns, LaunchTo
  <1>34. ASSUME NEW s \in Sandboxes, LaunchFlip(s)
       PROVE  Goal
    BY <1>34 DEF LaunchFlip, Move, LaunchTo, AfterMove, CanMove, WriterOwns
  <1>35. ASSUME NEW s \in Sandboxes, LaunchTrack(s)
       PROVE  Goal
    BY <1>35 DEF LaunchTrack, LaunchTo
  <1>36. ASSUME NEW s \in Sandboxes, ParkHooks(s)
       PROVE  Goal
    BY <1>36 DEF Slotting
  <1>37. ASSUME NEW s \in Sandboxes, ParkHooksFail(s)
       PROVE  Goal
    BY <1>37 DEF ParkHooksFail, LaunchTo
  <1>38. ASSUME NEW s \in Sandboxes, ParkWrite(s)
       PROVE  Goal
    BY <1>38 DEF ParkWrite, WriterOwns, LaunchTo
  <1>39. ASSUME NEW k \in Killers, KillMark(k)
       PROVE  Goal
    BY <1>39 DEF KillMark, Move, CanMove, KillTo, KillDone, WriterOwns
  <1>40. ASSUME NEW k \in Killers, KillStop(k)
       PROVE  Goal
    BY <1>40 DEF KillStop, Reclaimed, KillTo
  <1>41. ASSUME NEW k \in Killers, KillStopFails(k)
       PROVE  Goal
    BY <1>41 DEF KillStopFails, KillTo
  <1>42. ASSUME NEW k \in Killers, KillHookPf(k)
       PROVE  Goal
    BY <1>42 DEF KillHookPf, ReclaimForwards, KillTo
  <1>43. ASSUME NEW k \in Killers, KillHookTap(k)
       PROVE  Goal
    BY <1>43 DEF Slotting
  <1>44. ASSUME NEW k \in Killers, KillHookFails(k)
       PROVE  Goal
    BY <1>44 DEF KillHookFails, KillTo
  <1>45. ASSUME NEW k \in Killers, KillQuarantine(k)
       PROVE  Goal
    BY <1>45 DEF KillQuarantine, WriterOwns, KillDone, KillTo
  <1>46. ASSUME NEW k \in Killers, KillFinish(k)
       PROVE  Goal
    BY <1>46 DEF KillFinish, WriterOwns, KillTo, KillDone
  <1>47. ASSUME NEW k \in Killers, KillUntrack(k)
       PROVE  Goal
    BY <1>47 DEF KillUntrack, KillDone, KillTo
  <1>48. ASSUME NEW k \in Killers, NEW s \in Sandboxes, Kill(k, s)
       PROVE  Goal
    BY <1>48 DEF Kill, Accepting, Bound, Terminal, KillTo, reconciling
  <1>49. ASSUME NEW x \in Callers, ExposeRead(x)
       PROVE  Goal
    BY <1>49 DEF ExposeRead, ExposeLockFree, Bound, Live, CallTo, CallDone
  <1>50. ASSUME NEW x \in Callers, ExposeInstall(x)
       PROVE  Goal
    BY <1>50 DEF ExposeInstall, CallTo
  <1>51. ASSUME NEW x \in Callers, ExposeInstallFails(x)
       PROVE  Goal
    BY <1>51 DEF ExposeInstallFails, CallDone, CallTo
  <1>52. ASSUME NEW x \in Callers, ExposeJournal(x)
       PROVE  Goal
    BY <1>52 DEF ExposeJournal, WriterOwns, CallDone, CallTo
  <1>53. ASSUME NEW x \in Callers, ExposeUndo(x)
       PROVE  Goal
    BY <1>53 DEF ExposeUndo, ReclaimForwards, CallDone, CallTo
  <1>54. ASSUME NEW x \in Callers, GrantBridge(x)
       PROVE  Goal
    BY <1>54 DEF GrantBridge, Live, CallDone, CallTo
  <1>55. ASSUME NEW x \in Callers, NEW s \in Sandboxes, OpenBridge(x, s)
       PROVE  Goal
    BY <1>55 DEF OpenBridge, Accepting, Bound, CallTo, reconciling
  <1>56. ASSUME NEW x \in Callers, NEW s \in Sandboxes, NEW p \in Ports, Expose(x, s, p)
       PROVE  Goal
    BY <1>56 DEF Expose, Accepting, CallTo, reconciling
  <1>57. CASE UNCHANGED vars
    BY <1>57
  <1> QED
    BY <1>1, <1>2, <1>3, <1>4, <1>5, <1>6, <1>7, <1>8, <1>9, <1>10, <1>11, <1>12, <1>13,
       <1>14, <1>15, <1>16, <1>17, <1>18, <1>19, <1>20, <1>21, <1>22, <1>23, <1>24, <1>25,
       <1>26, <1>27, <1>28, <1>29, <1>30, <1>31, <1>32, <1>33, <1>34, <1>35, <1>36, <1>37,
       <1>38, <1>39, <1>40, <1>41, <1>42, <1>43, <1>44, <1>45, <1>46, <1>47, <1>48, <1>49,
       <1>50, <1>51, <1>52, <1>53, <1>54, <1>55, <1>56, <1>57
    DEF Next, LaunchStep, KillStep, CallStep, SweepStep

\* While the sweep reclaims, nobody claims a slot.
LEMMA SweepClaimsNothing ==
  ASSUME IInv, Order, rpc \notin {"idle", "mark"}, NEW s \in Sandboxes, NEW n \in Slots
  PROVE  ~Claims(s, n)
  <1>1. lpc[s] = "idle" /\ phase[s] # "ready" /\ \A k \in Killers : kpc[k] = "idle"
    BY DEF IInv, TypeOK, Ownership, LaunchOwns, KillOwns, Order, SweepMarked, Reconciled
  <1>2. lslot[s] # n
    BY <1>1 DEF Order, LaunchPhase, IInv, TypeOK
  <1> QED
    BY <1>1, <1>2 DEF Claims

\* A rootd that is not serving claims only for the ready records it finds.
LEMMA OffClaims ==
  ASSUME Order, up # "serving", NEW s \in Sandboxes, NEW n \in Slots, Claims(s, n)
  PROVE  tapSlot[s] = n /\ phase[s] = "ready"
  BY DEF Order, Off, Claims

\* A slot that its only claimer gives up is nobody else's.
LEMMA GiveUp ==
  ASSUME SlotsClaimed, NEW s \in Sandboxes, NEW m \in Slots, Claims(s, m), up' = up,
         used' = used \ {m}, \A n \in Slots : n # m => tap'[n] = tap[n],
         \A n \in Slots : ~Claims(s, n)',
         \A t \in Sandboxes : t # s => lpc'[t] = lpc[t],
         \A t \in Sandboxes, n \in Slots : t # s /\ Claims(t, n)' => Claims(t, n)
  PROVE  SlotsClaimed'
  <1>1. \A t \in Sandboxes, n \in Slots : Claims(t, n)' => t # s /\ Claims(t, n) /\ n # m
    BY DEF SlotsClaimed
  <1>2. \A t \in Sandboxes, n \in Slots : Claims(t, n)' /\ lpc'[t] # "provision" => tap'[n] = t
    BY <1>1 DEF SlotsClaimed
  <1>3. up' # "down" => \A t \in Sandboxes, n \in Slots : Claims(t, n)' => n \in used'
    BY <1>1 DEF SlotsClaimed
  <1>4. \A t, u \in Sandboxes, n \in Slots : Claims(t, n)' /\ Claims(u, n)' => t = u
    BY <1>1 DEF SlotsClaimed
  <1> QED
    BY <1>2, <1>3, <1>4 DEF SlotsClaimed

\* Nor does it matter who gives up no slot.
LEMMA GiveUpNone ==
  ASSUME SlotsClaimed, NEW s \in Sandboxes, up' = up, used \subseteq used', tap' = tap,
         \A n \in Slots : ~Claims(s, n)',
         \A t \in Sandboxes : t # s => lpc'[t] = lpc[t],
         \A t \in Sandboxes, n \in Slots : t # s /\ Claims(t, n)' => Claims(t, n)
  PROVE  SlotsClaimed'
  <1>1. \A t \in Sandboxes, n \in Slots : Claims(t, n)' => t # s /\ Claims(t, n)
    OBVIOUS
  <1>2. \A t \in Sandboxes, n \in Slots : Claims(t, n)' /\ lpc'[t] # "provision" => tap'[n] = t
    BY <1>1 DEF SlotsClaimed
  <1>3. up' # "down" => \A t \in Sandboxes, n \in Slots : Claims(t, n)' => n \in used'
    BY <1>1 DEF SlotsClaimed
  <1>4. \A t, u \in Sandboxes, n \in Slots : Claims(t, n)' /\ Claims(u, n)' => t = u
    BY <1>1 DEF SlotsClaimed
  <1> QED
    BY <1>2, <1>3, <1>4 DEF SlotsClaimed

\* Every step keeps the claims apart.
LEMMA SlotStep ==
  OneStop /\ IInv /\ Order /\ KillTracks /\ SlotsClaimed /\ [Next]_vars => SlotsClaimed'
  <1> SUFFICES ASSUME OneStop, IInv, Order, KillTracks, SlotsClaimed, [Next]_vars
               PROVE  SlotsClaimed'
    OBVIOUS
  <1> /\ phase \in [Sandboxes -> Phases] /\ lpc \in [Sandboxes -> LaunchPcs]
      /\ tapSlot \in [Sandboxes -> Slots \cup {None}] /\ lslot \in [Sandboxes -> Slots \cup {None}]
      /\ kpc \in [Killers -> KillPcs] /\ ktgt \in [Killers -> Sandboxes \cup {None}]
      /\ \A k \in Killers : kpc[k] # "idle" => ktgt[k] \in Sandboxes
      /\ tap \in [Slots -> Sandboxes \cup {None}] /\ used \subseteq Slots
      /\ LaunchOwns /\ KillOwns /\ LaunchPhase /\ Off
    BY DEF IInv, TypeOK, Ownership, Order
  <1> USE DEF journal, host, memory, launchVars, killVars, callVars, sweepVars
  <1>1. CASE Calm
    <2>1. \A s \in Sandboxes, n \in Slots : Claims(s, n)' => Claims(s, n)
      BY <1>1 DEF Calm
    <2>2. \A t, u \in Sandboxes, n \in Slots : Claims(t, n)' /\ Claims(u, n)' => t = u
      BY <2>1 DEF SlotsClaimed
    <2>3. up' # "down" => \A t \in Sandboxes, n \in Slots : Claims(t, n)' => n \in used'
      BY <1>1, <2>1 DEF SlotsClaimed, Calm
    <2>4. \A t \in Sandboxes, n \in Slots : Claims(t, n)' /\ lpc'[t] # "provision" => tap'[n] = t
      BY <1>1 DEF SlotsClaimed, Calm
    <2> QED
      BY <2>2, <2>3, <2>4 DEF SlotsClaimed
  <1>2. CASE StartReserve
    <2>1. \A s \in Sandboxes, n \in Slots : Claims(s, n)' <=> Claims(s, n)
      BY <1>2 DEF StartReserve, Claims
    <2>2. \A s \in Sandboxes, n \in Slots : Claims(s, n) => n \in used'
      <3> SUFFICES ASSUME NEW s \in Sandboxes, NEW n \in Slots, Claims(s, n)
                   PROVE  n \in used'
        OBVIOUS
      <3>1. tapSlot[s] = n /\ phase[s] = "ready"
        BY <1>2, OffClaims DEF StartReserve
      <3> QED
        BY <1>2, <3>1 DEF StartReserve, OwnsDataplane
    <2> QED
      BY <1>2, <2>1, <2>2 DEF SlotsClaimed, StartReserve
  <1>3. CASE StartSweep
    <2>1. \A s \in Sandboxes, n \in Slots : Claims(s, n)' <=> Claims(s, n)
      BY <1>3 DEF StartSweep, Claims
    <2>2. \A s \in Sandboxes, n \in Slots : Claims(s, n) => tap'[n] = tap[n]
      <3> SUFFICES ASSUME NEW s \in Sandboxes, NEW n \in Slots, Claims(s, n)
                   PROVE  tap'[n] = tap[n]
        OBVIOUS
      <3>1. tapSlot[s] = n /\ phase[s] = "ready"
        BY <1>3, OffClaims DEF StartSweep
      <3> QED
        BY <1>3, <3>1 DEF StartSweep, OwnsDataplane
    <2>3. used' = used /\ lpc' = lpc /\ up # "down"
      BY <1>3 DEF StartSweep
    <2> QED
      BY <2>1, <2>2, <2>3 DEF SlotsClaimed
  <1>4. CASE Crash
    <2>1. \A s \in Sandboxes, n \in Slots :
             Claims(s, n)' => Claims(s, n) /\ lpc[s] # "provision"
      BY <1>4 DEF Crash, Claims, LaunchPhase
    <2>2. tap' = tap /\ up' = "down"
      BY <1>4 DEF Crash
    <2> QED
      BY <2>1, <2>2 DEF SlotsClaimed
  <1>5. CASE ReconcileHookTap
    <2>1. \A s \in Sandboxes, n \in Slots : ~Claims(s, n)
      BY <1>5, SweepClaimsNothing DEF ReconcileHookTap
    <2>2. \A s \in Sandboxes, n \in Slots : ~Claims(s, n)'
      BY <1>5, <2>1 DEF ReconcileHookTap, Claims
    <2> QED
      BY <2>2 DEF SlotsClaimed
  <1>6. ASSUME NEW s \in Sandboxes, ResolveAllocate(s) PROVE SlotsClaimed'
    <2>1. PICK m \in Slots \ used : used' = used \cup {m} /\ lslot' = [lslot EXCEPT ![s] = m]
      BY <1>6 DEF ResolveAllocate
    <2>2. /\ lpc[s] = "resolve" /\ lpc' = [lpc EXCEPT ![s] = "provision"] /\ tapSlot[s] = None
          /\ up = "serving" /\ up' = up /\ tap' = tap
          /\ UNCHANGED <<phase, tapSlot, kpc, ktgt>>
      BY <1>6 DEF ResolveAllocate, LaunchTo, LaunchPhase, Off
    <2>3. \A n \in Slots : Claims(s, n)' => n = m
      BY <2>1, <2>2 DEF Claims
    <2>4. \A t \in Sandboxes, n \in Slots : t # s /\ Claims(t, n)' => Claims(t, n)
      BY <2>1, <2>2 DEF Claims
    <2>5. \A t \in Sandboxes, n \in Slots : Claims(t, n) => n # m
      BY <2>1, <2>2 DEF SlotsClaimed
    <2>6. lpc'[s] = "provision" /\ \A t \in Sandboxes : t # s => lpc'[t] = lpc[t]
      BY <2>2
    <2> QED
      BY <2>1, <2>2, <2>3, <2>4, <2>5, <2>6 DEF SlotsClaimed
  <1>7. ASSUME NEW s \in Sandboxes, ResolveProvision(s) PROVE SlotsClaimed'
    <2>1. /\ lpc[s] = "provision" /\ lpc' = [lpc EXCEPT ![s] = "commit"]
          /\ tap' = [tap EXCEPT ![lslot[s]] = s] /\ tapSlot[s] = None
          /\ UNCHANGED <<phase, tapSlot, lslot, kpc, ktgt, used, up>>
      BY <1>7 DEF ResolveProvision, LaunchTo, LaunchPhase
    <2>2. lslot[s] \in Slots /\ Claims(s, lslot[s])
      BY <2>1 DEF IInv, TypeOK, Claims
    <2>3. \A t \in Sandboxes, n \in Slots : Claims(t, n)' => Claims(t, n)
      BY <2>1 DEF Claims
    <2>4. \A n \in Slots : Claims(s, n)' => n = lslot[s]
      BY <2>1 DEF Claims
    <2>5. \A t \in Sandboxes, n \in Slots : Claims(t, n) /\ t # s => n # lslot[s]
      BY <2>2 DEF SlotsClaimed
    <2>6. \A t \in Sandboxes, n \in Slots : Claims(t, n)' /\ lpc'[t] # "provision" => tap'[n] = t
      BY <2>1, <2>2, <2>3, <2>4, <2>5 DEF SlotsClaimed
    <2> QED
      BY <2>1, <2>3, <2>6 DEF SlotsClaimed
  <1>8. ASSUME NEW s \in Sandboxes, ResolveUnwind(s) PROVE SlotsClaimed'
    <2>1. /\ lpc[s] = "provision" /\ lpc' = [lpc EXCEPT ![s] = "park"]
          /\ lslot' = [lslot EXCEPT ![s] = None] /\ tapSlot[s] = None
          /\ used' = used \ {lslot[s]} /\ UNCHANGED <<phase, tapSlot, kpc, ktgt, up>>
      BY <1>8 DEF ResolveUnwind, LaunchTo, LaunchPhase
    <2>2. PICK m \in Slots : m = lslot[s]
      BY <2>1 DEF IInv, TypeOK
    <2>3. Claims(s, m) /\ used' = used \ {m} /\ \A n \in Slots : n # m => tap'[n] = tap[n]
      BY <1>8, <2>1, <2>2 DEF ResolveUnwind, Claims
    <2>4. \A n \in Slots : ~Claims(s, n)'
      BY <2>1 DEF Claims
    <2>5. \A t \in Sandboxes, n \in Slots : t # s /\ Claims(t, n)' => Claims(t, n)
      BY <2>1 DEF Claims
    <2>6. \A t \in Sandboxes : t # s => lpc'[t] = lpc[t]
      BY <2>1
    <2> QED
      BY <2>1, <2>3, <2>4, <2>5, <2>6, GiveUp
  <1>9. ASSUME NEW s \in Sandboxes, ParkHooks(s) PROVE SlotsClaimed'
    <2>1. /\ lpc[s] \in {"park", "parkDirty"} /\ lslot[s] = None
          /\ lpc'[s] \in {"terminate", "quarantine"} /\ phase[s] # "ready"
          /\ \A t \in Sandboxes : t # s => lpc'[t] = lpc[t]
          /\ used' = used \ {tapSlot[s]} /\ UNCHANGED <<phase, tapSlot, lslot, kpc, ktgt, up>>
      BY <1>9 DEF ParkHooks, LaunchTo, LaunchPhase, ReclaimTap
    <2>2. \A k \in Killers : kpc[k] # "idle" => ktgt[k] # s
      BY <2>1 DEF KillOwns
    <2>3. \A n \in Slots : ~Claims(s, n)'
      BY <2>1, <2>2 DEF Claims
    <2>4. \A t \in Sandboxes, n \in Slots : t # s /\ Claims(t, n)' => Claims(t, n)
      BY <2>1 DEF Claims
    <2>5. CASE tapSlot[s] = None
      <3>1. tap' = tap /\ used \subseteq used'
        BY <1>9, <2>1, <2>5 DEF ParkHooks, ReclaimTap
      <3> QED
        BY <2>1, <2>3, <2>4, <3>1, GiveUpNone
    <2>6. CASE tapSlot[s] \in Slots
      <3>1. PICK m \in Slots : m = tapSlot[s]
        BY <2>6
      <3>2. Claims(s, m) /\ used' = used \ {m} /\ \A n \in Slots : n # m => tap'[n] = tap[n]
        BY <1>9, <2>1, <3>1 DEF ParkHooks, ReclaimTap, Claims
      <3> QED
        BY <2>1, <2>3, <2>4, <3>2, GiveUp
    <2> QED
      BY <2>5, <2>6
  <1>10. ASSUME NEW k \in Killers, KillHookTap(k) PROVE SlotsClaimed'
    <2>0. PICK s \in Sandboxes : s = ktgt[k]
      BY <1>10 DEF KillHookTap
    <2>1. /\ kpc[k] = "hookTap" /\ lpc[s] = "idle" /\ lslot[s] = None
          /\ phase[s] = "terminating"
      BY <1>10, <2>0 DEF KillHookTap, KillOwns, LaunchPhase, KillTracks
    <2>2. /\ kpc' = [kpc EXCEPT ![k] = "finish"]
          /\ used' = used \ {tapSlot[s]} /\ UNCHANGED <<phase, tapSlot, lslot, lpc, ktgt, up>>
      BY <1>10, <2>0 DEF KillHookTap, KillTo, ReclaimTap
    <2>3. \A l \in Killers : kpc[l] # "idle" /\ ktgt[l] = s => l = k
      BY <2>0, <2>1 DEF OneStop
    <2>4. \A n \in Slots : ~Claims(s, n)'
      BY <2>1, <2>2, <2>3 DEF Claims
    <2>5. \A t \in Sandboxes, n \in Slots : t # s /\ Claims(t, n)' => Claims(t, n)
      BY <2>2 DEF Claims
    <2>6. CASE tapSlot[s] = None
      <3>1. tap' = tap /\ used \subseteq used'
        BY <1>10, <2>0, <2>2, <2>6 DEF KillHookTap, ReclaimTap
      <3> QED
        BY <2>2, <2>4, <2>5, <3>1, GiveUpNone
    <2>7. CASE tapSlot[s] \in Slots
      <3>1. PICK m \in Slots : m = tapSlot[s]
        BY <2>7
      <3>2. Claims(s, m) /\ used' = used \ {m}
        BY <2>0, <2>1, <2>2, <3>1 DEF Claims
      <3>3. \A n \in Slots : n # m => tap'[n] = tap[n]
        BY <1>10, <2>0, <2>7, <3>1 DEF KillHookTap, ReclaimTap
      <3> QED
        BY <2>2, <2>4, <2>5, <3>2, <3>3, GiveUp
    <2> QED
      BY <2>6, <2>7
  <1> QED
    BY <1>1, <1>2, <1>3, <1>4, <1>5, <1>6, <1>7, <1>8, <1>9, <1>10, CalmOrSlotting DEF Slotting

\* Every step keeps free slots clean, unless a failed unwind leaves its TAP.
LEMMA CleanStep ==
  ASSUME "unwind" \notin Faults
  PROVE  IInv /\ Order /\ OneStop /\ KillTracks /\ SlotsClaimed /\ Clean /\ [Next]_vars => Clean'
  <1> SUFFICES ASSUME IInv, Order, OneStop, KillTracks, SlotsClaimed, Clean, [Next]_vars
               PROVE  Clean'
    OBVIOUS
  <1> /\ tap \in [Slots -> Sandboxes \cup {None}] /\ used \subseteq Slots
      /\ tapSlot \in [Sandboxes -> Slots \cup {None}] /\ lslot \in [Sandboxes -> Slots \cup {None}]
      /\ \A s \in Sandboxes : lpc[s] = "provision" => lslot[s] \in Slots
      /\ \A k \in Killers : kpc[k] # "idle" => ktgt[k] \in Sandboxes
      /\ rpc \in {"hookPf", "hookTap", "terminate", "quarantine"} => rcur \in Sandboxes
      /\ Off
    BY DEF IInv, TypeOK, Order
  <1> USE DEF Clean, CleanSlotReuse, OwnsDataplane,
              journal, host, memory, launchVars, killVars, callVars, sweepVars
  <1>1. CASE Calm
    BY <1>1 DEF Calm
  <1>2. CASE StartReserve
    BY <1>2 DEF StartReserve
  <1>3. CASE StartSweep
    <2>1. /\ up = "starting" /\ up' = "serving" /\ used' = used
          /\ \A n \in Slots : tap'[n] # None =>
                 \E s \in Sandboxes : OwnsDataplane(s) /\ tapSlot[s] = n
      BY <1>3 DEF StartSweep
    <2> QED
      BY <2>1
  <1>4. CASE Crash
    BY <1>4 DEF Crash
  <1>5. CASE ReconcileHookTap
    BY <1>5 DEF ReconcileHookTap, ReclaimTap, Off
  <1>6. ASSUME NEW s \in Sandboxes, ResolveAllocate(s) PROVE Clean'
    BY <1>6 DEF ResolveAllocate, Off
  <1>7. ASSUME NEW s \in Sandboxes, ResolveProvision(s) PROVE Clean'
    <2>1. /\ up = "serving" /\ up' = up /\ used' = used /\ lslot[s] \in Slots
          /\ tap' = [tap EXCEPT ![lslot[s]] = s] /\ Claims(s, lslot[s])
      BY <1>7 DEF ResolveProvision, Off, Claims
    <2>2. lslot[s] \in used
      BY <2>1 DEF SlotsClaimed
    <2> QED
      BY <2>1, <2>2
  <1>8. ASSUME NEW s \in Sandboxes, ResolveUnwind(s) PROVE Clean'
    <2>1. /\ up = "serving" /\ up' = up /\ used' = used \ {lslot[s]} /\ lslot[s] \in Slots
          /\ tap' = [tap EXCEPT ![lslot[s]] = None]
      BY <1>8 DEF ResolveUnwind, Off
    <2> QED
      BY <2>1
  <1>9. ASSUME NEW s \in Sandboxes, ParkHooks(s) PROVE Clean'
    BY <1>9 DEF ParkHooks, ReclaimTap, Off
  <1>10. ASSUME NEW k \in Killers, KillHookTap(k) PROVE Clean'
    BY <1>10 DEF KillHookTap, ReclaimTap, Off
  <1> QED
    BY <1>1, <1>2, <1>3, <1>4, <1>5, <1>6, <1>7, <1>8, <1>9, <1>10, CalmOrSlotting DEF Slotting

-----------------------------------------------------------------------------
\* The further parts hold at the start.
LEMMA MoreInit == Init => Order /\ PutDown /\ Forwards /\ KillTracks /\ SlotsClaimed /\ Clean
  <1> SUFFICES ASSUME Init
               PROVE  Order /\ PutDown /\ Forwards /\ KillTracks /\ SlotsClaimed /\ Clean
    OBVIOUS
  <1> USE DEF Init
  <1>1. Order
    BY DEF Order, LaunchPhase, Tracked, KillMoves, SweepMarked, Off, BridgesHaveMachine
  <1>2. PutDown
    BY DEF PutDown, TerminatedHasNoVmm
  <1>3. Forwards
    BY DEF Forwards, InSection, ForwardsMatchJournal
  <1>4. KillTracks
    BY DEF KillTracks
  <1>5. SlotsClaimed
    BY DEF SlotsClaimed, Claims
  <1>6. Clean
    BY DEF Clean, CleanSlotReuse
  <1> QED
    BY <1>1, <1>2, <1>3, <1>4, <1>5, <1>6

\* Launches, kills and sweeps move a record in turn, and exposeHttp calls do
\* their section one at a time, for any interleaving and any faults.
THEOREM OperationsInOrder == Spec => [](IInv /\ Order /\ Forwards)
  <1>1. IInv /\ Order /\ Forwards /\ [Next]_vars => (IInv /\ Order /\ Forwards)'
    BY InvStep, OrderStep, ForwardStep
  <1> QED
    BY <1>1, InvInit, MoreInit, PTL DEF Spec

\* A bridge grant decided on a record read before a terminate or a sweep never
\* outlives the machine (SupervisorCore.openBridge, #terminateInflight,
\* #reconcileSweep).
THEOREM GrantsEndWithMachine == Spec => []BridgesHaveMachine
  <1>1. Order => BridgesHaveMachine
    BY DEF Order
  <1> QED
    BY <1>1, OperationsInOrder, PTL

\* Concurrent exposeHttp calls never lose a forward: the table of a ready,
\* tracked sandbox is what the journal records (#withExposeLock, #doExposeHttp).
THEOREM ForwardsAreJournaled == Spec => []ForwardsMatchJournal
  <1>1. Forwards => ForwardsMatchJournal
    BY DEF Forwards
  <1> QED
    BY <1>1, OperationsInOrder, PTL

\* A terminated record has no VMM left, whichever of park, kill and sweep wrote
\* it, and after whatever crashes and sweeps with failures.
THEOREM TerminatedIsDown ==
  ASSUME NoStuckDial
  PROVE  Spec => []TerminatedHasNoVmm
  <1>1. IInv /\ Order /\ PutDown /\ [Next]_vars => PutDown'
    BY PutDownStep
  <1>2. PutDown => TerminatedHasNoVmm
    BY DEF PutDown
  <1> QED
    BY <1>1, <1>2, MoreInit, OperationsInOrder, PTL DEF Spec

-----------------------------------------------------------------------------
(***************************************************************************)
(* The life cycle: Supervisor implements SandboxLife.                      *)
(***************************************************************************)
\* Every step is a step of the abstract life cycle or changes nothing of it.
LEMMA LifeStep ==
    IInv /\ Order /\ PutDown /\ [Next]_vars => [Life!Next]_(Life!lifeVars)
  <1> DEFINE Goal == [Life!Next]_(Life!lifeVars)
  <1> SUFFICES ASSUME IInv, Order, PutDown, [Next]_vars
               PROVE  Goal
    OBVIOUS
  <1> /\ phase \in [Sandboxes -> Phases] /\ vmm \in [Sandboxes -> SUBSET Kinds]
      /\ machine \in [Sandboxes -> {"unbound", "jailed", "reclaiming"}]
      /\ \A k \in Killers : kpc[k] # "idle" => ktgt[k] \in Sandboxes
      /\ rpc \in {"hookPf", "hookTap", "terminate", "quarantine"} => rcur \in Sandboxes
      /\ ropen \subseteq Sandboxes
      /\ LaunchAlone /\ VmmJournaled /\ SweepOpen
      /\ LaunchPhase /\ KillMoves /\ SweepMarked /\ PutDown
    BY DEF IInv, TypeOK, Ownership, Order
  <1>a. ASSUME UNCHANGED <<phase, machine, vmm>> PROVE Goal
    BY <1>a DEF Life!lifeVars
  <1>b. ASSUME NEW s \in Sandboxes, NEW q, phase' = [phase EXCEPT ![s] = q], UNCHANGED <<machine, vmm>>
        PROVE  Life!Becomes(s, LifeOf(q))
    BY <1>b DEF Life!Becomes
  <1>d. ASSUME NEW s \in Sandboxes, NEW q, phase' = [phase EXCEPT ![s] = q],
               UNCHANGED <<machine, vmm>>, LifeOf(q) = LifeOf(phase[s])
        PROVE  Goal
    BY <1>d DEF Life!lifeVars
  <1>e. ASSUME NEW S \in SUBSET Sandboxes, Reclaimed(S), UNCHANGED phase
        PROVE  Goal
    <2>0. PICK J \in SUBSET Sandboxes : J = {s \in S : machine[s] = "jailed"}
      OBVIOUS
    <2>1. {s \in Sandboxes : vmm'[s] # {}} = {s \in Sandboxes : vmm[s] # {}} \ J
      BY <1>e, <2>0 DEF Reclaimed, VmmJournaled
    <2>2. machine' = [s \in Sandboxes |-> IF s \in J THEN "reclaiming" ELSE machine[s]]
      BY <1>e, <2>0 DEF Reclaimed
    <2>3. Life!Reclaim(J)
      BY <1>e, <2>0, <2>1, <2>2 DEF Life!Reclaim
    <2> QED
      BY <2>3 DEF Life!Next
  <1>1. CASE StartReserve
    BY <1>1, <1>a DEF StartReserve, journal, host
  <1>2. CASE StartSweep
    BY <1>2, <1>a DEF StartSweep, journal, host
  <1>3. CASE Crash
    BY <1>3, <1>a DEF Crash, journal, host
  <1>4. CASE Reconcile
    BY <1>4, <1>a DEF Reconcile, journal, host
  <1>5. CASE ReconcileNothing
    BY <1>5, <1>a DEF ReconcileNothing, vars, journal, host
  <1>6. CASE ReconcilePackage
    <2>1. PICK F \in SweepFailures : PackageSweep(F)
      BY <1>6 DEF ReconcilePackage
    <2> QED
      BY <1>6, <2>1, <1>e DEF ReconcilePackage, PackageSweep
  <1>7. CASE ReconcileThrows
    <2>1. PICK F \in SweepFailures : PackageSweep(F)
      BY <1>7 DEF ReconcileThrows
    <2> QED
      BY <1>7, <2>1, <1>e DEF ReconcileThrows, PackageSweep
  <1>8. CASE ReconcileHookPf
    BY <1>8, <1>a DEF ReconcileHookPf, journal, host
  <1>9. CASE ReconcileHookTap
    BY <1>9, <1>a DEF ReconcileHookTap, journal, host
  <1>10. CASE ReconcileHookFails
    BY <1>10, <1>a DEF ReconcileHookFails, journal, host
  <1>11. CASE ReconcileWrite
    <2>1. /\ rcur \in Sandboxes /\ phase[rcur] = "reconciling" /\ UNCHANGED <<machine, vmm>>
          /\ rpc = "terminate" => vmm[rcur] = {}
      BY <1>11 DEF ReconcileWrite, SweepOpen, SweepMarked, PutDown, Reconciled, Terminal, host
    <2>2. PICK v \in Terminal : phase' = [phase EXCEPT ![rcur] = v] /\ (v = "terminated" => rpc = "terminate")
      BY <1>11 DEF ReconcileWrite, Terminal
    <2>3. Life!Close(rcur, v)
      BY <2>1, <2>2, <1>b DEF LifeOf, Terminal, Life!Close, Life!Open
    <2> QED
      BY <2>1, <2>3 DEF Life!Next, Life!Verdicts, Terminal
  <1>12. CASE ReconcileEnd
    BY <1>12, <1>a DEF ReconcileEnd, journal, host
  <1>13. ASSUME NEW s \in Sandboxes, VmmExit(s) PROVE Goal
    <2>1. Life!Exits(s)
      BY <1>13 DEF VmmExit, journal, Life!Exits
    <2> QED
      BY <2>1 DEF Life!Next
  <1>14. ASSUME NEW s \in Sandboxes, Launch(s) PROVE Goal
    <2>1. Life!Register(s)
      BY <1>14, <1>b DEF Launch, LifeOf, host, Life!Register
    <2> QED
      BY <2>1 DEF Life!Next
  <1>15. ASSUME NEW s \in Sandboxes, ExpireBridge(s) PROVE Goal
    BY <1>15, <1>a DEF ExpireBridge, journal, host
  <1>16. ASSUME NEW s \in Sandboxes, ReconcileMark(s) PROVE Goal
    <2>1. LifeOf(phase[s]) \in Life!Open
      BY <1>16 DEF ReconcileMark, SweepOpen, SweepMarked, Terminal, Phases, LifeOf, Life!Open
    <2>2. Life!Sweep(s)
      BY <1>16, <2>1, <1>b DEF ReconcileMark, host, LifeOf, Life!Sweep
    <2> QED
      BY <2>2 DEF Life!Next
  <1>17. ASSUME NEW s \in Sandboxes, ReconcilePick(s) PROVE Goal
    BY <1>17, <1>a DEF ReconcilePick, journal, host
  <1>18. ASSUME NEW s \in Sandboxes, LaunchStage(s) PROVE Goal
    <2>1. phase[s] = "allocating" /\ phase' = [phase EXCEPT ![s] = "staging"]
      BY <1>18 DEF LaunchStage, Move, CanMove, WriterOwns, LaunchPhase, Reconciled
    <2> QED
      BY <1>18, <2>1, <1>d DEF LaunchStage, host, LifeOf
  <1>19. ASSUME NEW s \in Sandboxes, ResolveNetless(s) PROVE Goal
    BY <1>19, <1>a DEF ResolveNetless, journal, host
  <1>20. ASSUME NEW s \in Sandboxes, ResolveAllocate(s) PROVE Goal
    BY <1>20, <1>a DEF ResolveAllocate, journal, host
  <1>21. ASSUME NEW s \in Sandboxes, ResolveRefused(s) PROVE Goal
    BY <1>21, <1>a DEF ResolveRefused, journal, host
  <1>22. ASSUME NEW s \in Sandboxes, ResolveProvision(s) PROVE Goal
    BY <1>22, <1>a DEF ResolveProvision, journal, host
  <1>23. ASSUME NEW s \in Sandboxes, ResolveUnwind(s) PROVE Goal
    BY <1>23, <1>a DEF ResolveUnwind, journal, host
  <1>24. ASSUME NEW s \in Sandboxes, LaunchCommit(s) PROVE Goal
    <2>1. phase[s] = "staging" /\ phase' = [phase EXCEPT ![s] = "booting"]
      BY <1>24 DEF LaunchCommit, Move, CanMove, WriterOwns, LaunchPhase, Reconciled
    <2> QED
      BY <1>24, <2>1, <1>d DEF LaunchCommit, host, LifeOf
  <1>25. ASSUME NEW s \in Sandboxes, LaunchBind(s) PROVE Goal
    <2>1. phase[s] = "booting" /\ UNCHANGED <<phase, vmm>>
      BY <1>25 DEF LaunchBind, LaunchPhase, host
    <2>2. CASE Bound(s)
      BY <1>25, <2>1, <2>2, <1>a DEF LaunchBind
    <2>3. CASE ~Bound(s)
      <3>1. Life!Bind(s)
        BY <1>25, <2>1, <2>3 DEF LaunchBind, Bound, LifeOf, Life!Bind
      <3> QED
        BY <3>1 DEF Life!Next
    <2> QED
      BY <2>2, <2>3
  <1>26. ASSUME NEW s \in Sandboxes, LaunchSpawn(s) PROVE Goal
    <2>1. /\ phase[s] = "booting" /\ machine[s] = "jailed" /\ vmm[s] = {}
          /\ UNCHANGED <<phase, machine>> /\ vmm' = [vmm EXCEPT ![s] = @ \cup {lkind[s]}]
      BY <1>26 DEF LaunchSpawn, LaunchPhase, LaunchAlone, journal
    <2>2. {r \in Sandboxes : vmm'[r] # {}} = {r \in Sandboxes : vmm[r] # {}} \cup {s}
      BY <2>1
    <2>3. Life!Boot(s)
      BY <2>1, <2>2 DEF LifeOf, Life!Boot
    <2> QED
      BY <2>3 DEF Life!Next
  <1>27. ASSUME NEW s \in Sandboxes, LaunchBooted(s) PROVE Goal
    BY <1>27, <1>a DEF LaunchBooted, journal, host
  <1>28. ASSUME NEW s \in Sandboxes, LaunchBootFailed(s) PROVE Goal
    BY <1>28, <1>e DEF LaunchBootFailed
  <1>29. ASSUME NEW s \in Sandboxes, LaunchBootStuck(s) PROVE Goal
    BY <1>29, <1>a DEF LaunchBootStuck, journal, host
  <1>30. ASSUME NEW s \in Sandboxes, LaunchDialed(s) PROVE Goal
    BY <1>30, <1>a DEF LaunchDialed, journal, host
  <1>31. ASSUME NEW s \in Sandboxes, LaunchDialFailed(s) PROVE Goal
    BY <1>31, <1>e DEF LaunchDialFailed
  <1>32. ASSUME NEW s \in Sandboxes, LaunchDialStuck(s) PROVE Goal
    BY <1>32, <1>a DEF LaunchDialStuck, journal, host
  <1>33. ASSUME NEW s \in Sandboxes, LaunchFallback(s) PROVE Goal
    <2>1. /\ phase[s] = "booting" /\ machine[s] = "reclaiming" /\ vmm[s] = {}
          /\ UNCHANGED <<phase, vmm>> /\ machine' = [machine EXCEPT ![s] = "unbound"]
      BY <1>33 DEF LaunchFallback, LaunchPhase, LaunchAlone, WriterOwns, Reconciled, host
    <2>2. Life!Unbind(s)
      BY <2>1 DEF LifeOf, Life!Unbind
    <2> QED
      BY <2>2 DEF Life!Next
  <1>34. ASSUME NEW s \in Sandboxes, LaunchFlip(s) PROVE Goal
    <2>1. /\ phase[s] = "booting" /\ machine[s] = "jailed" /\ UNCHANGED <<machine, vmm>>
          /\ phase' = [phase EXCEPT ![s] = "ready"]
      BY <1>34 DEF LaunchFlip, Move, CanMove, WriterOwns, LaunchPhase, LaunchAlone, Reconciled, host
    <2>2. Life!Ready(s)
      BY <2>1, <1>b DEF LifeOf, Life!Ready
    <2> QED
      BY <2>2 DEF Life!Next
  <1>35. ASSUME NEW s \in Sandboxes, LaunchTrack(s) PROVE Goal
    BY <1>35, <1>a DEF LaunchTrack, journal, host
  <1>36. ASSUME NEW s \in Sandboxes, ParkHooks(s) PROVE Goal
    BY <1>36, <1>a DEF ParkHooks, journal, host
  <1>37. ASSUME NEW s \in Sandboxes, ParkHooksFail(s) PROVE Goal
    BY <1>37, <1>a DEF ParkHooksFail, journal, host
  <1>38. ASSUME NEW s \in Sandboxes, ParkWrite(s) PROVE Goal
    <2>1. /\ phase[s] \in {"staging", "booting"} /\ UNCHANGED <<machine, vmm>>
          /\ lpc[s] = "terminate" /\ NoStuckDial => vmm[s] = {}
          /\ phase' = [phase EXCEPT ![s] = IF lpc[s] = "terminate" THEN "terminated" ELSE "quarantined"]
      BY <1>38 DEF ParkWrite, WriterOwns, LaunchPhase, PutDown, Reconciled, host
    <2>2. PICK v \in Terminal : phase' = [phase EXCEPT ![s] = v] /\ (v = "terminated" => lpc[s] = "terminate")
      BY <2>1 DEF Terminal
    <2>3. Life!Close(s, v)
      BY <2>1, <2>2, <1>b DEF LifeOf, Terminal, NoStuckDial, Life!Close, Life!Open
    <2> QED
      BY <2>3 DEF Life!Next, Life!Verdicts, Terminal
  <1>39. ASSUME NEW k \in Killers, KillMark(k) PROVE Goal
    <2>1. UNCHANGED <<machine, vmm>> /\ ktgt[k] \in Sandboxes
      BY <1>39 DEF KillMark, host
    <2>2. CASE phase' = phase
      BY <2>1, <2>2, <1>a
    <2>3. CASE phase' # phase
      <3>1. phase[ktgt[k]] \in {"booting", "ready", "terminating"} /\ phase' = [phase EXCEPT ![ktgt[k]] = "terminating"]
        BY <1>39, <2>3 DEF KillMark, Move, CanMove
      <3>2. phase[ktgt[k]] = "ready"
        BY <1>39, <2>3, <3>1 DEF KillMark, KillMoves, Reconciled, Terminal
      <3>3. Life!Stop(ktgt[k])
        BY <2>1, <3>1, <3>2, <1>b DEF LifeOf, Life!Stop
      <3> QED
        BY <2>1, <3>3 DEF Life!Next
    <2> QED
      BY <2>2, <2>3
  <1>40. ASSUME NEW k \in Killers, KillStop(k) PROVE Goal
    BY <1>40, <1>e DEF KillStop
  <1>41. ASSUME NEW k \in Killers, KillStopFails(k) PROVE Goal
    BY <1>41, <1>a DEF KillStopFails, journal, host
  <1>42. ASSUME NEW k \in Killers, KillHookPf(k) PROVE Goal
    BY <1>42, <1>a DEF KillHookPf, journal, host
  <1>43. ASSUME NEW k \in Killers, KillHookTap(k) PROVE Goal
    BY <1>43, <1>a DEF KillHookTap, journal, host
  <1>44. ASSUME NEW k \in Killers, KillHookFails(k) PROVE Goal
    BY <1>44, <1>a DEF KillHookFails, journal, host
  <1>45. ASSUME NEW k \in Killers, KillQuarantine(k) PROVE Goal
    <2>1. UNCHANGED <<machine, vmm>> /\ ktgt[k] \in Sandboxes
      BY <1>45 DEF KillQuarantine, host
    <2>2. CASE ~WriterOwns(ktgt[k])
      BY <1>45, <2>1, <2>2, <1>a DEF KillQuarantine
    <2>3. CASE WriterOwns(ktgt[k])
      <3>1. phase[ktgt[k]] = "terminating" /\ phase' = [phase EXCEPT ![ktgt[k]] = "quarantined"]
        BY <1>45, <2>3 DEF KillQuarantine, WriterOwns, KillMoves, Reconciled, Terminal
      <3>2. Life!Close(ktgt[k], "quarantined")
        BY <2>1, <3>1, <1>b DEF LifeOf, Life!Close, Life!Open
      <3> QED
        BY <2>1, <3>2 DEF Life!Next, Life!Verdicts
    <2> QED
      BY <2>2, <2>3
  <1>46. ASSUME NEW k \in Killers, KillFinish(k) PROVE Goal
    <2>1. UNCHANGED <<machine, vmm>> /\ ktgt[k] \in Sandboxes /\ vmm[ktgt[k]] = {}
      BY <1>46 DEF KillFinish, PutDown, host
    <2>2. CASE ~WriterOwns(ktgt[k])
      BY <1>46, <2>1, <2>2, <1>a DEF KillFinish
    <2>3. CASE WriterOwns(ktgt[k])
      <3>1. phase[ktgt[k]] = "terminating" /\ phase' = [phase EXCEPT ![ktgt[k]] = "terminated"]
        BY <1>46, <2>3 DEF KillFinish, WriterOwns, KillMoves, Reconciled, Terminal
      <3>2. Life!Close(ktgt[k], "terminated")
        BY <2>1, <3>1, <1>b DEF LifeOf, Life!Close, Life!Open
      <3> QED
        BY <2>1, <3>2 DEF Life!Next, Life!Verdicts
    <2> QED
      BY <2>2, <2>3
  <1>47. ASSUME NEW k \in Killers, KillUntrack(k) PROVE Goal
    BY <1>47, <1>a DEF KillUntrack, journal, host
  <1>48. ASSUME NEW k \in Killers, NEW s \in Sandboxes, Kill(k, s) PROVE Goal
    BY <1>48, <1>a DEF Kill, journal, host
  <1>49. ASSUME NEW x \in Callers, ExposeRead(x) PROVE Goal
    BY <1>49, <1>a DEF ExposeRead, journal, host
  <1>50. ASSUME NEW x \in Callers, ExposeInstall(x) PROVE Goal
    BY <1>50, <1>a DEF ExposeInstall, journal, host
  <1>51. ASSUME NEW x \in Callers, ExposeInstallFails(x) PROVE Goal
    BY <1>51, <1>a DEF ExposeInstallFails, journal, host
  <1>52. ASSUME NEW x \in Callers, ExposeJournal(x) PROVE Goal
    BY <1>52, <1>a DEF ExposeJournal, journal, host
  <1>53. ASSUME NEW x \in Callers, ExposeUndo(x) PROVE Goal
    BY <1>53, <1>a DEF ExposeUndo, journal, host
  <1>54. ASSUME NEW x \in Callers, GrantBridge(x) PROVE Goal
    BY <1>54, <1>a DEF GrantBridge, journal, host
  <1>55. ASSUME NEW x \in Callers, NEW s \in Sandboxes, OpenBridge(x, s) PROVE Goal
    BY <1>55, <1>a DEF OpenBridge, journal, host
  <1>56. ASSUME NEW x \in Callers, NEW s \in Sandboxes, NEW p \in Ports, Expose(x, s, p) PROVE Goal
    BY <1>56, <1>a DEF Expose, journal, host
  <1>57. CASE UNCHANGED vars
    BY <1>57, <1>a DEF vars, journal, host
  <1> HIDE DEF Goal
  <1> QED
    BY <1>1, <1>2, <1>3, <1>4, <1>5, <1>6, <1>7, <1>8, <1>9, <1>10, <1>11, <1>12, <1>13,
       <1>14, <1>15, <1>16, <1>17, <1>18, <1>19, <1>20, <1>21, <1>22, <1>23, <1>24, <1>25,
       <1>26, <1>27, <1>28, <1>29, <1>30, <1>31, <1>32, <1>33, <1>34, <1>35, <1>36, <1>37,
       <1>38, <1>39, <1>40, <1>41, <1>42, <1>43, <1>44, <1>45, <1>46, <1>47, <1>48, <1>49,
       <1>50, <1>51, <1>52, <1>53, <1>54, <1>55, <1>56, <1>57
    DEF Next, LaunchStep, KillStep, CallStep, SweepStep

\* For any number of sandboxes, slots and calls, any failures and any crashes,
\* every sandbox lives as SandboxLife promises: boots only for a launch, journaled
\* first and one VMM at a time, reclaimed before it is forgotten, stopped or swept
\* once, and terminated only with its VMM down (SupervisorCore, all operations).
THEOREM SandboxesLiveAsPromised == Spec => LivesAsPromised
  <1>1. Init => Life!Init
    BY DEF Init, Life!Init, LifeOf
  <1>2. IInv /\ Order /\ PutDown /\ [Next]_vars => PutDown'
    BY PutDownStep
  <1> QED
    BY <1>1, <1>2, LifeStep, MoreInit, OperationsInOrder, PTL DEF Spec, LivesAsPromised, Life!Spec

\* Terminated and quarantined are final, for any interleaving of writers: it is
\* so in the abstract life cycle.
THEOREM TerminalFinal == Spec => [][KeepsTerminal]_vars
  <1>1. TypeOK /\ [Life!Next]_(Life!lifeVars) /\ TypeOK' => KeepsTerminal
    <2> SUFFICES ASSUME TypeOK, TypeOK', [Life!Next]_(Life!lifeVars),
                        NEW t \in Sandboxes, phase[t] \in Terminal
                 PROVE  phase'[t] = phase[t]
      BY DEF KeepsTerminal
    <2>1. LifeOf(phase[t]) = phase[t]
      BY DEF Terminal, LifeOf
    <2>2. ASSUME NEW s \in Sandboxes, NEW to, Life!Becomes(s, to), LifeOf(phase[s]) \notin Terminal
          PROVE  LifeOf(phase'[t]) = LifeOf(phase[t])
      <3>1. s # t
        BY <2>1, <2>2
      <3> QED
        BY <2>2, <3>1 DEF Life!Becomes
    <2>3. CASE UNCHANGED [s \in Sandboxes |-> LifeOf(phase[s])]
      BY <2>3, <2>1 DEF TypeOK, Phases, Terminal, LifeOf
    <2>4. CASE \E s \in Sandboxes : \E to : Life!Becomes(s, to) /\ LifeOf(phase[s]) \notin Terminal
      <3>1. LifeOf(phase'[t]) = phase[t]
        BY <2>1, <2>2, <2>4
      <3> QED
        BY <3>1 DEF TypeOK, Phases, Terminal, LifeOf
    <2>5. ASSUME NEW s \in Sandboxes,
                 \/ Life!Register(s) \/ Life!Ready(s) \/ Life!Stop(s) \/ Life!Sweep(s)
                 \/ \E verdict \in Life!Verdicts : Life!Close(s, verdict)
          PROVE  \E to : Life!Becomes(s, to) /\ LifeOf(phase[s]) \notin Terminal
      BY <2>5 DEF Life!Register, Life!Ready, Life!Stop, Life!Sweep, Life!Close, Life!Open, Terminal
    <2>6. ASSUME \/ \E s \in Sandboxes : Life!Bind(s) \/ Life!Boot(s) \/ Life!Unbind(s) \/ Life!Exits(s)
                 \/ \E S \in SUBSET Sandboxes : Life!Reclaim(S)
                 \/ UNCHANGED Life!lifeVars
          PROVE  UNCHANGED [s \in Sandboxes |-> LifeOf(phase[s])]
      BY <2>6 DEF Life!Bind, Life!Boot, Life!Unbind, Life!Exits, Life!Reclaim, Life!lifeVars
    <2> QED
      BY <2>3, <2>4, <2>5, <2>6 DEF Life!Next
  <1> QED
    BY <1>1, SandboxesLiveAsPromised, TypeCorrect, PTL DEF LivesAsPromised, Life!Spec

\* While no sandbox is stopped twice, a slot is claimed once, is allocated, and
\* carries its claimer's TAP.
THEOREM SlotsAreClaimed == Spec /\ []OneStop => [](IInv /\ Order /\ KillTracks /\ SlotsClaimed)
  <1>1. IInv /\ Order /\ KillTracks /\ SlotsClaimed /\ OneStop /\ OneStop' /\ [Next]_vars
            => (IInv /\ Order /\ KillTracks /\ SlotsClaimed)'
    BY InvStep, OrderStep, KillStepAlone, SlotStep
  <1> QED
    BY <1>1, InvInit, MoreInit, PTL DEF Spec

\* A ready sandbox that journaled a slot has its own dataplane on it, also after
\* a crash and a restart: nobody else's teardown, unwind, orphan sweep or
\* provisioning takes it away (NetworkReclaimHook, #provisionNetwork).
THEOREM ReadyKeepsNetwork == Spec /\ []OneStop => []ReadyHasNetwork
  <1>1. IInv /\ Order /\ SlotsClaimed => ReadyHasNetwork
    <2> SUFFICES ASSUME IInv, Order, SlotsClaimed, NEW s \in Sandboxes,
                        phase[s] = "ready", tapSlot[s] # None
                 PROVE  tap[tapSlot[s]] = s
      BY DEF ReadyHasNetwork
    <2>1. tapSlot[s] \in Slots /\ lpc[s] # "provision"
      BY DEF IInv, TypeOK, Order, LaunchPhase
    <2>2. Claims(s, tapSlot[s])
      BY DEF Claims
    <2> QED
      BY <2>1, <2>2 DEF SlotsClaimed
  <1> QED
    BY <1>1, SlotsAreClaimed, PTL

\* Two ready sandboxes never stand on one subnet slot (SubnetSlotAllocator).
THEOREM SlotsAreExclusive == Spec /\ []OneStop => []SlotExclusive
  <1>1. IInv /\ SlotsClaimed => SlotExclusive
    <2> SUFFICES ASSUME IInv, SlotsClaimed, NEW s \in Sandboxes, NEW t \in Sandboxes,
                        phase[s] = "ready", phase[t] = "ready", tapSlot[s] # None,
                        tapSlot[s] = tapSlot[t]
                 PROVE  s = t
      BY DEF SlotExclusive
    <2>1. tapSlot[s] \in Slots
      BY DEF IInv, TypeOK
    <2>2. Claims(s, tapSlot[s]) /\ Claims(t, tapSlot[s])
      BY DEF Claims
    <2> QED
      BY <2>1, <2>2 DEF SlotsClaimed
  <1> QED
    BY <1>1, SlotsAreClaimed, PTL

\* The allocator never hands out a slot with a TAP on it, unless deleting the
\* TAP of a failed provisioning fails too (#unwindNetwork swallows that).
THEOREM FreeSlotsAreClean ==
  ASSUME "unwind" \notin Faults
  PROVE  Spec /\ []OneStop => []CleanSlotReuse
  <1>1. IInv /\ Order /\ OneStop /\ KillTracks /\ SlotsClaimed /\ Clean /\ [Next]_vars => Clean'
    BY CleanStep
  <1>2. Clean => CleanSlotReuse
    BY DEF Clean
  <1> QED
    BY <1>1, <1>2, MoreInit, SlotsAreClaimed, PTL DEF Spec

-----------------------------------------------------------------------------
(***************************************************************************)
(* What a sweep leaves behind.                                             *)
(***************************************************************************)
\* No record is opened behind the sweep, which works from one list() at its start.
SweepCovers == rpc # "idle" => OpenRecords \subseteq ropen

\* Launches and kills are kept out; the writers that are not (exposes, bridges)
\* leave phases alone.
LEMMA CoversStep == IInv /\ Order /\ SweepCovers /\ [Next]_vars => SweepCovers'
  <1> SUFFICES ASSUME IInv, Order, SweepCovers, [Next]_vars, rpc' # "idle"
               PROVE  \A s \in Sandboxes : phase'[s] \notin Terminal \cup {"none"} => s \in ropen'
    BY DEF SweepCovers, OpenRecords
  <1> /\ phase \in [Sandboxes -> Phases]
      /\ rpc # "idle" => \A s \in Sandboxes : phase[s] \notin Terminal \cup {"none"} => s \in ropen
      /\ rpc \in {"hookPf", "hookTap", "terminate", "quarantine"} => rcur \in Sandboxes
      /\ LaunchOwns /\ KillOwns
    BY DEF IInv, TypeOK, Ownership, SweepCovers, OpenRecords
  <1> USE DEF Terminal
  <1>a. CASE UNCHANGED <<phase, rpc, ropen>>
    BY <1>a
  <1>b. ASSUME rpc = "idle", UNCHANGED rpc PROVE FALSE
    BY <1>b
  <1>1. CASE StartReserve \/ StartSweep \/ ReconcileNothing
    BY <1>1, <1>a DEF StartReserve, StartSweep, ReconcileNothing, vars, journal, sweepVars
  <1>2. CASE Crash \/ ReconcileThrows \/ ReconcileEnd
    BY <1>2 DEF Crash, ReconcileThrows, ReconcileEnd
  <1>3. CASE Reconcile
    BY <1>3 DEF Reconcile, OpenRecords, journal
  <1>4. ASSUME NEW s \in Sandboxes, ReconcileMark(s) PROVE SweepCovers'
    BY <1>4 DEF ReconcileMark, SweepCovers, OpenRecords, sweepVars
  <1>5. CASE ReconcilePackage \/ ReconcileHookPf \/ ReconcileHookTap \/ ReconcileHookFails
             \/ \E s \in Sandboxes : ReconcilePick(s)
    BY <1>5 DEF ReconcilePackage, ReconcileHookPf, ReconcileHookTap, ReconcileHookFails,
                ReconcilePick, journal
  <1>6. CASE ReconcileWrite
    BY <1>6 DEF ReconcileWrite
  <1>7. ASSUME NEW s \in Sandboxes, Launch(s) PROVE FALSE
    BY <1>7, <1>b DEF Launch, Accepting, reconciling, sweepVars
  <1>8. ASSUME NEW s \in Sandboxes, VmmExit(s) \/ ExpireBridge(s) PROVE UNCHANGED <<phase, rpc, ropen>>
    BY <1>8 DEF VmmExit, ExpireBridge, journal, sweepVars
  <1>9. ASSUME NEW s \in Sandboxes, LaunchStep(s) PROVE FALSE
    <2>1. lpc[s] # "idle" /\ UNCHANGED rpc
      BY <1>9 DEF LaunchStep, LaunchStage, ResolveNetless, ResolveAllocate, ResolveRefused,
         ResolveProvision, ResolveUnwind, LaunchCommit, LaunchBind, LaunchSpawn, LaunchBooted,
         LaunchBootFailed, LaunchBootStuck, LaunchDialed, LaunchDialFailed, LaunchDialStuck,
         LaunchFallback, LaunchFlip, LaunchTrack, ParkHooks, ParkHooksFail, ParkWrite, sweepVars
    <2> QED
      BY <2>1, <1>b DEF LaunchOwns
  <1>10. ASSUME NEW k \in Killers, KillStep(k) PROVE FALSE
    <2>1. kpc[k] # "idle" /\ UNCHANGED rpc
      BY <1>10 DEF KillStep, KillMark, KillStop, KillStopFails, KillHookPf, KillHookTap,
         KillHookFails, KillQuarantine, KillFinish, KillUntrack, sweepVars
    <2> QED
      BY <2>1, <1>b DEF KillOwns
  <1>11. ASSUME NEW k \in Killers, NEW s \in Sandboxes, Kill(k, s) PROVE FALSE
    BY <1>11, <1>b DEF Kill, Accepting, reconciling, sweepVars
  <1>12. ASSUME NEW x \in Callers,
                \/ CallStep(x)
                \/ \E s \in Sandboxes : OpenBridge(x, s)
                \/ \E s \in Sandboxes, p \in Ports : Expose(x, s, p)
         PROVE  UNCHANGED <<phase, rpc, ropen>>
    BY <1>12 DEF CallStep, ExposeRead, ExposeInstall, ExposeInstallFails, ExposeJournal,
       ExposeUndo, GrantBridge, OpenBridge, Expose, journal, sweepVars
  <1>13. CASE UNCHANGED vars
    BY <1>13, <1>a DEF vars, journal, sweepVars
  <1> QED
    BY <1>a, <1>1, <1>2, <1>3, <1>4, <1>5, <1>6, <1>7, <1>8, <1>9, <1>10, <1>11, <1>12, <1>13
    DEF Next, SweepStep, SweepCovers, OpenRecords

\* Whatever a crash left behind, one sweep that returns settles it: no record
\* stays open, and a VMM that survives is one the package reported it could not
\* reclaim (supervisor_core.ts #reconcileSweep, adapter.ts
\* reconcileAfterSupervisorRestart).
THEOREM SweepsSettleAll == Spec => SweepsSettle
  <1>1. Init => SweepCovers
    BY DEF Init, SweepCovers
  <1>2. IInv /\ Order /\ PutDown /\ [Next]_vars => PutDown'
    BY PutDownStep
  <1>3. IInv /\ PutDown /\ SweepCovers => SweepSettled
    <2> SUFFICES ASSUME IInv, PutDown, SweepCovers, ReconcileEnd
                 PROVE  /\ OpenRecords = {}
                        /\ \A s \in Sandboxes : vmm[s] # {} =>
                               s \in rfail /\ (NoStuckDial => phase[s] = "quarantined")
      BY DEF SweepSettled
    <2>1. rpc = "records" /\ OpenRecords = {}
      BY DEF ReconcileEnd, SweepCovers
    <2>2. ASSUME NEW s \in Sandboxes, vmm[s] # {}, NoStuckDial
          PROVE  phase[s] = "quarantined"
      BY <2>1, <2>2 DEF OpenRecords, PutDown, TerminatedHasNoVmm, Terminal
    <2> QED
      BY <2>1, <2>2 DEF PutDown
  <1> QED
    BY <1>1, <1>2, <1>3, CoversStep, MoreInit, OperationsInOrder, PTL DEF Spec, SweepsSettle
=============================================================================
