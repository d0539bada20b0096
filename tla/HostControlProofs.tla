-------------------------- MODULE HostControlProofs --------------------------
(***************************************************************************)
(* Theorems about HostControl, for any number of creates, exposes and      *)
(* ports, any budget and any number of revocations.                        *)
(***************************************************************************)
EXTENDS HostControl, FiniteSetTheorems, TLAPS

USE HostPortsAssumption, HostLimitsAssumption, HostNoneAssumption

\* The first state has the declared types.
LEMMA TypeInit == Init => TypeOK
  BY DEF Init, TypeOK, CreatePcs

\* #releaseForwardLease keeps the types of the allocator.
LEMMA ReleaseLeaseType ==
  ASSUME TypeOK, NEW s \in Sandboxes, NEW p \in ForwardPorts, ReleaseForwardLease(s, p)
  PROVE  used' \subseteq ForwardPorts /\ leased' \in [Sandboxes -> SUBSET ForwardPorts]
  <1>1. CASE p \in leased[s]
    <2>1. leased \in [Sandboxes -> SUBSET ForwardPorts] /\ used \subseteq ForwardPorts
      BY DEF TypeOK
    <2>2. used' = used \ {p} /\ leased' = [leased EXCEPT ![s] = leased[s] \ {p}]
      BY <1>1 DEF ReleaseForwardLease
    <2> QED
      BY <2>1, <2>2
  <1>2. CASE p \notin leased[s]
    BY <1>2 DEF TypeOK, ReleaseForwardLease
  <1> QED
    BY <1>1, <1>2

\* Every step keeps the types.
LEMMA TypeStep == TypeOK /\ [Next]_vars => TypeOK'
  <1> SUFFICES ASSUME TypeOK, [Next]_vars
               PROVE  TypeOK'
    OBVIOUS
  <1> USE DEF TypeOK, CreatePcs, vars, rootdVars, hostVars, createVars, callVars
  <1>1. ASSUME NEW s \in Sandboxes, Create(s)
       PROVE  TypeOK'
    BY <1>1 DEF Create, CreateTo
  <1>2. ASSUME NEW s \in Sandboxes, Reserve(s)
       PROVE  TypeOK'
    BY <1>2 DEF Reserve, CreateTo
  <1>3. ASSUME NEW s \in Sandboxes, Admitted(s)
       PROVE  TypeOK'
    BY <1>3 DEF Admitted, CreateTo
  <1>4. ASSUME NEW s \in Sandboxes, Register(s)
       PROVE  TypeOK'
    BY <1>4 DEF Register, CreateTo
  <1>5. ASSUME NEW s \in Sandboxes, RegisterFails(s)
       PROVE  TypeOK'
    BY <1>5 DEF RegisterFails, CreateTo
  <1>6. ASSUME NEW s \in Sandboxes, LaunchRejected(s)
       PROVE  TypeOK'
    BY <1>6 DEF LaunchRejected, CreateTo
  <1>7. ASSUME NEW s \in Sandboxes, RollbackRelease(s)
       PROVE  TypeOK'
    BY <1>7 DEF RollbackRelease, CreateTo
  <1>8. ASSUME NEW s \in Sandboxes, RollbackKill(s)
       PROVE  TypeOK'
    BY <1>8 DEF RollbackKill, RootdKills, CreateTo
  <1>9. ASSUME NEW s \in Sandboxes, RootdLaunched(s)
       PROVE  TypeOK'
    BY <1>9 DEF RootdLaunched
  <1>10. ASSUME NEW s \in Sandboxes, RootdLaunchFails(s)
       PROVE  TypeOK'
    BY <1>10 DEF RootdLaunchFails
  <1>11. ASSUME NEW s \in Sandboxes, Settle(s)
       PROVE  TypeOK'
    BY <1>11 DEF Settle, ReleaseForwardPorts
  <1>12. ASSUME NEW s \in Sandboxes, ReclaimRelease(s)
       PROVE  TypeOK'
    BY <1>12 DEF ReclaimRelease
  <1>13. ASSUME NEW s \in Sandboxes, ReclaimKill(s)
       PROVE  TypeOK'
    BY <1>13 DEF ReclaimKill, RootdKills
  <1>14. ASSUME NEW s \in Sandboxes, NEW p \in ForwardPorts, LateInstall(s, p)
       PROVE  TypeOK'
    BY <1>14 DEF LateInstall
  <1>15. CASE RevokeAll
    <2>1. epoch' \in 0..MaxEpoch
      BY <1>15 DEF RevokeAll
    <2>2. used' \subseteq ForwardPorts /\ leased' \in [Sandboxes -> SUBSET ForwardPorts]
      BY <1>15 DEF RevokeAll, ReleaseForwardPorts
    <2>3. lease' \in [Sandboxes -> {"none", "live", "settled", "revoked"}]
      BY <1>15 DEF RevokeAll
    <2> QED
      BY <1>15, <2>1, <2>2, <2>3 DEF RevokeAll
  <1>16. CASE Restart
    BY <1>16 DEF Restart
  <1>17. ASSUME NEW x \in Exposers, RootdInstalls(x)
       PROVE  TypeOK'
    BY <1>17 DEF RootdInstalls
  <1>18. ASSUME NEW x \in Exposers, ExposeReturns(x)
       PROVE  TypeOK'
    BY <1>18 DEF ExposeReturns, CallEnds
  <1>19. ASSUME NEW x \in Exposers, ExposeRejected(x)
       PROVE  TypeOK'
    <2>1. xtgt[x] \in Sandboxes /\ xport[x] \in ForwardPorts
      BY <1>19 DEF ExposeRejected
    <2>2. used' \subseteq ForwardPorts /\ leased' \in [Sandboxes -> SUBSET ForwardPorts]
      BY <1>19, <2>1, ReleaseLeaseType DEF ExposeRejected
    <2>3. late' \subseteq Sandboxes \X ForwardPorts
      BY <1>19, <2>1 DEF ExposeRejected
    <2> QED
      BY <1>19, <2>2, <2>3 DEF ExposeRejected, CallEnds
  <1>20. ASSUME NEW x \in Exposers, ExposeTimesOut(x)
       PROVE  TypeOK'
    <2>1. xtgt[x] \in Sandboxes /\ xport[x] \in ForwardPorts
      BY <1>20 DEF ExposeTimesOut
    <2>2. used' \subseteq ForwardPorts /\ leased' \in [Sandboxes -> SUBSET ForwardPorts]
      BY <1>20, <2>1, ReleaseLeaseType DEF ExposeTimesOut
    <2>3. late' \subseteq Sandboxes \X ForwardPorts
      BY <1>20, <2>1 DEF ExposeTimesOut
    <2> QED
      BY <1>20, <2>2, <2>3 DEF ExposeTimesOut, CallEnds
  <1>21. ASSUME NEW x \in Exposers, NEW s \in Sandboxes, ExposeHttp(x, s)
       PROVE  TypeOK'
    BY <1>21 DEF ExposeHttp
  <1>22. CASE UNCHANGED vars
    BY <1>22
  <1> QED
    BY <1>1, <1>2, <1>3, <1>4, <1>5, <1>6, <1>7, <1>8, <1>9, <1>10, <1>11, <1>12, <1>13,
       <1>14, <1>15, <1>16, <1>17, <1>18, <1>19, <1>20, <1>21, <1>22
    DEF Next, CreateStep, RootdStep, ReclaimStep, ExposeStep

-----------------------------------------------------------------------------
(***************************************************************************)
(* The inductive invariant: which stage of a sandbox's life goes with      *)
(* which entry, lease, reclaim and machine.                                *)
(***************************************************************************)

\* A create that is past the ledger holds its reservation until its roll-back
\* gives it back.
CreateReserves ==
    \A s \in Sandboxes : cpc[s] \in {"admitted", "launch", "rollback"} => s \in reserved

\* Entry and lease are made together by a create that is done; the entry says
\* running until the lease settles, also when it was revoked.
EntryFollowsLease ==
    \A s \in Sandboxes :
        /\ entry[s] # "none" => cpc[s] = "done"
        /\ entry[s] = "none" <=> lease[s] = "none"
        /\ entry[s] = "terminated" <=> lease[s] = "settled"

\* Only a settled lease is reclaimed.
ReclaimFollowsLease == \A s \in Sandboxes : reclaim[s] # "idle" => lease[s] = "settled"

\* A lease that is live, or was dropped silently, has its machine.
LeasedMachine == \A s \in Sandboxes : lease[s] \in {"live", "revoked"} => vm[s] = "ready"

Books ==
    /\ CreateReserves /\ EntryFollowsLease /\ ReclaimFollowsLease /\ LeasedMachine
    /\ ReservationsOwned /\ PortsPartitioned /\ LeasesOfThisEpoch

IInv == TypeOK /\ Books

\* The first state satisfies the inductive invariant.
LEMMA InvInit == Init => IInv
  BY TypeInit DEF Init, IInv, Books, CreateReserves, EntryFollowsLease,
                  ReclaimFollowsLease, LeasedMachine, ReservationsOwned,
                  PortsPartitioned, LeasesOfThisEpoch

\* #releaseForwardPorts keeps the bitmap equal to what is leased, because no
\* port is leased to two sandboxes.
LEMMA ReleasePorts ==
  ASSUME TypeOK, PortsPartitioned, NEW S \in SUBSET Sandboxes, ReleaseForwardPorts(S)
  PROVE  PortsPartitioned'
  BY DEF TypeOK, PortsPartitioned, ReleaseForwardPorts

\* So does #releaseForwardLease, which frees a port only for its lessee.
LEMMA ReleaseLease ==
  ASSUME TypeOK, PortsPartitioned, NEW s \in Sandboxes, NEW p \in ForwardPorts,
         ReleaseForwardLease(s, p)
  PROVE  PortsPartitioned'
  BY SMTT(30) DEF TypeOK, PortsPartitioned, ReleaseForwardLease

\* Every step keeps it.
LEMMA InvStep == IInv /\ [Next]_vars => IInv'
  <1> SUFFICES ASSUME IInv, [Next]_vars
               PROVE  Books'
    BY TypeStep DEF IInv
  <1> TypeOK'
    BY TypeStep DEF IInv
  <1> USE DEF IInv, Books, vars, rootdVars, hostVars, createVars, callVars
  <1> DEFINE Stages == /\ CreateReserves /\ EntryFollowsLease /\ ReclaimFollowsLease
                       /\ LeasedMachine /\ ReservationsOwned /\ LeasesOfThisEpoch
  <1>1. ASSUME NEW s \in Sandboxes, Create(s)
       PROVE  Books'
    <2>1. Stages'
      BY <1>1 DEF Create, CreateTo, CreateReserves, EntryFollowsLease, ReclaimFollowsLease,
        LeasedMachine, ReservationsOwned, LeasesOfThisEpoch, TypeOK
    <2>2. PortsPartitioned'
      BY <1>1 DEF Create, PortsPartitioned
    <2> QED
      BY <2>1, <2>2
  <1>2. ASSUME NEW s \in Sandboxes, Reserve(s)
       PROVE  Books'
    <2>1. Stages'
      BY <1>2 DEF Reserve, CreateTo, CreateReserves, EntryFollowsLease, ReclaimFollowsLease,
        LeasedMachine, ReservationsOwned, LeasesOfThisEpoch, TypeOK
    <2>2. PortsPartitioned'
      BY <1>2 DEF Reserve, PortsPartitioned
    <2> QED
      BY <2>1, <2>2
  <1>3. ASSUME NEW s \in Sandboxes, Admitted(s)
       PROVE  Books'
    <2>1. Stages'
      BY <1>3 DEF Admitted, CreateTo, CreateReserves, EntryFollowsLease, ReclaimFollowsLease,
        LeasedMachine, ReservationsOwned, LeasesOfThisEpoch, TypeOK
    <2>2. PortsPartitioned'
      BY <1>3 DEF Admitted, PortsPartitioned
    <2> QED
      BY <2>1, <2>2
  <1>4. ASSUME NEW s \in Sandboxes, Register(s)
       PROVE  Books'
    <2>1. Stages'
      BY <1>4 DEF Register, CreateTo, CreateReserves, EntryFollowsLease, ReclaimFollowsLease,
        LeasedMachine, ReservationsOwned, LeasesOfThisEpoch, TypeOK
    <2>2. PortsPartitioned'
      BY <1>4 DEF Register, PortsPartitioned
    <2> QED
      BY <2>1, <2>2
  <1>5. ASSUME NEW s \in Sandboxes, RegisterFails(s)
       PROVE  Books'
    <2>1. Stages'
      BY <1>5 DEF RegisterFails, CreateTo, CreateReserves, EntryFollowsLease, ReclaimFollowsLease,
        LeasedMachine, ReservationsOwned, LeasesOfThisEpoch, TypeOK
    <2>2. PortsPartitioned'
      BY <1>5 DEF RegisterFails, PortsPartitioned
    <2> QED
      BY <2>1, <2>2
  <1>6. ASSUME NEW s \in Sandboxes, LaunchRejected(s)
       PROVE  Books'
    <2>1. Stages'
      BY <1>6 DEF LaunchRejected, CreateTo, CreateReserves, EntryFollowsLease, ReclaimFollowsLease,
        LeasedMachine, ReservationsOwned, LeasesOfThisEpoch, TypeOK
    <2>2. PortsPartitioned'
      BY <1>6 DEF LaunchRejected, PortsPartitioned
    <2> QED
      BY <2>1, <2>2
  <1>7. ASSUME NEW s \in Sandboxes, RollbackRelease(s)
       PROVE  Books'
    <2>1. Stages'
      BY <1>7 DEF RollbackRelease, CreateTo, CreateReserves, EntryFollowsLease, ReclaimFollowsLease,
        LeasedMachine, ReservationsOwned, LeasesOfThisEpoch, TypeOK
    <2>2. PortsPartitioned'
      BY <1>7 DEF RollbackRelease, PortsPartitioned
    <2> QED
      BY <2>1, <2>2
  <1>8. ASSUME NEW s \in Sandboxes, RollbackKill(s)
       PROVE  Books'
    <2>1. Stages'
      BY <1>8 DEF RollbackKill, RootdKills, CreateTo, CreateReserves, EntryFollowsLease, ReclaimFollowsLease,
        LeasedMachine, ReservationsOwned, LeasesOfThisEpoch, TypeOK
    <2>2. PortsPartitioned'
      BY <1>8 DEF RollbackKill, PortsPartitioned
    <2> QED
      BY <2>1, <2>2
  <1>9. ASSUME NEW s \in Sandboxes, RootdLaunched(s)
       PROVE  Books'
    <2>1. Stages'
      BY <1>9 DEF RootdLaunched, CreateReserves, EntryFollowsLease, ReclaimFollowsLease,
        LeasedMachine, ReservationsOwned, LeasesOfThisEpoch, TypeOK
    <2>2. PortsPartitioned'
      BY <1>9 DEF RootdLaunched, PortsPartitioned
    <2> QED
      BY <2>1, <2>2
  <1>10. ASSUME NEW s \in Sandboxes, RootdLaunchFails(s)
       PROVE  Books'
    <2>1. Stages'
      BY <1>10 DEF RootdLaunchFails, CreateReserves, EntryFollowsLease, ReclaimFollowsLease,
        LeasedMachine, ReservationsOwned, LeasesOfThisEpoch, TypeOK
    <2>2. PortsPartitioned'
      BY <1>10 DEF RootdLaunchFails, PortsPartitioned
    <2> QED
      BY <2>1, <2>2
  <1>11. ASSUME NEW s \in Sandboxes, Settle(s)
       PROVE  Books'
    <2>1. Stages'
      BY <1>11 DEF Settle, ReleaseForwardPorts, CreateReserves, EntryFollowsLease, ReclaimFollowsLease,
        LeasedMachine, ReservationsOwned, LeasesOfThisEpoch, TypeOK
    <2>2. PortsPartitioned'
      BY <1>11, ReleasePorts DEF Settle
    <2> QED
      BY <2>1, <2>2
  <1>12. ASSUME NEW s \in Sandboxes, ReclaimRelease(s)
       PROVE  Books'
    <2>1. Stages'
      BY <1>12 DEF ReclaimRelease, CreateReserves, EntryFollowsLease, ReclaimFollowsLease,
        LeasedMachine, ReservationsOwned, LeasesOfThisEpoch, TypeOK
    <2>2. PortsPartitioned'
      BY <1>12 DEF ReclaimRelease, PortsPartitioned
    <2> QED
      BY <2>1, <2>2
  <1>13. ASSUME NEW s \in Sandboxes, ReclaimKill(s)
       PROVE  Books'
    <2>1. Stages'
      BY <1>13 DEF ReclaimKill, RootdKills, CreateReserves, EntryFollowsLease, ReclaimFollowsLease,
        LeasedMachine, ReservationsOwned, LeasesOfThisEpoch, TypeOK
    <2>2. PortsPartitioned'
      BY <1>13 DEF ReclaimKill, PortsPartitioned
    <2> QED
      BY <2>1, <2>2
  <1>14. ASSUME NEW s \in Sandboxes, NEW p \in ForwardPorts, LateInstall(s, p)
       PROVE  Books'
    <2>1. Stages'
      BY <1>14 DEF LateInstall, CreateReserves, EntryFollowsLease, ReclaimFollowsLease,
        LeasedMachine, ReservationsOwned, LeasesOfThisEpoch, TypeOK
    <2>2. PortsPartitioned'
      BY <1>14 DEF LateInstall, PortsPartitioned
    <2> QED
      BY <2>1, <2>2
  <1>15. CASE RevokeAll
    <2>1. Stages'
      BY <1>15 DEF RevokeAll, ReleaseForwardPorts, CreateReserves, EntryFollowsLease, ReclaimFollowsLease,
        LeasedMachine, ReservationsOwned, LeasesOfThisEpoch, TypeOK
    <2>2. PortsPartitioned'
      BY <1>15, ReleasePorts DEF RevokeAll
    <2> QED
      BY <2>1, <2>2
  <1>16. CASE Restart
    <2>1. Stages'
      BY <1>16 DEF Restart, CreateReserves, EntryFollowsLease, ReclaimFollowsLease,
        LeasedMachine, ReservationsOwned, LeasesOfThisEpoch, TypeOK
    <2>2. PortsPartitioned'
      BY <1>16 DEF Restart, PortsPartitioned, TypeOK
    <2> QED
      BY <2>1, <2>2
  <1>17. ASSUME NEW x \in Exposers, RootdInstalls(x)
       PROVE  Books'
    <2>1. Stages'
      BY <1>17 DEF RootdInstalls, CreateReserves, EntryFollowsLease, ReclaimFollowsLease,
        LeasedMachine, ReservationsOwned, LeasesOfThisEpoch, TypeOK
    <2>2. PortsPartitioned'
      BY <1>17 DEF RootdInstalls, PortsPartitioned
    <2> QED
      BY <2>1, <2>2
  <1>18. ASSUME NEW x \in Exposers, ExposeReturns(x)
       PROVE  Books'
    <2>1. Stages'
      BY <1>18 DEF ExposeReturns, CallEnds, CreateReserves, EntryFollowsLease, ReclaimFollowsLease,
        LeasedMachine, ReservationsOwned, LeasesOfThisEpoch, TypeOK
    <2>2. PortsPartitioned'
      BY <1>18 DEF ExposeReturns, PortsPartitioned
    <2> QED
      BY <2>1, <2>2
  <1>19. ASSUME NEW x \in Exposers, ExposeRejected(x)
       PROVE  Books'
    <2>1. Stages'
      BY <1>19 DEF ExposeRejected, ReleaseForwardLease, CallEnds, CreateReserves, EntryFollowsLease, ReclaimFollowsLease,
        LeasedMachine, ReservationsOwned, LeasesOfThisEpoch, TypeOK
    <2>2. PortsPartitioned'
      BY <1>19, ReleaseLease DEF ExposeRejected, TypeOK
    <2> QED
      BY <2>1, <2>2
  <1>20. ASSUME NEW x \in Exposers, ExposeTimesOut(x)
       PROVE  Books'
    <2>1. Stages'
      BY <1>20 DEF ExposeTimesOut, ReleaseForwardLease, CallEnds, CreateReserves, EntryFollowsLease, ReclaimFollowsLease,
        LeasedMachine, ReservationsOwned, LeasesOfThisEpoch, TypeOK
    <2>2. PortsPartitioned'
      BY <1>20, ReleaseLease DEF ExposeTimesOut, TypeOK
    <2> QED
      BY <2>1, <2>2
  <1>21. ASSUME NEW x \in Exposers, NEW s \in Sandboxes, ExposeHttp(x, s)
       PROVE  Books'
    <2>1. Stages'
      BY <1>21 DEF ExposeHttp, CreateReserves, EntryFollowsLease, ReclaimFollowsLease,
        LeasedMachine, ReservationsOwned, LeasesOfThisEpoch, TypeOK
    <2>2. PortsPartitioned'
      BY <1>21 DEF ExposeHttp, PortsPartitioned, TypeOK
    <2> QED
      BY <2>1, <2>2
  <1>22. CASE UNCHANGED vars
    BY <1>22 DEF CreateReserves, EntryFollowsLease, ReclaimFollowsLease, LeasedMachine,
              ReservationsOwned, PortsPartitioned, LeasesOfThisEpoch
  <1> QED
    BY <1>1, <1>2, <1>3, <1>4, <1>5, <1>6, <1>7, <1>8, <1>9, <1>10, <1>11, <1>12, <1>13,
       <1>14, <1>15, <1>16, <1>17, <1>18, <1>19, <1>20, <1>21, <1>22
    DEF Next, CreateStep, RootdStep, ReclaimStep, ExposeStep

\* The inductive invariant holds in every reachable state.
THEOREM Inductive == Spec => []IInv
  <1>1. Init => IInv
    BY InvInit
  <1>2. IInv /\ [Next]_vars => IInv'
    BY InvStep
  <1> QED
    BY <1>1, <1>2, PTL DEF Spec

\* hostd's books are right for any number of concurrent creates, exposes,
\* kills, revocations, time-outs and restarts (capacity.ts, control_core.ts):
\* no reservation is lost or given back twice, no port is leased twice.
THEOREM BooksAreRight == Spec => []Accounted
  <1>1. IInv => Accounted
    BY DEF IInv, Books, Accounted
  <1> QED
    BY <1>1, Inductive, PTL

\* What revokeAll promises holds with creates and reclaims in flight: no live
\* lease of an earlier epoch, and no kill of a machine whose lease was dropped
\* silently (control_core.ts revokeAll, create).
THEOREM RevocationIsKept == Spec => []RevocationHolds
  <1>1. IInv => RevocationHolds
    BY DEF IInv, Books, RevocationHolds, LeasedMachine, RevokedNotKilled
  <1> QED
    BY <1>1, Inductive, PTL

-----------------------------------------------------------------------------
(***************************************************************************)
(* Forwards.  A call hostd has given up on may install its forward after   *)
(* the port was freed, so this holds only while no call times out.         *)
(***************************************************************************)

\* Forwards, and calls that make them, are of sandboxes whose create is done;
\* what rootd still installs for a dead hostd is of sandboxes nobody leases.
ForwardsAfterCreate ==
    /\ \A x \in Exposers : xpc[x] # "idle" => cpc[xtgt[x]] = "done"
    /\ \A s \in Sandboxes, p \in ForwardPorts : <<s, p>> \in late => cpc[s] = "failed"
    /\ \A s \in Sandboxes : fwd[s] # {} => cpc[s] \in {"done", "failed"}

\* While the lease lives, the port of a call under way is leased for it alone
\* and not forwarded before rootd installs it.
CallsHoldPorts ==
    \A x \in Exposers :
        xpc[x] # "idle" /\ lease[xtgt[x]] = "live" =>
            /\ xport[x] \in leased[xtgt[x]]
            /\ xpc[x] = "rpc" => xport[x] \notin fwd[xtgt[x]]
            /\ \A y \in Exposers :
                  y # x /\ xpc[y] # "idle" /\ xtgt[y] = xtgt[x] => xport[y] # xport[x]

Forwards == ForwardsAfterCreate /\ CallsHoldPorts /\ ForwardsLeased

\* The first state satisfies it.
LEMMA ForwardsInit == Init => Forwards
  BY DEF Init, Forwards, ForwardsAfterCreate, CallsHoldPorts, ForwardsLeased

\* Every step keeps it.
LEMMA ForwardsStep ==
  ASSUME "timeout" \notin Faults
  PROVE  IInv /\ Forwards /\ [Next]_vars => Forwards'
  <1> SUFFICES ASSUME IInv, Forwards, [Next]_vars
               PROVE  Forwards'
    OBVIOUS
  <1> TypeOK'
    BY TypeStep DEF IInv
  <1> USE DEF IInv, TypeOK, Books, EntryFollowsLease, PortsPartitioned, Forwards,
              ForwardsAfterCreate, CallsHoldPorts, ForwardsLeased,
              vars, rootdVars, hostVars, createVars, callVars
  <1>1. ASSUME NEW s \in Sandboxes, Create(s)
       PROVE  Forwards'
    BY <1>1 DEF Create, CreateTo
  <1>2. ASSUME NEW s \in Sandboxes, Reserve(s)
       PROVE  Forwards'
    BY <1>2 DEF Reserve, CreateTo
  <1>3. ASSUME NEW s \in Sandboxes, Admitted(s)
       PROVE  Forwards'
    BY <1>3, SMTT(30) DEF Admitted, CreateTo
  <1>4. ASSUME NEW s \in Sandboxes, Register(s)
       PROVE  Forwards'
    BY <1>4 DEF Register, CreateTo
  <1>5. ASSUME NEW s \in Sandboxes, RegisterFails(s)
       PROVE  Forwards'
    BY <1>5 DEF RegisterFails, CreateTo
  <1>6. ASSUME NEW s \in Sandboxes, LaunchRejected(s)
       PROVE  Forwards'
    BY <1>6 DEF LaunchRejected, CreateTo
  <1>7. ASSUME NEW s \in Sandboxes, RollbackRelease(s)
       PROVE  Forwards'
    BY <1>7 DEF RollbackRelease, CreateTo
  <1>8. ASSUME NEW s \in Sandboxes, RollbackKill(s)
       PROVE  Forwards'
    <2>1. \A t \in Sandboxes : fwd'[t] \subseteq fwd[t]
      BY <1>8 DEF RollbackKill, RootdKills
    <2>2. ForwardsAfterCreate'
      BY <1>8, <2>1 DEF RollbackKill, CreateTo
    <2>3. CallsHoldPorts' /\ ForwardsLeased'
      BY <1>8, <2>1 DEF RollbackKill, CreateTo
    <2> QED
      BY <2>2, <2>3
  <1>9. ASSUME NEW s \in Sandboxes, RootdLaunched(s)
       PROVE  Forwards'
    BY <1>9 DEF RootdLaunched
  <1>10. ASSUME NEW s \in Sandboxes, RootdLaunchFails(s)
       PROVE  Forwards'
    BY <1>10 DEF RootdLaunchFails
  <1>11. ASSUME NEW s \in Sandboxes, Settle(s)
       PROVE  Forwards'
    BY <1>11 DEF Settle, ReleaseForwardPorts
  <1>12. ASSUME NEW s \in Sandboxes, ReclaimRelease(s)
       PROVE  Forwards'
    BY <1>12 DEF ReclaimRelease
  <1>13. ASSUME NEW s \in Sandboxes, ReclaimKill(s)
       PROVE  Forwards'
    <2>1. \A t \in Sandboxes : fwd'[t] \subseteq fwd[t]
      BY <1>13 DEF ReclaimKill, RootdKills
    <2>2. ForwardsAfterCreate'
      BY <1>13, <2>1 DEF ReclaimKill
    <2>3. CallsHoldPorts' /\ ForwardsLeased'
      BY <1>13, <2>1 DEF ReclaimKill
    <2> QED
      BY <2>2, <2>3
  <1>14. ASSUME NEW s \in Sandboxes, NEW p \in ForwardPorts, LateInstall(s, p)
       PROVE  Forwards'
    BY <1>14 DEF LateInstall
  <1>15. CASE RevokeAll
    BY <1>15 DEF RevokeAll, ReleaseForwardPorts
  <1>16. CASE Restart
    BY <1>16 DEF Restart
  <1>17. ASSUME NEW x \in Exposers, RootdInstalls(x)
       PROVE  Forwards'
    BY <1>17 DEF RootdInstalls
  <1>18. ASSUME NEW x \in Exposers, ExposeReturns(x)
       PROVE  Forwards'
    BY <1>18 DEF ExposeReturns, CallEnds
  <1>19. ASSUME NEW x \in Exposers, ExposeRejected(x)
       PROVE  Forwards'
    BY <1>19, SMTT(30) DEF ExposeRejected, ReleaseForwardLease, CallEnds
  <1>20. ASSUME NEW x \in Exposers, ExposeTimesOut(x)
       PROVE  Forwards'
    BY <1>20 DEF ExposeTimesOut, ReleaseForwardLease, CallEnds
  <1>21. ASSUME NEW x \in Exposers, NEW s \in Sandboxes, ExposeHttp(x, s)
       PROVE  Forwards'
    BY <1>21 DEF ExposeHttp
  <1>22. CASE UNCHANGED vars
    BY <1>22
  <1> QED
    BY <1>1, <1>2, <1>3, <1>4, <1>5, <1>6, <1>7, <1>8, <1>9, <1>10, <1>11, <1>12, <1>13,
       <1>14, <1>15, <1>16, <1>17, <1>18, <1>19, <1>20, <1>21, <1>22
    DEF Next, CreateStep, RootdStep, ReclaimStep, ExposeStep

\* What rootd forwards to a leased sandbox are ports leased to it, for any
\* number of calls and sandboxes, as long as no call times out
\* (control_core.ts exposeHttp, #releaseForwardLease, #onLeaseExpire).
THEOREM ForwardsAreLeased ==
  ASSUME "timeout" \notin Faults
  PROVE  Spec => []ForwardsLeased
  <1>1. Init => Forwards
    BY ForwardsInit
  <1>2. IInv /\ Forwards /\ [Next]_vars => Forwards'
    BY ForwardsStep
  <1>3. Forwards => ForwardsLeased
    BY DEF Forwards
  <1> QED
    BY <1>1, <1>2, <1>3, Inductive, PTL DEF Spec

-----------------------------------------------------------------------------
(***************************************************************************)
(* The budget.  hostd forgets a machine when a call times out, a kill      *)
(* fails, a create meets a revocation, or it restarts; otherwise every     *)
(* machine stands for a reservation or for a kill that is under way.       *)
(***************************************************************************)
Forgetful == {"timeout", "kill", "revoke", "restart"}

\* All creates are of the first epoch, so a failing one rolls back with a kill.
RollbackKills ==
    /\ epoch = 0 /\ \A s \in Sandboxes : cepoch[s] = 0
    /\ \A s \in Sandboxes : cpc[s] = "rollback" /\ vm[s] = "ready" => undo[s] = TRUE

\* A machine that is starting has its create waiting for it; a machine that
\* runs has a reservation or is about to be killed.
MachinesCharged ==
    \A s \in Sandboxes :
        /\ vm[s] = "launching" => cpc[s] = "launch"
        /\ vm[s] = "ready" => s \in reserved \/ reclaim[s] = "kill" \/ cpc[s] = "undo"

\* The ledger admits no more than its limit.
WithinLimit == Cardinality(reserved) <= SandboxLimit

Budget == RollbackKills /\ MachinesCharged /\ WithinLimit

\* The first state satisfies it.
LEMMA BudgetInit == Init => Budget
  BY FS_EmptySet DEF Init, Budget, RollbackKills, MachinesCharged, WithinLimit

\* Giving reservations back keeps the ledger within its limit.
LEMMA LedgerShrinks ==
  ASSUME IsFiniteSet(Sandboxes), TypeOK, WithinLimit, reserved' \subseteq reserved
  PROVE  WithinLimit'
  <1>1. IsFiniteSet(reserved)
    BY FS_Subset DEF TypeOK
  <1>2. Cardinality(reserved') <= Cardinality(reserved)
    BY <1>1, FS_Subset
  <1>3. Cardinality(reserved) \in Nat /\ Cardinality(reserved') \in Nat
    BY <1>1, FS_Subset, FS_CardinalityType
  <1> QED
    BY <1>2, <1>3 DEF WithinLimit

\* So does capacity.reserve, which looks before it adds.
LEMMA LedgerGrows ==
  ASSUME IsFiniteSet(Sandboxes), TypeOK, WithinLimit, NEW s \in Sandboxes, Reserve(s)
  PROVE  WithinLimit'
  <1>1. IsFiniteSet(reserved)
    BY FS_Subset DEF TypeOK
  <1>2. CASE Cardinality(reserved) < SandboxLimit
    <2>1. reserved' = reserved \cup {s}
      BY <1>2 DEF Reserve
    <2>2. Cardinality(reserved) \in Nat
      BY <1>1, FS_CardinalityType
    <2>3. Cardinality(reserved \cup {s}) \in {Cardinality(reserved), Cardinality(reserved) + 1}
      BY <1>1, FS_AddElement
    <2> QED
      BY <1>2, <2>1, <2>2, <2>3 DEF WithinLimit
  <1>3. CASE ~(Cardinality(reserved) < SandboxLimit)
    BY <1>3 DEF Reserve, WithinLimit
  <1> QED
    BY <1>2, <1>3

\* Every step keeps it.
LEMMA BudgetStep ==
  ASSUME IsFiniteSet(Sandboxes), Faults \cap Forgetful = {}
  PROVE  IInv /\ Budget /\ [Next]_vars => Budget'
  <1> SUFFICES ASSUME IInv, Budget, [Next]_vars
               PROVE  Budget'
    OBVIOUS
  <1>a. WithinLimit'
    <2>1. CASE reserved' \subseteq reserved
      BY <2>1, LedgerShrinks DEF IInv, Budget
    <2>2. CASE \E s \in Sandboxes : Reserve(s)
      BY <2>2, LedgerGrows DEF IInv, Budget
    <2>3. reserved' \subseteq reserved \/ \E s \in Sandboxes : Reserve(s)
      BY DEF Next, CreateStep, RootdStep, ReclaimStep, ExposeStep, vars, rootdVars,
          hostVars, createVars, callVars, Create, CreateTo, Reserve, Admitted, Register,
          RegisterFails, LaunchRejected, RollbackRelease, RollbackKill, RootdKills,
          RootdLaunched, RootdLaunchFails, Settle, ReleaseForwardPorts, ReclaimRelease,
          ReclaimKill, LateInstall, RevokeAll, Restart, RootdInstalls, ExposeReturns,
          CallEnds, ExposeRejected, ReleaseForwardLease, ExposeTimesOut, ExposeHttp
    <2> QED
      BY <2>1, <2>2, <2>3
  <1> TypeOK'
    BY TypeStep DEF IInv
  <1> USE DEF IInv, TypeOK, Books, CreateReserves, EntryFollowsLease, ReclaimFollowsLease,
              Budget, RollbackKills, MachinesCharged, Forgetful,
              vars, rootdVars, hostVars, createVars, callVars
  <1>1. ASSUME NEW s \in Sandboxes, Create(s)
       PROVE  (RollbackKills /\ MachinesCharged)'
    BY <1>1 DEF Create, CreateTo
  <1>2. ASSUME NEW s \in Sandboxes, Reserve(s)
       PROVE  (RollbackKills /\ MachinesCharged)'
    BY <1>2 DEF Reserve, CreateTo
  <1>3. ASSUME NEW s \in Sandboxes, Admitted(s)
       PROVE  (RollbackKills /\ MachinesCharged)'
    BY <1>3 DEF Admitted, CreateTo
  <1>4. ASSUME NEW s \in Sandboxes, Register(s)
       PROVE  (RollbackKills /\ MachinesCharged)'
    BY <1>4 DEF Register, CreateTo
  <1>5. ASSUME NEW s \in Sandboxes, RegisterFails(s)
       PROVE  (RollbackKills /\ MachinesCharged)'
    <2>1. epoch = cepoch[s]
      OBVIOUS
    <2>2. undo' = [undo EXCEPT ![s] = TRUE]
      BY <1>5, <2>1 DEF RegisterFails
    <2>3. RollbackKills'
      BY <1>5, <2>2 DEF RegisterFails, CreateTo
    <2>4. MachinesCharged'
      BY <1>5 DEF RegisterFails, CreateTo
    <2> QED
      BY <2>3, <2>4
  <1>6. ASSUME NEW s \in Sandboxes, LaunchRejected(s)
       PROVE  (RollbackKills /\ MachinesCharged)'
    BY <1>6 DEF LaunchRejected, CreateTo
  <1>7. ASSUME NEW s \in Sandboxes, RollbackRelease(s)
       PROVE  (RollbackKills /\ MachinesCharged)'
    BY <1>7 DEF RollbackRelease, CreateTo
  <1>8. ASSUME NEW s \in Sandboxes, RollbackKill(s)
       PROVE  (RollbackKills /\ MachinesCharged)'
    BY <1>8 DEF RollbackKill, RootdKills, CreateTo
  <1>9. ASSUME NEW s \in Sandboxes, RootdLaunched(s)
       PROVE  (RollbackKills /\ MachinesCharged)'
    BY <1>9 DEF RootdLaunched
  <1>10. ASSUME NEW s \in Sandboxes, RootdLaunchFails(s)
       PROVE  (RollbackKills /\ MachinesCharged)'
    BY <1>10 DEF RootdLaunchFails
  <1>11. ASSUME NEW s \in Sandboxes, Settle(s)
       PROVE  (RollbackKills /\ MachinesCharged)'
    BY <1>11 DEF Settle, ReleaseForwardPorts
  <1>12. ASSUME NEW s \in Sandboxes, ReclaimRelease(s)
       PROVE  (RollbackKills /\ MachinesCharged)'
    BY <1>12 DEF ReclaimRelease
  <1>13. ASSUME NEW s \in Sandboxes, ReclaimKill(s)
       PROVE  (RollbackKills /\ MachinesCharged)'
    BY <1>13 DEF ReclaimKill, RootdKills
  <1>14. ASSUME NEW s \in Sandboxes, NEW p \in ForwardPorts, LateInstall(s, p)
       PROVE  (RollbackKills /\ MachinesCharged)'
    BY <1>14 DEF LateInstall
  <1>15. CASE RevokeAll
    BY <1>15 DEF RevokeAll, ReleaseForwardPorts
  <1>16. CASE Restart
    BY <1>16 DEF Restart
  <1>17. ASSUME NEW x \in Exposers, RootdInstalls(x)
       PROVE  (RollbackKills /\ MachinesCharged)'
    BY <1>17 DEF RootdInstalls
  <1>18. ASSUME NEW x \in Exposers, ExposeReturns(x)
       PROVE  (RollbackKills /\ MachinesCharged)'
    BY <1>18 DEF ExposeReturns, CallEnds
  <1>19. ASSUME NEW x \in Exposers, ExposeRejected(x)
       PROVE  (RollbackKills /\ MachinesCharged)'
    BY <1>19 DEF ExposeRejected, ReleaseForwardLease, CallEnds
  <1>20. ASSUME NEW x \in Exposers, ExposeTimesOut(x)
       PROVE  (RollbackKills /\ MachinesCharged)'
    BY <1>20 DEF ExposeTimesOut, ReleaseForwardLease, CallEnds
  <1>21. ASSUME NEW x \in Exposers, NEW s \in Sandboxes, ExposeHttp(x, s)
       PROVE  (RollbackKills /\ MachinesCharged)'
    BY <1>21 DEF ExposeHttp
  <1>22. CASE UNCHANGED vars
    <2>1. RollbackKills'
      BY <1>22
    <2>2. MachinesCharged'
      BY <1>22
    <2> QED
      BY <1>a, <2>1, <2>2
  <1> QED
    BY <1>a, <1>1, <1>2, <1>3, <1>4, <1>5, <1>6, <1>7, <1>8, <1>9, <1>10, <1>11, <1>12, <1>13,
       <1>14, <1>15, <1>16, <1>17, <1>18, <1>19, <1>20, <1>21, <1>22
    DEF Next, CreateStep, RootdStep, ReclaimStep, ExposeStep

\* The budget is given back before rootd confirms a kill; for any number of
\* creates machines exceed it only by the kills that are under way, unless
\* hostd forgets a machine (capacity.ts reserve, control_core.ts create and
\* #onLeaseExpire).
THEOREM OvercommitBounded ==
  ASSUME IsFiniteSet(Sandboxes), Faults \cap Forgetful = {}
  PROVE  Spec => []OvercommitIsKills
  <1>1. Init => Budget
    BY BudgetInit
  <1>2. IInv /\ Budget /\ [Next]_vars => Budget'
    BY BudgetStep
  <1>3. IInv /\ Budget => OvercommitIsKills
    <2> SUFFICES ASSUME IInv, Budget
                 PROVE  OvercommitIsKills
      OBVIOUS
    <2> DEFINE Running == {s \in Sandboxes : vm[s] \in {"launching", "ready"}}
               Killing == {s \in Sandboxes : reclaim[s] = "kill" \/ cpc[s] = "undo"}
    <2>1. Running \subseteq reserved \cup Killing
      BY DEF IInv, Books, CreateReserves, Budget, MachinesCharged
    <2>2. IsFiniteSet(reserved) /\ IsFiniteSet(Killing)
      BY FS_Subset DEF IInv, TypeOK
    <2>3. Cardinality(reserved) \in Nat /\ Cardinality(Killing) \in Nat
          /\ Cardinality(reserved \cap Killing) \in Nat
      BY <2>2, FS_CardinalityType, FS_Intersection
    <2>4. /\ IsFiniteSet(reserved \cup Killing)
          /\ Cardinality(reserved \cup Killing)
                = Cardinality(reserved) + Cardinality(Killing)
                    - Cardinality(reserved \cap Killing)
      BY <2>2, FS_Union
    <2>5. Cardinality(Running) <= Cardinality(reserved \cup Killing)
      BY <2>1, <2>4, FS_Subset
    <2>6. Cardinality(Running) \in Nat
      BY <2>1, <2>4, FS_Subset, FS_CardinalityType
    <2>7. Cardinality(reserved) <= SandboxLimit
      BY DEF Budget, WithinLimit
    <2>8. Cardinality(Running) <= SandboxLimit + Cardinality(Killing)
      BY <2>3, <2>4, <2>5, <2>6, <2>7
    <2> QED
      BY <2>8 DEF OvercommitIsKills
  <1> QED
    BY <1>1, <1>2, <1>3, Inductive, PTL DEF Spec

\* Together: budget and ports are lent a second time only over an outstanding
\* kill, for any number of sandboxes, unless hostd forgets a machine.
THEOREM LentOnlyOnce ==
  ASSUME IsFiniteSet(Sandboxes), Faults \cap Forgetful = {}
  PROVE  Spec => []LentOnce
  <1>1. "timeout" \notin Faults
    BY DEF Forgetful
  <1>2. Spec => []ForwardsLeased
    BY <1>1, ForwardsAreLeased
  <1>3. Spec => []OvercommitIsKills
    BY OvercommitBounded
  <1>4. OvercommitIsKills /\ ForwardsLeased => LentOnce
    BY DEF LentOnce
  <1> QED
    BY <1>2, <1>3, <1>4, PTL
=============================================================================
