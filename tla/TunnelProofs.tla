---------------------------- MODULE TunnelProofs ----------------------------
(***************************************************************************)
(* Theorems about Tunnel, for any number of sandboxes, openTunnel calls    *)
(* and connections, and for every fault.                                   *)
(***************************************************************************)
EXTENDS Tunnel, FiniteSetTheorems, TLAPS

USE TunnelNone

\* The first state has the declared types.
LEMMA TypeInit == Init => TypeOK
  BY DEF Init, TypeOK, CallPcs, ConnPcs

\* Every step keeps the types.
LEMMA TypeStep == TypeOK /\ [Next]_vars => TypeOK'
  <1> SUFFICES ASSUME TypeOK, [Next]_vars
               PROVE  TypeOK'
    OBVIOUS
  <1> USE DEF TypeOK, CallPcs, ConnPcs,
              vars, sbxVars, callVars, storeVars, routeVars, connVars
  <1>1. ASSUME NEW c \in Calls, Reserved(c)
       PROVE  TypeOK'
    BY <1>1 DEF Reserved, RequireReadyAndLive, Swept, CallTo
  <1>2. ASSUME NEW c \in Calls, ReserveFails(c)
       PROVE  TypeOK'
    BY <1>2 DEF ReserveFails, RequireReadyAndLive, CallTo
  <1>3. ASSUME NEW c \in Calls, Issue(c)
       PROVE  TypeOK'
    BY <1>3 DEF Issue, CallTo
  <1>4. ASSUME NEW c \in Calls, Register(c)
       PROVE  TypeOK'
    BY <1>4 DEF Register, CallTo, Drop, OfSandbox
  <1>5. ASSUME NEW c \in Calls, RouteLapses(c)
       PROVE  TypeOK'
    BY <1>5 DEF RouteLapses, CloseRoutes
  <1>6. ASSUME NEW c \in Calls, GuestDialed(c)
       PROVE  TypeOK'
    BY <1>6 DEF GuestDialed, RequireReadyAndLive, BridgeTo
  <1>7. ASSUME NEW c \in Calls, BridgeEnds(c)
       PROVE  TypeOK'
    BY <1>7 DEF BridgeEnds, Holders, BridgeTo
  <1>8. ASSUME NEW c \in Calls, BridgeLapses(c)
       PROVE  TypeOK'
    BY <1>8 DEF BridgeLapses, BridgeTo
  <1>9. ASSUME NEW c \in Calls, TicketExpires(c)
       PROVE  TypeOK'
    BY <1>9 DEF TicketExpires
  <1>10. ASSUME NEW c \in Calls, NEW s \in Sandboxes, OpenTunnel(c, s)
       PROVE  TypeOK'
    BY <1>10 DEF OpenTunnel, CallTo
  <1>11. ASSUME NEW d \in Conns, Consume(d)
       PROVE  TypeOK'
    BY <1>11 DEF Consume, Burn, ConnTo, FinishRoute, Drop
  <1>12. ASSUME NEW d \in Conns, DialOk(d)
       PROVE  TypeOK'
    BY <1>12 DEF DialOk, Claimable, ConnTo
  <1>13. ASSUME NEW d \in Conns, DialFails(d)
       PROVE  TypeOK'
    BY <1>13 DEF DialFails, ConnTo, FinishRoute
  <1>14. ASSUME NEW d \in Conns, SpliceEnds(d)
       PROVE  TypeOK'
    BY <1>14 DEF SpliceEnds, ConnTo, FinishRoute
  <1>15. ASSUME NEW d \in Conns, ClientCloses(d)
       PROVE  TypeOK'
    BY <1>15 DEF ClientCloses
  <1>16. ASSUME NEW d \in Conns, NEW c \in Calls, Dial(d, c)
       PROVE  TypeOK'
    BY <1>16 DEF Dial, ConnTo
  <1>17. ASSUME NEW s \in Sandboxes, LeaseExpires(s)
       PROVE  TypeOK'
    BY <1>17 DEF LeaseExpires, Drop, OfSandbox, CloseTunnels, CloseRoutes
  <1>18. ASSUME NEW s \in Sandboxes, ReclaimKills(s)
       PROVE  TypeOK'
    BY <1>18 DEF ReclaimKills
  <1>19. ASSUME NEW s \in Sandboxes, VmDies(s)
       PROVE  TypeOK'
    BY <1>19 DEF VmDies
  <1>20. CASE RevokeAll
    BY <1>20 DEF RevokeAll, Drop, CloseTunnels, CloseRoutes
  <1>21. CASE CloseAllTunnels
    BY <1>21 DEF CloseAllTunnels, CloseRoutes
  <1>22. CASE Drained
    BY <1>22 DEF Drained
  <1>23. CASE UNCHANGED vars
    BY <1>23
  <1> QED
    BY <1>1, <1>2, <1>3, <1>4, <1>5, <1>6, <1>7, <1>8, <1>9, <1>10, <1>11, <1>12, <1>13,
       <1>14, <1>15, <1>16, <1>17, <1>18, <1>19, <1>20, <1>21, <1>22, <1>23
    DEF Next, CallStep, BridgeStep, ConnStep, ShutdownStep

-----------------------------------------------------------------------------
(***************************************************************************)
(* The inductive invariant.  A ticket leaves the store for good when it is *)
(* burnt, because the call that issued it is past its one issue(); and a   *)
(* connection that got as far as the guest is the one that burnt it.       *)
(***************************************************************************)

\* A ticket in the store was issued by a call that will issue no other.
Issued == \A c \in Calls : c \in tickets => opc[c] \notin {"idle", "reserve", "hash"}

\* A burnt ticket is out of the store, and its call is past issuing it.
Burnt ==
    \A c \in Calls : burner[c] # None =>
        c \notin tickets /\ opc[c] \notin {"idle", "reserve", "hash"}

\* A call that has not registered has no route.
Registered == \A c \in Calls : route[c] # "none" => opc[c] \in {"granted", "failed"}

\* Only granted tunnels are dialed.
Dialed == \A d \in Conns : cpc[d] # "idle" => opc[ctk[d]] = "granted"

\* Who dials or holds the guest of a ticket is who burnt it.
HoldersBurnt == \A d \in Conns : cpc[d] \in {"dial", "spliced"} => burner[ctk[d]] = d

\* The guest is reached over a burnt ticket.
GuestBehindTicket == \A c \in Calls : bridge[c] = "spliced" => burner[c] # None

\* While a lease lives hostd serves, and then every open route is one that
\* #closeTunnels will find.
RoutesTracked ==
    /\ \A s \in Sandboxes : alive[s] = "live" => host = "serving"
    /\ host = "serving" =>
           \A c \in Calls : route[c] \in {"open", "claimed"} => c \in tracked

Tickets ==
    /\ Issued /\ Burnt /\ Registered /\ Dialed
    /\ HoldersBurnt /\ GuestBehindTicket /\ RoutesTracked

IInv == TypeOK /\ Tickets

\* The first state satisfies the inductive invariant.
LEMMA InvInit == Init => IInv
  BY TypeInit DEF Init, IInv, Tickets, Issued, Burnt, Registered, Dialed,
                  HoldersBurnt, GuestBehindTicket, RoutesTracked

\* Every step keeps it.
LEMMA InvStep == IInv /\ [Next]_vars => IInv'
  <1> SUFFICES ASSUME IInv, [Next]_vars
               PROVE  Tickets'
    BY TypeStep DEF IInv
  <1> TypeOK'
    BY TypeStep DEF IInv
  <1> USE DEF IInv, TypeOK, Tickets, Issued, Burnt, Registered, Dialed,
              HoldersBurnt, GuestBehindTicket, RoutesTracked,
              vars, sbxVars, callVars, storeVars, routeVars, connVars
  <1>1. ASSUME NEW c \in Calls, Reserved(c)
       PROVE  Tickets'
    BY <1>1 DEF Reserved, RequireReadyAndLive, Swept, CallTo
  <1>2. ASSUME NEW c \in Calls, ReserveFails(c)
       PROVE  Tickets'
    BY <1>2 DEF ReserveFails, RequireReadyAndLive, CallTo
  <1>3. ASSUME NEW c \in Calls, Issue(c)
       PROVE  Tickets'
    BY <1>3 DEF Issue, CallTo
  <1>4. ASSUME NEW c \in Calls, Register(c)
       PROVE  Tickets'
    BY <1>4 DEF Register, CallTo, Drop, OfSandbox
  <1>5. ASSUME NEW c \in Calls, RouteLapses(c)
       PROVE  Tickets'
    BY <1>5 DEF RouteLapses, CloseRoutes
  <1>6. ASSUME NEW c \in Calls, GuestDialed(c)
       PROVE  Tickets'
    BY <1>6 DEF GuestDialed, RequireReadyAndLive, BridgeTo
  <1>7. ASSUME NEW c \in Calls, BridgeEnds(c)
       PROVE  Tickets'
    BY <1>7 DEF BridgeEnds, Holders, BridgeTo
  <1>8. ASSUME NEW c \in Calls, BridgeLapses(c)
       PROVE  Tickets'
    BY <1>8 DEF BridgeLapses, BridgeTo
  <1>9. ASSUME NEW c \in Calls, TicketExpires(c)
       PROVE  Tickets'
    BY <1>9 DEF TicketExpires
  <1>10. ASSUME NEW c \in Calls, NEW s \in Sandboxes, OpenTunnel(c, s)
       PROVE  Tickets'
    BY <1>10 DEF OpenTunnel, CallTo
  <1>11. ASSUME NEW d \in Conns, Consume(d)
       PROVE  Tickets'
    BY <1>11 DEF Consume, Burn, ConnTo, FinishRoute, Drop
  <1>12. ASSUME NEW d \in Conns, DialOk(d)
       PROVE  Tickets'
    BY <1>12 DEF DialOk, Claimable, ConnTo
  <1>13. ASSUME NEW d \in Conns, DialFails(d)
       PROVE  Tickets'
    BY <1>13 DEF DialFails, ConnTo, FinishRoute
  <1>14. ASSUME NEW d \in Conns, SpliceEnds(d)
       PROVE  Tickets'
    BY <1>14 DEF SpliceEnds, ConnTo, FinishRoute
  <1>15. ASSUME NEW d \in Conns, ClientCloses(d)
       PROVE  Tickets'
    BY <1>15 DEF ClientCloses
  <1>16. ASSUME NEW d \in Conns, NEW c \in Calls, Dial(d, c)
       PROVE  Tickets'
    BY <1>16 DEF Dial, ConnTo
  <1>17. ASSUME NEW s \in Sandboxes, LeaseExpires(s)
       PROVE  Tickets'
    BY <1>17 DEF LeaseExpires, Drop, OfSandbox, CloseTunnels, CloseRoutes
  <1>18. ASSUME NEW s \in Sandboxes, ReclaimKills(s)
       PROVE  Tickets'
    BY <1>18 DEF ReclaimKills
  <1>19. ASSUME NEW s \in Sandboxes, VmDies(s)
       PROVE  Tickets'
    BY <1>19 DEF VmDies
  <1>20. CASE RevokeAll
    BY <1>20 DEF RevokeAll, Drop, CloseTunnels, CloseRoutes
  <1>21. CASE CloseAllTunnels
    BY <1>21 DEF CloseAllTunnels, CloseRoutes
  <1>22. CASE Drained
    BY <1>22 DEF Drained
  <1>23. CASE UNCHANGED vars
    BY <1>23
  <1> QED
    BY <1>1, <1>2, <1>3, <1>4, <1>5, <1>6, <1>7, <1>8, <1>9, <1>10, <1>11, <1>12, <1>13,
       <1>14, <1>15, <1>16, <1>17, <1>18, <1>19, <1>20, <1>21, <1>22, <1>23
    DEF Next, CallStep, BridgeStep, ConnStep, ShutdownStep

\* The inductive invariant holds in every reachable state.
THEOREM Inductive == Spec => []IInv
  <1>1. Init => IInv
    BY InvInit
  <1>2. IInv /\ [Next]_vars => IInv'
    BY InvStep
  <1> QED
    BY <1>1, <1>2, PTL DEF Spec

\* Whoever holds a tunnel is its burner, so there is at most one.
LEMMA AtMostOneHolder == IInv => OneHolder
  <1> SUFFICES ASSUME IInv, NEW c \in Calls
               PROVE  Cardinality(Holders(c)) <= 1
    BY DEF OneHolder
  <1>1. Holders(c) \in SUBSET {burner[c]}
    BY DEF IInv, TypeOK, Tickets, HoldersBurnt, Holders
  <1>2. IsFiniteSet({burner[c]}) /\ Cardinality({burner[c]}) = 1
    BY FS_Singleton
  <1> QED
    BY <1>1, <1>2, FS_Subset, FS_CardinalityType

\* For any number of connections presenting any tickets, the guest is reached
\* through a spent ticket and by one connection only
\* (SingleUseTicketStore.consume before BridgeServer's dial).
THEOREM TicketsGuardGuests == Spec => []TicketGuardsGuest
  <1>1. IInv => TicketGuardsGuest
    BY AtMostOneHolder
    DEF IInv, TicketGuardsGuest, Tickets, GuestBehindTicket, Burnt, BurnBeforeGuest
  <1> QED
    BY <1>1, Inductive, PTL

\* No step gives a spent ticket, a closed route or the tunnel of an ended
\* lease a second life.
LEMMA SecondLifeStep ==
  IInv /\ [Next]_vars => SingleUse /\ ClosedRoutesStayClosed /\ LeaseEndCutsRoutes
  <1> SUFFICES ASSUME IInv, [Next]_vars
               PROVE  SingleUse /\ ClosedRoutesStayClosed /\ LeaseEndCutsRoutes
    OBVIOUS
  <1> USE DEF IInv, TypeOK, Tickets, Burnt, Registered, Dialed, RoutesTracked,
              SingleUse, ClosedRoutesStayClosed, LeaseEndCutsRoutes,
              vars, sbxVars, callVars, storeVars, routeVars, connVars
  <1>1. ASSUME NEW c \in Calls, Reserved(c)
       PROVE  SingleUse /\ ClosedRoutesStayClosed /\ LeaseEndCutsRoutes
    BY <1>1 DEF Reserved, RequireReadyAndLive, Swept, CallTo
  <1>2. ASSUME NEW c \in Calls, ReserveFails(c)
       PROVE  SingleUse /\ ClosedRoutesStayClosed /\ LeaseEndCutsRoutes
    BY <1>2 DEF ReserveFails, RequireReadyAndLive, CallTo
  <1>3. ASSUME NEW c \in Calls, Issue(c)
       PROVE  SingleUse /\ ClosedRoutesStayClosed /\ LeaseEndCutsRoutes
    BY <1>3 DEF Issue, CallTo
  <1>4. ASSUME NEW c \in Calls, Register(c)
       PROVE  SingleUse /\ ClosedRoutesStayClosed /\ LeaseEndCutsRoutes
    BY <1>4 DEF Register, CallTo, Drop, OfSandbox
  <1>5. ASSUME NEW c \in Calls, RouteLapses(c)
       PROVE  SingleUse /\ ClosedRoutesStayClosed /\ LeaseEndCutsRoutes
    BY <1>5 DEF RouteLapses, CloseRoutes
  <1>6. ASSUME NEW c \in Calls, GuestDialed(c)
       PROVE  SingleUse /\ ClosedRoutesStayClosed /\ LeaseEndCutsRoutes
    BY <1>6 DEF GuestDialed, RequireReadyAndLive, BridgeTo
  <1>7. ASSUME NEW c \in Calls, BridgeEnds(c)
       PROVE  SingleUse /\ ClosedRoutesStayClosed /\ LeaseEndCutsRoutes
    BY <1>7 DEF BridgeEnds, Holders, BridgeTo
  <1>8. ASSUME NEW c \in Calls, BridgeLapses(c)
       PROVE  SingleUse /\ ClosedRoutesStayClosed /\ LeaseEndCutsRoutes
    BY <1>8 DEF BridgeLapses, BridgeTo
  <1>9. ASSUME NEW c \in Calls, TicketExpires(c)
       PROVE  SingleUse /\ ClosedRoutesStayClosed /\ LeaseEndCutsRoutes
    BY <1>9 DEF TicketExpires
  <1>10. ASSUME NEW c \in Calls, NEW s \in Sandboxes, OpenTunnel(c, s)
       PROVE  SingleUse /\ ClosedRoutesStayClosed /\ LeaseEndCutsRoutes
    BY <1>10 DEF OpenTunnel, CallTo
  <1>11. ASSUME NEW d \in Conns, Consume(d)
       PROVE  SingleUse /\ ClosedRoutesStayClosed /\ LeaseEndCutsRoutes
    BY <1>11 DEF Consume, Burn, ConnTo, FinishRoute, Drop
  <1>12. ASSUME NEW d \in Conns, DialOk(d)
       PROVE  SingleUse /\ ClosedRoutesStayClosed /\ LeaseEndCutsRoutes
    BY <1>12 DEF DialOk, Claimable, ConnTo
  <1>13. ASSUME NEW d \in Conns, DialFails(d)
       PROVE  SingleUse /\ ClosedRoutesStayClosed /\ LeaseEndCutsRoutes
    BY <1>13 DEF DialFails, ConnTo, FinishRoute
  <1>14. ASSUME NEW d \in Conns, SpliceEnds(d)
       PROVE  SingleUse /\ ClosedRoutesStayClosed /\ LeaseEndCutsRoutes
    BY <1>14 DEF SpliceEnds, ConnTo, FinishRoute
  <1>15. ASSUME NEW d \in Conns, ClientCloses(d)
       PROVE  SingleUse /\ ClosedRoutesStayClosed /\ LeaseEndCutsRoutes
    BY <1>15 DEF ClientCloses
  <1>16. ASSUME NEW d \in Conns, NEW c \in Calls, Dial(d, c)
       PROVE  SingleUse /\ ClosedRoutesStayClosed /\ LeaseEndCutsRoutes
    BY <1>16 DEF Dial, ConnTo
  <1>17. ASSUME NEW s \in Sandboxes, LeaseExpires(s)
       PROVE  SingleUse /\ ClosedRoutesStayClosed /\ LeaseEndCutsRoutes
    BY <1>17 DEF LeaseExpires, Drop, OfSandbox, CloseTunnels, CloseRoutes
  <1>18. ASSUME NEW s \in Sandboxes, ReclaimKills(s)
       PROVE  SingleUse /\ ClosedRoutesStayClosed /\ LeaseEndCutsRoutes
    BY <1>18 DEF ReclaimKills
  <1>19. ASSUME NEW s \in Sandboxes, VmDies(s)
       PROVE  SingleUse /\ ClosedRoutesStayClosed /\ LeaseEndCutsRoutes
    BY <1>19 DEF VmDies
  <1>20. CASE RevokeAll
    BY <1>20 DEF RevokeAll, Drop, CloseTunnels, CloseRoutes
  <1>21. CASE CloseAllTunnels
    BY <1>21 DEF CloseAllTunnels, CloseRoutes
  <1>22. CASE Drained
    BY <1>22 DEF Drained
  <1>23. CASE UNCHANGED vars
    BY <1>23
  <1> QED
    BY <1>1, <1>2, <1>3, <1>4, <1>5, <1>6, <1>7, <1>8, <1>9, <1>10, <1>11, <1>12, <1>13,
       <1>14, <1>15, <1>16, <1>17, <1>18, <1>19, <1>20, <1>21, <1>22, <1>23
    DEF Next, CallStep, BridgeStep, ConnStep, ShutdownStep

\* Spent tickets, closed routes and the tunnels of ended leases stay what they
\* are, for any interleaving of dials, deadlines and shutdown
\* (TunnelRouter.#handle, HostControlCore.#closeTunnels).
THEOREM NothingRevives == Spec => NoSecondLife
  <1>1. IInv /\ [Next]_vars => SingleUse /\ ClosedRoutesStayClosed /\ LeaseEndCutsRoutes
    BY SecondLifeStep
  <1> QED
    BY <1>1, Inductive, PTL DEF Spec, NoSecondLife
=============================================================================
