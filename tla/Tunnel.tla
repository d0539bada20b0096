------------------------------- MODULE Tunnel -------------------------------
(***************************************************************************)
(* The tunnel data plane: HostControlCore.openTunnel, the single-use       *)
(* ticket store, the shared TunnelRouter, the bridge reservation, and      *)
(* rootd's per-bridge BridgeServer.                                        *)
(*                                                                         *)
(* One openTunnel call mints at most one ticket, which keys one route and  *)
(* one bridge, so ticket, route and bridge are all named by their call.    *)
(* An action is one segment between two awaits.  Deadlines (ticket ttl,    *)
(* dial budgets) may lapse at any moment.                                  *)
(***************************************************************************)
EXTENDS Integers, FiniteSets

CONSTANTS Sandboxes,
          Calls,       \* openTunnel calls
          Conns,       \* connections clients dial to the router
          MaxTickets,  \* maxOutstanding
          Faults,
          None

TunnelFaults == {"bind", "rpc", "kill", "dial"}

ASSUME TunnelLimits == MaxTickets \in Nat \ {0}
ASSUME TunnelFaultsAssumption == Faults \subseteq TunnelFaults
ASSUME TunnelNone == None \notin Sandboxes \cup Calls \cup Conns

VARIABLES
    \* The sandboxes, as hostd and rootd see them.
    alive,      \* live | terminated | revoked
    kill,       \* sandboxes whose reclaim still has to call gateway.kill
    vm,         \* ready | gone
    \* openTunnel.
    opc, tgt,   \* program counter and sandbox of each call
    \* The ticket store and the router.
    tickets, expired,
    router,     \* none | open | closed
    route,      \* none | open | claimed | settled
    aborted,    \* routes whose AbortController has fired
    tracked,    \* #tunnels
    \* rootd's bridge servers.
    bridge,     \* none | open | spliced | freed
    \* Connections.
    cpc, ctk,   \* program counter and presented ticket
    gone,       \* connections their client has closed
    burner,     \* history: the connection that burnt the ticket
    host        \* serving | revoked | draining | exited

sbxVars   == <<alive, kill, vm>>
callVars  == <<opc, tgt>>
storeVars == <<tickets, expired, burner>>
routeVars == <<route, aborted, tracked>>
connVars  == <<cpc, ctk, gone>>
vars == <<sbxVars, callVars, storeVars, router, routeVars, bridge, connVars, host>>

CallPcs == {"idle", "reserve", "hash", "register", "granted", "failed"}
ConnPcs == {"idle", "consume", "dial", "spliced", "closed"}

\* Every variable holds a value of its declared kind, and a call or a
\* connection that has started names its sandbox or its ticket.
TypeOK ==
    /\ alive \in [Sandboxes -> {"live", "terminated", "revoked"}]
    /\ kill \subseteq Sandboxes
    /\ vm \in [Sandboxes -> {"ready", "gone"}]
    /\ opc \in [Calls -> CallPcs]
    /\ tgt \in [Calls -> Sandboxes \cup {None}]
    /\ tickets \subseteq Calls /\ expired \subseteq Calls
    /\ router \in {"none", "open", "closed"}
    /\ route \in [Calls -> {"none", "open", "claimed", "settled"}]
    /\ aborted \subseteq Calls /\ tracked \subseteq Calls
    /\ bridge \in [Calls -> {"none", "open", "spliced", "freed"}]
    /\ cpc \in [Conns -> ConnPcs]
    /\ ctk \in [Conns -> Calls \cup {None}]
    /\ gone \subseteq Conns
    /\ burner \in [Calls -> Conns \cup {None}]
    /\ host \in {"serving", "revoked", "draining", "exited"}
    /\ \A c \in Calls : opc[c] # "idle" => tgt[c] \in Sandboxes
    /\ \A d \in Conns : cpc[d] # "idle" => ctk[d] \in Calls

Init ==
    /\ alive = [s \in Sandboxes |-> "live"]
    /\ kill = {}
    /\ vm = [s \in Sandboxes |-> "ready"]
    /\ opc = [c \in Calls |-> "idle"]
    /\ tgt = [c \in Calls |-> None]
    /\ tickets = {} /\ expired = {}
    /\ router \in {"none", "open"}
    /\ route = [c \in Calls |-> "none"]
    /\ aborted = {} /\ tracked = {}
    /\ bridge = [c \in Calls |-> "none"]
    /\ cpc = [d \in Conns |-> "idle"]
    /\ ctk = [d \in Conns |-> None]
    /\ gone = {}
    /\ burner = [c \in Calls |-> None]
    /\ host = "serving"

\* Tickets leave the store.
Drop(C) == tickets' = tickets \ C /\ expired' = expired \ C

OfSandbox(s) == {c \in Calls : tgt[c] = s}
Holders(c) == {d \in Conns : ctk[d] = c /\ cpc[d] \in {"dial", "spliced"}}

-----------------------------------------------------------------------------
(* openTunnel.                                                             *)

CallTo(c, pc) == opc' = [opc EXCEPT ![c] = pc]

\* The checks on the entry and its lease, then #ensureRouter, which has no
\* await when tunnelListen is configured.
OpenTunnel(c, s) ==
    /\ opc[c] = "idle" /\ alive[s] = "live"
    /\ tgt' = [tgt EXCEPT ![c] = s]
    /\ \/ router' = "open" /\ CallTo(c, "reserve")
       \/ router = "none" /\ "bind" \in Faults /\ CallTo(c, "failed") /\ UNCHANGED router
    /\ UNCHANGED <<sbxVars, storeVars, routeVars, bridge, connVars, host>>

Swept == tickets \ expired

\* rootd's openBridge and onBridgeGranted: only a ready, live execution.
RequireReadyAndLive(s) == vm[s] = "ready"

\* rootd answers: the bridge server listens; hostd goes on into issue(),
\* sweeps and checks the capacity before the await in ticketVerifier.
Reserved(c) ==
    /\ opc[c] = "reserve" /\ RequireReadyAndLive(tgt[c])
    /\ bridge' = [bridge EXCEPT ![c] = "open"]
    /\ tickets' = Swept /\ expired' = {}
    /\ CallTo(c, IF Cardinality(Swept) >= MaxTickets THEN "failed" ELSE "hash")
    /\ UNCHANGED <<sbxVars, tgt, burner, router, routeVars, connVars, host>>

\* rootd refuses, or hostd stops waiting for a call rootd still serves.
ReserveFails(c) ==
    /\ opc[c] = "reserve"
    /\ \/ ~RequireReadyAndLive(tgt[c]) /\ UNCHANGED bridge
       \/ "rpc" \in Faults /\ RequireReadyAndLive(tgt[c])
          /\ bridge' = [bridge EXCEPT ![c] = "open"]
    /\ CallTo(c, "failed")
    /\ UNCHANGED <<sbxVars, tgt, storeVars, router, routeVars, connVars, host>>

\* issue() stores the ticket; openTunnel awaits its verifier once more.
Issue(c) ==
    /\ opc[c] = "hash"
    /\ tickets' = tickets \cup {c}
    /\ CallTo(c, "register")
    /\ UNCHANGED <<sbxVars, tgt, expired, burner, router, routeVars, bridge, connVars, host>>

\* register() and #trackTunnel, or, on a closed router, the ticket revoked
\* again (with every other ticket of the sandbox).  Nothing looks at the
\* sandbox again.  The reply is lost once the control sessions are closed.
Register(c) ==
    /\ opc[c] = "register"
    /\ \/ /\ router = "open"
          /\ route' = [route EXCEPT ![c] = "open"]
          /\ tracked' = tracked \cup {c}
          /\ CallTo(c, IF host \in {"serving", "revoked"} THEN "granted" ELSE "failed")
          /\ UNCHANGED <<tickets, expired>>
       \/ /\ router # "open"
          /\ Drop(OfSandbox(tgt[c]))
          /\ CallTo(c, "failed")
          /\ UNCHANGED <<route, tracked>>
    /\ UNCHANGED <<sbxVars, tgt, burner, router, aborted, bridge, connVars, host>>

TicketExpires(c) ==
    /\ c \in tickets \ expired
    /\ expired' = expired \cup {c}
    /\ UNCHANGED <<sbxVars, callVars, tickets, burner, router, routeVars, bridge, connVars, host>>

-----------------------------------------------------------------------------
(* Routes.                                                                 *)

\* Mutant: a closed route's splice is not aborted.
CloseWithoutAbort(C) ==
    /\ route' = [c \in Calls |-> IF c \in C /\ route[c] \in {"open", "claimed"}
                               THEN "settled" ELSE route[c]]
    /\ UNCHANGED aborted

\* #closeRoute on every route of C that is not settled yet.
CloseRoutes(C) ==
    LET closing == {c \in C : route[c] \in {"open", "claimed"}} IN
    /\ route' = [c \in Calls |-> IF c \in closing THEN "settled" ELSE route[c]]
    /\ aborted' = aborted \cup closing

\* #finishRoute.
FinishRoute(c) ==
    /\ route' = [route EXCEPT ![c] = "settled"]
    /\ tracked' = tracked \ {c}

\* The dial budget of an unclaimed route.
RouteLapses(c) ==
    /\ route[c] = "open"
    /\ CloseRoutes({c}) /\ tracked' = tracked \ {c}
    /\ UNCHANGED <<sbxVars, callVars, storeVars, router, bridge, connVars, host>>

-----------------------------------------------------------------------------
(* A connection: #handle.                                                  *)

ConnTo(d, pc) == cpc' = [cpc EXCEPT ![d] = pc]

\* A client dials the endpoint of its grant; nothing stops two connections
\* from presenting the same ticket.  Reading the preface and hashing the
\* ticket have no effect, so the step ends with the lookup of the route.
Dial(d, c) ==
    /\ cpc[d] = "idle" /\ opc[c] = "granted" /\ router = "open"
    /\ ctk' = [ctk EXCEPT ![d] = c]
    /\ ConnTo(d, IF route[c] = "open" THEN "consume" ELSE "closed")
    /\ UNCHANGED <<sbxVars, callVars, storeVars, router, routeVars, bridge, gone, host>>

\* Mutant: the ticket is checked and left in the store.
CheckOnly(d) == UNCHANGED <<tickets, expired>>

\* consume() burns the presented ticket.
Burn(d) == Drop({ctk[d]})

\* A rejected ticket closes the connection and leaves the route; a route
\* closed during the burn ends in an error ack.
Consume(d) ==
    LET c == ctk[d]
        valid == c \in tickets \ expired IN
    /\ cpc[d] = "consume"
    /\ Burn(d)
    /\ burner' = [burner EXCEPT ![c] = IF valid THEN d ELSE @]
    /\ ConnTo(d, IF valid /\ c \notin aborted THEN "dial" ELSE "closed")
    /\ IF valid /\ c \in aborted THEN FinishRoute(c) /\ UNCHANGED aborted
                                 ELSE UNCHANGED routeVars
    /\ UNCHANGED <<sbxVars, callVars, router, bridge, ctk, gone, host>>

\* Mutant: the route is claimed without looking at it again.
ClaimBlindly(c) == TRUE

\* A route that was claimed or settled during the dial is not claimed.
Claimable(c) == route[c] = "open"

\* The claim; the ack goes out and the splice begins.
DialOk(d) ==
    LET c == ctk[d] IN
    /\ cpc[d] = "dial" /\ bridge[c] = "spliced"
    /\ IF Claimable(c)
       THEN route' = [route EXCEPT ![c] = "claimed"] /\ ConnTo(d, "spliced")
       ELSE ConnTo(d, "closed") /\ UNCHANGED route
    /\ UNCHANGED <<sbxVars, callVars, storeVars, router, aborted, tracked, bridge, ctk, gone, host>>

\* rootd answered DialFailed, its server is gone, or the route was aborted.
DialFails(d) ==
    LET c == ctk[d] IN
    /\ cpc[d] = "dial"
    /\ bridge[c] \in {"none", "freed"} \/ c \in aborted
    /\ ConnTo(d, "closed")
    /\ FinishRoute(c)
    /\ UNCHANGED <<sbxVars, callVars, storeVars, router, aborted, bridge, ctk, gone, host>>

\* The client left (before or after the ack), the bridge closed, or the
\* route was aborted.
SpliceEnds(d) ==
    LET c == ctk[d] IN
    /\ cpc[d] = "spliced"
    /\ d \in gone \/ bridge[c] = "freed" \/ c \in aborted
    /\ ConnTo(d, "closed")
    /\ FinishRoute(c)
    /\ gone' = gone \ {d}
    /\ UNCHANGED <<sbxVars, callVars, storeVars, router, aborted, bridge, ctk, host>>

ClientCloses(d) ==
    /\ cpc[d] = "spliced" /\ d \notin gone
    /\ gone' = gone \cup {d}
    /\ UNCHANGED <<sbxVars, callVars, storeVars, router, routeVars, bridge, cpc, ctk, host>>

-----------------------------------------------------------------------------
(* rootd's BridgeServer.                                                   *)

BridgeTo(c, st) == bridge' = [bridge EXCEPT ![c] = st]

\* hostd's connect presents the bridge credential, which claims the server;
\* the guest is dialed through connectBridge.
GuestDialed(c) ==
    /\ bridge[c] = "open"
    /\ \E d \in Conns : ctk[d] = c /\ cpc[d] = "dial"
    /\ \/ RequireReadyAndLive(tgt[c]) /\ BridgeTo(c, "spliced")
       \/ ~RequireReadyAndLive(tgt[c]) /\ BridgeTo(c, "freed")
       \/ "dial" \in Faults /\ BridgeTo(c, "freed")
    /\ UNCHANGED <<sbxVars, callVars, storeVars, router, routeVars, connVars, host>>

\* Mutant: rootd's splice does not see the guest's side end.
BridgeEndsByHostd(c) ==
    /\ bridge[c] = "spliced" /\ Holders(c) = {}
    /\ BridgeTo(c, "freed")
    /\ UNCHANGED <<sbxVars, callVars, storeVars, router, routeVars, connVars, host>>

\* The splice ends when either side does.
BridgeEnds(c) ==
    /\ bridge[c] = "spliced"
    /\ vm[tgt[c]] = "gone" \/ Holders(c) = {}
    /\ BridgeTo(c, "freed")
    /\ UNCHANGED <<sbxVars, callVars, storeVars, router, routeVars, connVars, host>>

\* The dial budget of an unclaimed bridge.
BridgeLapses(c) ==
    /\ bridge[c] = "open"
    /\ BridgeTo(c, "freed")
    /\ UNCHANGED <<sbxVars, callVars, storeVars, router, routeVars, connVars, host>>

-----------------------------------------------------------------------------
(* The end of a sandbox, and of hostd.                                     *)

\* #closeTunnels.
CloseTunnels(C) == CloseRoutes(C \cap tracked)

\* #onLeaseExpire, as far as tunnels go; its reclaim kills the execution.
LeaseExpires(s) ==
    /\ alive[s] = "live"
    /\ alive' = [alive EXCEPT ![s] = "terminated"]
    /\ kill' = kill \cup {s}
    /\ Drop(OfSandbox(s))
    /\ CloseTunnels(OfSandbox(s)) /\ tracked' = tracked \ OfSandbox(s)
    /\ UNCHANGED <<vm, callVars, burner, router, bridge, connVars, host>>

\* gateway.kill reaches rootd, or fails and is swallowed.
ReclaimKills(s) ==
    /\ s \in kill
    /\ kill' = kill \ {s}
    /\ \/ vm' = [vm EXCEPT ![s] = "gone"]
       \/ "kill" \in Faults /\ UNCHANGED vm
    /\ UNCHANGED <<alive, callVars, storeVars, router, routeVars, bridge, connVars, host>>

\* The machine dies on its own.
VmDies(s) ==
    /\ vm[s] = "ready"
    /\ vm' = [vm EXCEPT ![s] = "gone"]
    /\ UNCHANGED <<alive, kill, callVars, storeVars, router, routeVars, bridge, connVars, host>>

\* hostd's shutdown: revokeAll at once; the control sessions are closed only
\* after the accept loop has ended.
RevokeAll ==
    /\ host = "serving"
    /\ host' = "revoked"
    /\ alive' = [s \in Sandboxes |-> IF alive[s] = "live" THEN "revoked" ELSE alive[s]]
    /\ Drop(Calls)
    /\ CloseTunnels(Calls) /\ tracked' = {}
    /\ UNCHANGED <<kill, vm, callVars, burner, router, bridge, connVars>>

\* The sessions are closed, then closeAllTunnels up to the drain: the router
\* closes the routes that are still in its table, which a claimed route has left.
CloseAllTunnels ==
    /\ host = "revoked"
    /\ host' = "draining"
    /\ tracked' = {}
    /\ router' = "closed"
    /\ CloseRoutes({c \in Calls : route[c] = "open"})
    /\ UNCHANGED <<sbxVars, callVars, storeVars, bridge, connVars>>

\* Promise.allSettled(handlers), then the process exits and takes every
\* call, connection and pending kill with it.
Drained ==
    /\ host = "draining"
    /\ \A d \in Conns : cpc[d] \in {"idle", "closed"}
    /\ host' = "exited"
    /\ kill' = {}
    /\ opc' = [c \in Calls |-> IF opc[c] \in {"idle", "granted"} THEN opc[c] ELSE "failed"]
    /\ UNCHANGED <<alive, vm, tgt, storeVars, router, routeVars, bridge, connVars>>

-----------------------------------------------------------------------------
(* Specification.                                                          *)

\* What hostd and rootd do by themselves for a call or a connection.
CallStep(c) ==
    \/ Reserved(c) \/ ReserveFails(c) \/ Issue(c) \/ Register(c)
    \/ RouteLapses(c)
BridgeStep(c) ==
    \/ GuestDialed(c) \/ BridgeEnds(c) \/ BridgeLapses(c)
ConnStep(d) ==
    \/ Consume(d) \/ DialOk(d) \/ DialFails(d) \/ SpliceEnds(d)
ShutdownStep == CloseAllTunnels \/ Drained

Next ==
    \/ \E c \in Calls : CallStep(c) \/ BridgeStep(c) \/ TicketExpires(c)
    \/ \E c \in Calls, s \in Sandboxes : OpenTunnel(c, s)
    \/ \E d \in Conns : ConnStep(d) \/ ClientCloses(d)
    \/ \E d \in Conns, c \in Calls : Dial(d, c)
    \/ \E s \in Sandboxes : LeaseExpires(s) \/ ReclaimKills(s) \/ VmDies(s)
    \/ RevokeAll \/ ShutdownStep

Spec == Init /\ [][Next]_vars

\* Timers fire, awaited steps of both daemons complete; clients owe nothing.
FairSpec ==
    /\ Spec
    /\ \A c \in Calls : WF_vars(CallStep(c)) /\ WF_vars(BridgeStep(c))
    /\ \A d \in Conns : WF_vars(ConnStep(d))
    /\ WF_vars(ShutdownStep)

-----------------------------------------------------------------------------
(* Properties.                                                             *)

\* The guest is never dialed before the ticket is burnt
\* (TunnelAuthorizer.authorizeAndOpen), so a bridge in use has a spent one.
BurnBeforeGuest ==
    \A c \in Calls : bridge[c] = "spliced" =>
        burner[c] # None /\ c \notin tickets

\* At most one connection at a time holds a tunnel, however often its ticket
\* is presented.
OneHolder == \A c \in Calls : Cardinality(Holders(c)) <= 1

\* The guest is reached through a spent ticket and by one connection only
\* (TunnelAuthorizer, SingleUseTicketStore.consume).
TicketGuardsGuest == TypeOK /\ BurnBeforeGuest /\ OneHolder

\* A ticket admits one connection ever: who burnt it never changes.
SingleUse == \A c \in Calls : burner[c] # None => burner'[c] = burner[c]

\* A route that was closed, by a lease end or its dial budget while a guest
\* dial was under way, is never claimed by the dial that comes back.
ClosedRoutesStayClosed == \A c \in Calls : route[c] = "settled" => route'[c] = "settled"

\* The step that ends a sandbox's lease leaves none of its routes open: what
\* is registered is tracked, until hostd itself closes.
LeaseEndCutsRoutes ==
    \A c \in Calls : \A s \in Sandboxes :
        tgt[c] = s /\ alive[s] = "live" /\ alive'[s] # "live"
            => route'[c] \notin {"open", "claimed"}

\* No step gives a spent ticket, a closed route or the tunnel of an ended lease
\* a second life (TunnelRouter.#handle, HostControlCore.#closeTunnels).
NoSecondLife == [][SingleUse /\ ClosedRoutesStayClosed /\ LeaseEndCutsRoutes]_vars

\* A connection does not outlive its route: closing a route, at any point of
\* a dial, ends the connection that holds it.
CutTunnelsClose ==
    \A c \in Calls : (route[c] = "settled") ~> (Holders(c) = {})

\* A machine that is gone takes its tunnels with it, the ones an openTunnel
\* call registered after the sandbox ended included.
TunnelsDieWithMachine ==
    \A c \in Calls, s \in Sandboxes :
        (tgt[c] = s /\ vm[s] = "gone")
            ~> (bridge[c] \in {"none", "freed"} /\ Holders(c) = {})

\* TunnelRouter.close() documents that it aborts every route's splice, so
\* that a hostd that is told to stop gets to its exit.  Does not hold: a
\* claimed route has left the table close() goes through.
ShutdownEnds == (host = "revoked") ~> (host = "exited")
=============================================================================
