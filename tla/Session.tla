------------------------------ MODULE Session ------------------------------
(***************************************************************************)
(* A client's session: StudioboxProvider.create and connect, the sandbox   *)
(* object with close() and kill() (sdk/provider.ts, sdk/sandbox.ts), and   *)
(* the control server of hostd with one gate and one abort signal per      *)
(* connection (hostd/main.ts, hostd/service.ts).                           *)
(*                                                                         *)
(* HostControl, Leases, Tunnel and Agent have the details of what is here  *)
(* one step: create's launch, a lease, a tunnel, the agent's bootstrap.    *)
(* Every call of the SDK has a deadline that may lapse.                    *)
(***************************************************************************)
EXTENDS Integers, FiniteSets

CONSTANTS Clients,      \* calls of create or connect, each with its sandbox object
          Creators,     \* the ones that call create
          Breakable,    \* the ones whose control transport may break by itself
          Failures,
          Nobody

SessionFailures == {"timeout", "auth", "launch", "setup", "resolve", "env", "kill"}

ASSUME SessionFailuresAssumption == Failures \subseteq SessionFailures
ASSUME SessionCreators == Creators \subseteq Clients /\ Breakable \subseteq Clients
ASSUME SessionNobody == Nobody \notin Clients

VARIABLES
    \* The SDK.
    pc,         \* where create() or connect(), then close(), is
    res,        \* what create() or connect() returned
    of,         \* the sandbox, named by the client that creates it
    repl,       \* clients with an open repl
    kill,       \* #killIssued: none | issued | ok | error
    \* The connections.
    host,       \* the control transport: none | open | closed
    agent,      \* the agent transport: none | open | closed
    \* The control server.
    hostd,      \* serving | revoked | closing | closed
    srv,        \* none | pending (createWithRoot) | served | gone
    told,       \* connections whose transport close has been reported
    gate, aborted,
    sweep,      \* connections server.close() has still to close
    \* The core.
    lease,      \* session | duration
    box         \* none | launching | running | reclaiming | dead | stray | revoked

sdkVars == <<pc, res, of, repl, kill>>
srvVars == <<hostd, srv, told, gate, aborted, sweep>>
boxVars == <<lease, box>>
sessionVars == <<sdkVars, host, agent, srvVars, boxVars>>

Opening == {"handshake", "create", "tunnel", "bootstrap", "resolve"}
Closing == {"repls", "teardown"}
Pcs == {"idle", "env", "open", "undo", "closed", "failed"} \cup Opening \cup Closing

\* Every variable holds a value of its declared kind, and whoever is past
\* create() or connect() has a sandbox.
SessionTypeOK ==
    /\ pc \in [Clients -> Pcs] /\ res \in [Clients -> {"none", "ok", "rejected"}]
    /\ of \in [Clients -> Clients \cup {Nobody}]
    /\ repl \subseteq Clients
    /\ kill \in [Clients -> {"none", "issued", "ok", "error"}]
    /\ host \in [Clients -> {"none", "open", "closed"}]
    /\ agent \in [Clients -> {"none", "open", "closed"}]
    /\ hostd \in {"serving", "revoked", "closing", "closed"}
    /\ srv \in [Clients -> {"none", "pending", "served", "gone"}]
    /\ told \subseteq Clients /\ aborted \subseteq Clients /\ sweep \subseteq Clients
    /\ gate \in [Clients -> {"connected", "authenticated", "closed"}]
    /\ lease \in [Clients -> {"session", "duration"}]
    /\ box \in [Clients -> {"none", "launching", "running", "reclaiming", "dead", "stray", "revoked"}]
    /\ \A k \in Clients : res[k] = "ok" => of[k] # Nobody

SessionInit ==
    /\ pc = [k \in Clients |-> "idle"] /\ res = [k \in Clients |-> "none"]
    /\ of = [k \in Clients |-> Nobody] /\ repl = {} /\ kill = [k \in Clients |-> "none"]
    /\ host = [k \in Clients |-> "none"] /\ agent = [k \in Clients |-> "none"]
    /\ hostd = "serving" /\ srv = [k \in Clients |-> "none"] /\ told = {}
    /\ gate = [k \in Clients |-> "connected"] /\ aborted = {} /\ sweep = {}
    /\ lease \in {l \in [Clients -> {"session", "duration"}] :
                    \A k \in Clients \ Creators : l[k] = "duration"}
    /\ box = [k \in Clients |-> "none"]

To(k, p) == pc' = [pc EXCEPT ![k] = p]
Reject(k) == res' = [res EXCEPT ![k] = "rejected"]
HostTo(k, st) == host' = [host EXCEPT ![k] = st]
AgentTo(k, st) == agent' = [agent EXCEPT ![k] = st]
BoxTo(k, st) == box' = [box EXCEPT ![k] = st]

\* A request on the control connection is handled.
Handled(k) == host[k] = "open" /\ srv[k] = "served"
Authorized(k) == Handled(k) /\ gate[k] = "authenticated"

-----------------------------------------------------------------------------
(* The control server.                                                     *)

\* connectEndpoint, and the accept loop takes the transport.
Dial(k) ==
    /\ pc[k] = "idle"
    /\ IF hostd = "serving"
       THEN /\ To(k, "handshake") /\ HostTo(k, "open")
            /\ srv' = [srv EXCEPT ![k] = "pending"] /\ UNCHANGED res
       ELSE To(k, "failed") /\ Reject(k) /\ UNCHANGED <<host, srv>>
    /\ UNCHANGED <<of, repl, kill, agent, hostd, told, gate, aborted, sweep, boxVars>>

\* serveAccepted: createWithRoot resolves and the entry is set, even when
\* the transport has closed meanwhile; or it throws.
Served(k) ==
    /\ srv[k] = "pending"
    /\ \/ srv' = [srv EXCEPT ![k] = "served"] /\ UNCHANGED host
       \/ "setup" \in Failures /\ srv' = [srv EXCEPT ![k] = "gone"] /\ HostTo(k, "closed")
    /\ UNCHANGED <<sdkVars, agent, hostd, told, gate, aborted, sweep, boxVars>>

\* connectionAbort.abort(): a session lease bound to it settles.
Settle(ks) ==
    box' = [k \in Clients |->
        IF k \in ks /\ box[k] = "running" /\ lease[k] = "session" THEN "reclaiming" ELSE box[k]]

\* Mutant: the gate is closed and the signal forgotten.
TransportClosedQuietly(k) ==
    /\ host[k] = "closed" /\ k \notin told
    /\ told' = told \cup {k}
    /\ srv' = [srv EXCEPT ![k] = IF @ = "served" THEN "gone" ELSE @]
    /\ gate' = [gate EXCEPT ![k] = IF srv[k] = "served" THEN "closed" ELSE @]
    /\ UNCHANGED <<sdkVars, host, agent, hostd, aborted, sweep, boxVars>>

\* onTransportClose: the entry, when there is one, goes with its gate and
\* its session leases.
TransportClosed(k) ==
    /\ host[k] = "closed" /\ k \notin told
    /\ told' = told \cup {k}
    /\ IF srv[k] = "served"
       THEN /\ srv' = [srv EXCEPT ![k] = "gone"] /\ gate' = [gate EXCEPT ![k] = "closed"]
            /\ aborted' = aborted \cup {k} /\ Settle({k})
       ELSE UNCHANGED <<srv, gate, aborted, box>>
    /\ UNCHANGED <<sdkVars, host, agent, hostd, sweep, lease>>

\* The peer, the network or the forwarder in between breaks the transport.
TransportBreaks(k) ==
    /\ k \in Breakable /\ host[k] = "open"
    /\ HostTo(k, "closed")
    /\ UNCHANGED <<sdkVars, agent, srvVars, boxVars>>

\* shutdown(): revokeAll drops the leases without a kill; the acceptor closes.
Shutdown ==
    /\ hostd = "serving"
    /\ hostd' = "revoked"
    /\ box' = [k \in Clients |-> IF box[k] \in {"launching", "running"} THEN "revoked" ELSE box[k]]
    /\ UNCHANGED <<sdkVars, host, agent, srv, told, gate, aborted, sweep, lease>>

\* The accept loop has ended; the active connections are copied.
AcceptLoopEnds ==
    /\ hostd = "revoked" /\ \A k \in Clients : srv[k] # "pending"
    /\ hostd' = "closing"
    /\ sweep' = {k \in Clients : srv[k] = "served"}
    /\ UNCHANGED <<sdkVars, host, agent, srv, told, gate, aborted, boxVars>>

\* gate.close(), abort(), await runtime.close(), which closes the transport.
CloseConnection(k) ==
    /\ hostd = "closing" /\ k \in sweep
    /\ sweep' = sweep \ {k}
    /\ srv' = [srv EXCEPT ![k] = "gone"] /\ gate' = [gate EXCEPT ![k] = "closed"]
    /\ aborted' = aborted \cup {k} /\ Settle({k})
    /\ HostTo(k, "closed") /\ told' = told \cup {k}
    /\ UNCHANGED <<sdkVars, agent, hostd, lease>>

ServerClosed ==
    /\ hostd = "closing" /\ sweep = {} /\ hostd' = "closed"
    /\ UNCHANGED <<sdkVars, host, agent, srv, told, gate, aborted, sweep, boxVars>>

-----------------------------------------------------------------------------
(* create() and connect().                                                 *)

OnlySdk == UNCHANGED <<repl, kill, hostd, srv, told, sweep, lease>>

\* negotiate, authenticate and host(), accepted or not; connect() already
\* knows its sandbox.
Handshake(k) ==
    /\ pc[k] = "handshake" /\ Handled(k) /\ gate[k] = "connected"
    /\ \/ /\ gate' = [gate EXCEPT ![k] = "authenticated"]
          /\ \/ k \in Creators /\ To(k, "create") /\ of' = [of EXCEPT ![k] = k]
             \/ \E b \in Creators : /\ k \notin Creators /\ box[b] # "none"
                                    /\ of' = [of EXCEPT ![k] = b] /\ To(k, "tunnel")
       \/ "auth" \in Failures /\ To(k, "undo") /\ UNCHANGED <<gate, of>>
    /\ UNCHANGED <<res, host, agent, aborted, box>> /\ OnlySdk

\* HostControl.create reaches the core.
Create(k) ==
    /\ pc[k] = "create" /\ Authorized(k) /\ box[k] = "none"
    /\ BoxTo(k, IF hostd = "serving" THEN "launching" ELSE "revoked")
    /\ UNCHANGED <<pc, res, of, host, agent, gate, aborted>> /\ OnlySdk

Answered(k) == pc[k] = "create" /\ host[k] = "open"

\* Mutant: the lease does not look at a signal that has already fired.
LaunchedBlindly(k) ==
    /\ box[k] = "launching"
    /\ BoxTo(k, "running")
    /\ IF Answered(k) THEN To(k, "tunnel") ELSE UNCHANGED pc
    /\ UNCHANGED <<res, of, host, agent, gate, aborted>> /\ OnlySdk

\* The core registers the lease: a session whose signal has fired settles.
Launched(k) ==
    /\ box[k] = "launching"
    /\ BoxTo(k, IF lease[k] = "session" /\ k \in aborted THEN "reclaiming" ELSE "running")
    /\ IF Answered(k) THEN To(k, "tunnel") ELSE UNCHANGED pc
    /\ UNCHANGED <<res, of, host, agent, gate, aborted>> /\ OnlySdk

LaunchFails(k) ==
    /\ box[k] = "launching" /\ "launch" \in Failures
    /\ BoxTo(k, "dead")
    /\ IF Answered(k) THEN To(k, "undo") ELSE UNCHANGED pc
    /\ UNCHANGED <<res, of, host, agent, gate, aborted>> /\ OnlySdk

\* control.sandbox, openTunnel, dialTunnel: an error for a sandbox that is
\* not running.
OpenTunnel(k) ==
    /\ pc[k] = "tunnel" /\ Authorized(k)
    /\ IF box[of[k]] = "running"
       THEN To(k, "bootstrap") /\ AgentTo(k, "open")
       ELSE To(k, "undo") /\ UNCHANGED agent
    /\ UNCHANGED <<res, of, host, gate, aborted, box>> /\ OnlySdk

\* The agent's bootstrap, then resolveWireBackend.
AgentBootstrap(k) ==
    /\ pc[k] = "bootstrap" /\ agent[k] = "open"
    /\ To(k, "resolve")
    /\ UNCHANGED <<res, of, host, agent, gate, aborted, box>> /\ OnlySdk

Resolve(k) ==
    /\ pc[k] = "resolve" /\ agent[k] = "open"
    /\ \/ To(k, "env") /\ of[k] = k /\ UNCHANGED res
       \/ To(k, "open") /\ res' = [res EXCEPT ![k] = "ok"]
    /\ UNCHANGED <<of, host, agent, gate, aborted, box>> /\ OnlySdk

\* resolveWireBackend fails, outside of every try: nothing is closed.
ResolveFails(k) ==
    /\ pc[k] = "resolve" /\ "resolve" \in Failures
    /\ To(k, "failed") /\ Reject(k)
    /\ UNCHANGED <<of, host, agent, gate, aborted, box>> /\ OnlySdk

\* env.set for every entry; a failure closes the sandbox object.
EnvSet(k) ==
    /\ pc[k] = "env"
    /\ \/ agent[k] = "open" /\ To(k, "open") /\ res' = [res EXCEPT ![k] = "ok"]
       \/ ("env" \in Failures \/ agent[k] # "open") /\ To(k, "repls") /\ Reject(k)
    /\ UNCHANGED <<of, host, agent, gate, aborted, box>> /\ OnlySdk

\* A call fails: its deadline lapses or its connection is gone.
CallFails(k) ==
    /\ pc[k] \in Opening \ {"resolve"}
    /\ \/ "timeout" \in Failures
       \/ pc[k] = "bootstrap" /\ agent[k] # "open"
       \/ pc[k] # "bootstrap" /\ host[k] # "open"
    /\ To(k, "undo")
    /\ UNCHANGED <<res, of, host, agent, gate, aborted, box>> /\ OnlySdk

\* The catch blocks: agentConnection.close(), hostConnection.close(), throw.
Undo(k) ==
    /\ pc[k] = "undo"
    /\ agent' = [agent EXCEPT ![k] = IF @ = "open" THEN "closed" ELSE @]
    /\ HostTo(k, "closed") /\ To(k, "failed") /\ Reject(k)
    /\ UNCHANGED <<of, gate, aborted, box>> /\ OnlySdk

-----------------------------------------------------------------------------
(* The sandbox object.                                                     *)

OnlyObject == UNCHANGED <<res, of, srvVars, boxVars>>

OpenRepl(k) ==
    /\ pc[k] = "open" /\ agent[k] = "open"
    /\ repl' = repl \cup {k}
    /\ UNCHANGED <<pc, kill, host, agent>> /\ OnlyObject

\* close(), await using: once; every later call awaits the same teardown.
Close(k) ==
    /\ pc[k] = "open" /\ To(k, "repls")
    /\ UNCHANGED <<repl, kill, host, agent>> /\ OnlyObject

\* Mutant: a repl's close waits for the agent as long as it takes.
CloseReplsPatiently(k) ==
    /\ pc[k] = "repls"
    /\ k \in repl => agent[k] = "open"
    /\ repl' = repl \ {k} /\ To(k, "teardown")
    /\ UNCHANGED <<kill, host, agent>> /\ OnlyObject

\* #doTeardownConnection: the repls, each answered, failed or timed out;
\* then the agent connection and the host connection (Stream has the pumps).
CloseRepls(k) ==
    /\ pc[k] = "repls"
    /\ repl' = repl \ {k} /\ To(k, "teardown")
    /\ UNCHANGED <<kill, host, agent>> /\ OnlyObject

Teardown(k) ==
    /\ pc[k] = "teardown"
    /\ AgentTo(k, "closed") /\ HostTo(k, "closed") /\ To(k, "closed")
    /\ UNCHANGED <<repl, kill>> /\ OnlyObject

\* Mutant: kill() after close() is coalesced with the teardown.
KillCoalesced(k) ==
    /\ res[k] = "ok" /\ kill[k] = "none"
    /\ kill' = [kill EXCEPT ![k] = IF pc[k] = "open" THEN "issued" ELSE "ok"]
    /\ UNCHANGED <<pc, repl, host, agent>> /\ OnlyObject

\* kill(): the terminate is issued once, also after close().
Kill(k) ==
    /\ res[k] = "ok" /\ kill[k] = "none"
    /\ kill' = [kill EXCEPT ![k] = "issued"]
    /\ UNCHANGED <<pc, repl, host, agent>> /\ OnlyObject

\* `finally`: the teardown, unless close() has begun it.
Finally(k) == IF pc[k] = "open" THEN To(k, "repls") ELSE UNCHANGED pc

\* HostSandbox.kill: killSandbox releases the lease, whose settling starts
\* the reclaim; a sandbox that is already terminal is fine too.
KillHandled(k) ==
    /\ kill[k] = "issued" /\ Authorized(k)
    /\ kill' = [kill EXCEPT ![k] = "ok"] /\ Finally(k)
    /\ BoxTo(of[k], IF box[of[k]] = "running" THEN "reclaiming" ELSE box[of[k]])
    /\ UNCHANGED <<res, of, repl, host, agent, srvVars, lease>>

\* A deadline, or a control connection that is gone: SandboxKillError.
KillFails(k) ==
    /\ kill[k] = "issued" /\ ("timeout" \in Failures \/ host[k] # "open" \/ gate[k] = "closed")
    /\ kill' = [kill EXCEPT ![k] = "error"] /\ Finally(k)
    /\ UNCHANGED <<repl, host, agent>> /\ OnlyObject

-----------------------------------------------------------------------------
(* The core.                                                               *)

\* The duration's deadline.
LeaseExpires(b) ==
    /\ hostd = "serving" /\ box[b] = "running" /\ lease[b] = "duration"
    /\ BoxTo(b, "reclaiming")
    /\ UNCHANGED <<sdkVars, host, agent, srvVars, lease>>

\* gateway.kill: done, or failed and forgotten.
Reclaim(b) ==
    /\ box[b] = "reclaiming"
    /\ \/ BoxTo(b, "dead")
       \/ "kill" \in Failures /\ BoxTo(b, "stray")
    /\ UNCHANGED <<sdkVars, host, agent, srvVars, lease>>

\* The lease's end cuts the tunnels.
AgentGone(k) ==
    /\ agent[k] = "open" /\ box[of[k]] # "running"
    /\ AgentTo(k, "closed")
    /\ UNCHANGED <<sdkVars, host, srvVars, boxVars>>

-----------------------------------------------------------------------------
Server(k) == Served(k) \/ TransportClosed(k) \/ TransportBreaks(k) \/ CloseConnection(k)

Sdk(k) ==
    \/ Dial(k) \/ Handshake(k) \/ Create(k) \/ OpenTunnel(k) \/ AgentBootstrap(k)
    \/ Resolve(k) \/ ResolveFails(k) \/ EnvSet(k) \/ CallFails(k) \/ Undo(k)
    \/ OpenRepl(k) \/ Close(k) \/ CloseRepls(k) \/ Teardown(k)
    \/ Kill(k) \/ KillHandled(k) \/ KillFails(k)

Core(b) == Launched(b) \/ LaunchFails(b) \/ LeaseExpires(b) \/ Reclaim(b) \/ AgentGone(b)

\* A behaviour is followed until hostd has closed its server.
SessionNext ==
    /\ hostd # "closed"
    /\ \/ \E k \in Clients : Server(k) \/ Sdk(k) \/ Core(k)
       \/ Shutdown \/ AcceptLoopEnds \/ ServerClosed

SessionSpec == SessionInit /\ [][SessionNext]_sessionVars

\* Promises settle, deadlines lapse, sockets report their close.  A client
\* may sit on an open sandbox for ever.
SessionFairness ==
    /\ \A k \in Clients :
        /\ WF_sessionVars(hostd # "closed" /\ (Served(k) \/ TransportClosed(k)))
        /\ WF_sessionVars(hostd # "closed" /\ (Undo(k) \/ CloseRepls(k) \/ Teardown(k)))
        /\ WF_sessionVars(hostd # "closed" /\ (Launched(k) \/ LaunchFails(k) \/ Reclaim(k)))
    /\ WF_sessionVars(AcceptLoopEnds \/ ServerClosed \/ \E k \in Clients : CloseConnection(k))

FairSessionSpec == SessionSpec /\ SessionFairness

-----------------------------------------------------------------------------
(* Properties.                                                             *)

\* A session sandbox holds its lease only while its creator's connection is
\* up: a launch that ends after the client has gone does not keep it
\* (hostd/main.ts onTransportClose, leases.ts).
SessionBound ==
    \A k \in Clients : box[k] = "running" /\ lease[k] = "session" => k \notin aborted

\* A kill() that returns has ended the sandbox's lease, whoever else closed
\* or killed before (sandbox.ts kill).
KillReported ==
    \A k \in Clients : kill[k] = "ok" => box[of[k]] \notin {"launching", "running"}

\* When server.close() is over, no connection is served and no gate is open
\* (hostd/main.ts close).
NoConnectionOutlivesServer ==
    hostd = "closed" => \A k \in Clients : srv[k] \in {"none", "gone"}

\* Once the control connection of its creator is closed, by a failed
\* create(), a close(), a broken transport or hostd itself, a session sandbox
\* is reclaimed, its launch under way included.
SessionEnds ==
    \A k \in Creators :
        host[k] = "closed" /\ lease[k] = "session"
            ~> box[k] \in {"none", "dead", "stray"} \/ hostd # "serving"

\* close() ends, whatever has become of the agent and of its repls
\* (sandbox.ts #doTeardownConnection).
CloseEnds == \A k \in Clients : pc[k] \in Closing ~> pc[k] = "closed" \/ hostd = "closed"

\* What sandbox.ts says of kill(): it never reports a success it could not
\* confirm.  Does not hold: hostd answers before it asks rootd.
KillConfirmed == \A k \in Clients : kill[k] = "ok" => box[of[k]] \in {"dead", "revoked"}

\* What create() means to its caller: once it has thrown, nobody holds a
\* connection for it.  Does not hold when the agent's services cannot be
\* resolved.
RejectedCreateCloses == \A k \in Clients : pc[k] = "failed" => host[k] # "open" \/ res[k] = "ok"

\* Nothing is held for a connection that is gone: no session lease, and no
\* entry of a server that was closed (leases.ts, hostd/main.ts).
ConnectionBound == SessionTypeOK /\ SessionBound /\ NoConnectionOutlivesServer

============================================================================
