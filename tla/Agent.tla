-------------------------------- MODULE Agent --------------------------------
(***************************************************************************)
(* studioboxd, the agent inside the guest: the bootstrap gate of every     *)
(* connection, the one-shot personalization of a restored template, the    *)
(* connection-scoped resources (open files, uploads, repl sessions), the   *)
(* process registry, and the agent's shutdown.                             *)
(*                                                                         *)
(* An action is one segment of a handler between two awaits.  A call k     *)
(* opens at most one resource or process, which is then named by k.        *)
(* Deadlines may lapse at any moment; a peer may call, stall or vanish.    *)
(***************************************************************************)
EXTENDS Integers, FiniteSets

CONSTANTS Conns,
          Calls,        \* calls of open / beginUpload / openRepl / spawn
          Creds,        \* credentials that may be set or presented
          MaxFailures,  \* maxAuthenticationFailures
          Kinds,        \* what each call may open
          Seeds,        \* credentials a --token-file may hold
          Faults,
          None

AllKinds == {"file", "upload", "repl", "process"}
AgentFaults == {"nic", "open", "stuck", "setup"}

ASSUME AgentFailures == MaxFailures \in 1..16
ASSUME AgentKinds == Kinds \in [Calls -> SUBSET AllKinds]
ASSUME AgentSeeds == Seeds \subseteq Creds
ASSUME AgentFaultsAssumption == Faults \subseteq AgentFaults
ASSUME AgentNone == None \notin Conns \cup Calls \cup Creds

VARIABLES
    \* PersonalizationController.
    pstate, claimed, cred,
    nic,        \* personalize calls that await the guest NIC, by credential
    \* Connections.
    conn,       \* none | setup | open | closing | resources | dropped | closed
    gate, fails,
    timer,      \* connections whose handshake timer is armed
    authed,     \* history: the credential the connection authenticated with
    toClose,    \* resources closeResources() has still to close
    \* Calls and what they opened.
    kpc, kconn, kind,
    tracked,    \* ConnectionState.#resources
    partial,    \* uploads whose file is on disk and unfinished
    late,       \* history: opened after the sweep that should have found it
    \* Processes.
    proc,       \* none | live | dead | reaped
    live,       \* AgentProcesses.#live
    released,   \* history: dropped by Process.release
    sigkill,    \* a SIGKILL is on its way
    pend,       \* repl sessions with an unsettled request
    stuck,      \* repl sessions with a stdin write the driver does not read
    reading,    \* repl sessions whose read loop runs
    \* The agent process.
    agent,      \* serving | draining | killing | exited
    queue, cur  \* connections left for, and being torn down by, shutdown()

pVars == <<pstate, claimed, cred, nic>>
cVars == <<conn, gate, fails, timer, authed, toClose>>
kVars == <<kpc, kconn, kind, tracked, partial, late>>
procVars == <<proc, live, released, sigkill>>
replVars == <<pend, stuck, reading>>
aVars == <<agent, queue, cur>>
vars == <<pVars, cVars, kVars, procVars, replVars, aVars>>

GatePhases == {"connected", "negotiated", "authenticated", "closed"}
CallPcs == {"idle", "opening", "starting", "open", "stdin", "killed", "closed", "failed"}

\* Every variable holds a value of its declared kind; a call that has begun
\* names its connection, and nobody is authenticated without a credential.
TypeOK ==
    /\ pstate \in {"pending", "personalized"} /\ claimed \in BOOLEAN
    /\ cred \in Creds \cup {None}
    /\ nic \subseteq Creds
    /\ conn \in [Conns -> {"none", "setup", "open", "closing", "resources", "dropped", "closed"}]
    /\ gate \in [Conns -> GatePhases]
    /\ fails \in [Conns -> 0..MaxFailures]
    /\ timer \subseteq Conns
    /\ authed \in [Conns -> Creds \cup {None}]
    /\ toClose \in [Conns -> SUBSET Calls]
    /\ kpc \in [Calls -> CallPcs]
    /\ kconn \in [Calls -> Conns \cup {None}]
    /\ kind \in [Calls -> AllKinds \cup {None}]
    /\ tracked \subseteq Calls /\ partial \subseteq Calls /\ late \subseteq Calls
    /\ proc \in [Calls -> {"none", "live", "dead", "reaped"}]
    /\ live \subseteq Calls /\ released \subseteq Calls /\ sigkill \subseteq Calls
    /\ pend \subseteq Calls /\ stuck \subseteq Calls /\ reading \subseteq Calls
    /\ agent \in {"serving", "draining", "killing", "exited"}
    /\ queue \subseteq Conns /\ cur \in Conns \cup {None}
    /\ \A k \in Calls : kpc[k] # "idle" => kconn[k] \in Conns

\* A template boots pending and without a credential; the cold path reads
\* its credential from --token-file.
Init ==
    /\ \/ pstate = "pending" /\ cred = None
       \/ pstate = "personalized" /\ cred \in Seeds
    /\ claimed = FALSE
    /\ nic = {}
    /\ conn = [c \in Conns |-> "none"]
    /\ gate = [c \in Conns |-> "connected"]
    /\ fails = [c \in Conns |-> 0]
    /\ timer = {}
    /\ authed = [c \in Conns |-> None]
    /\ toClose = [c \in Conns |-> {}]
    /\ kpc = [k \in Calls |-> "idle"]
    /\ kconn = [k \in Calls |-> None]
    /\ kind = [k \in Calls |-> None]
    /\ tracked = {} /\ partial = {} /\ late = {}
    /\ proc = [k \in Calls |-> "none"]
    /\ live = {} /\ released = {} /\ sigkill = {}
    /\ pend = {} /\ stuck = {} /\ reading = {}
    /\ agent = "serving" /\ queue = {} /\ cur = None

-----------------------------------------------------------------------------
(* The bootstrap gate.  A request reaches a handler while its runtime is up.*)

GateTo(c, phase) == gate' = [gate EXCEPT ![c] = phase]
OnlyGate == UNCHANGED <<pVars, conn, timer, toClose, kVars, procVars, replVars, aVars>>

\* negotiate: acceptNegotiation, with the offer acceptable or not.
Negotiate(c) ==
    /\ conn[c] = "open" /\ gate[c] # "closed"
    /\ \/ gate[c] = "connected" /\ GateTo(c, "negotiated")
       \/ GateTo(c, "closed")
    /\ UNCHANGED <<fails, authed>> /\ OnlyGate

\* authenticate: refused without touching the gate while the sandbox is not
\* personalized; else recordAuthentication(credentialAccepted()).
Authenticate(c, x) ==
    /\ conn[c] = "open" /\ gate[c] # "closed" /\ pstate # "pending"
    /\ \/ /\ gate[c] # "negotiated"
          /\ GateTo(c, "closed") /\ UNCHANGED <<fails, authed>>
       \/ /\ gate[c] = "negotiated" /\ x = cred
          /\ GateTo(c, "authenticated")
          /\ authed' = [authed EXCEPT ![c] = x] /\ UNCHANGED fails
       \/ /\ gate[c] = "negotiated" /\ x # cred
          /\ fails' = [fails EXCEPT ![c] = @ + 1]
          /\ GateTo(c, IF fails[c] + 1 >= MaxFailures THEN "closed" ELSE "negotiated")
          /\ UNCHANGED authed
    /\ OnlyGate

\* agent, and every method of the services behind it: assertAuthorized.
Unauthorized(c) ==
    /\ conn[c] = "open" /\ pstate # "pending"
    /\ gate[c] \in {"connected", "negotiated"}
    /\ GateTo(c, "closed")
    /\ UNCHANGED <<fails, authed>> /\ OnlyGate

-----------------------------------------------------------------------------
(* personalize.                                                            *)

OnlyPersonalize == UNCHANGED <<cVars, kVars, procVars, replVars, aVars>>

\* Mutant: the #claimed latch dropped.
ClaimAgain == pstate = "pending"

Claimable == pstate = "pending" /\ ~claimed

\* The guard and the claim are synchronous; then #applyNetwork is awaited.
Personalize(c, x) ==
    /\ conn[c] = "open" /\ gate[c] = "negotiated"
    /\ Claimable
    /\ claimed' = TRUE /\ nic' = nic \cup {x}
    /\ UNCHANGED <<pstate, cred>> /\ OnlyPersonalize

NicApplied(x) ==
    /\ x \in nic
    /\ cred' = x /\ pstate' = "personalized"
    /\ nic' = nic \ {x}
    /\ UNCHANGED claimed /\ OnlyPersonalize

\* The sandbox stays pending and a later personalize may try again.
NicFails(x) ==
    /\ x \in nic /\ "nic" \in Faults
    /\ claimed' = FALSE /\ nic' = nic \ {x}
    /\ UNCHANGED <<pstate, cred>> /\ OnlyPersonalize

-----------------------------------------------------------------------------
(* Connections.                                                            *)

ConnTo(c, st) == conn' = [conn EXCEPT ![c] = st]
Active == {c \in Conns : conn[c] \in {"setup", "open"}}

\* serveWireConnection: the entry joins `active`, the deadline is armed and
\* the session runtime is being created.
Accept(c) ==
    /\ agent = "serving" /\ conn[c] = "none"
    /\ ConnTo(c, "setup") /\ timer' = timer \cup {c}
    /\ UNCHANGED <<pVars, gate, fails, authed, toClose, kVars, procVars, replVars, aVars>>

\* serveAgentWireTransport returns: to a live entry, or to one torn down
\* meanwhile, whose session is then closed at once.
Serve(c) ==
    /\ \/ conn[c] = "setup" /\ ConnTo(c, "open") /\ UNCHANGED gate
       \/ conn[c] = "dropped" /\ ConnTo(c, "closed") /\ GateTo(c, "closed")
    /\ UNCHANGED <<pVars, fails, timer, authed, toClose, kVars, procVars, replVars, aVars>>

SetupFails(c) ==
    /\ "setup" \in Faults /\ conn[c] \in {"setup", "dropped"}
    /\ ConnTo(c, "closed") /\ timer' = timer \ {c}
    /\ UNCHANGED <<pVars, gate, fails, authed, toClose, kVars, procVars, replVars, aVars>>

\* entry.teardown(): once per connection.  Without a server there is only
\* the transport to close; with one, runtime.close() is awaited.
TearDown(c) ==
    /\ c \in Active
    /\ ConnTo(c, IF conn[c] = "open" THEN "closing" ELSE "dropped")
    /\ timer' = timer \ {c}
    /\ UNCHANGED <<gate, fails, authed, toClose>>

\* The peer's EOF, a broken frame, or a transport fault.
PeerGone(c) ==
    /\ TearDown(c)
    /\ UNCHANGED <<pVars, kVars, procVars, replVars, aVars>>

\* Mutant: the deadline only looks at connections that have negotiated.
HandshakeExpiresNegotiated(c) ==
    /\ c \in timer /\ timer' = timer \ {c}
    /\ IF gate[c] = "negotiated" /\ c \in Active THEN TearDown(c)
       ELSE UNCHANGED <<conn, gate, fails, authed, toClose>>
    /\ UNCHANGED <<pVars, kVars, procVars, replVars, aVars>>

\* The handshake deadline.
HandshakeExpires(c) ==
    /\ c \in timer
    /\ \/ gate[c] # "authenticated" /\ TearDown(c)
       \/ gate[c] = "authenticated" /\ timer' = timer \ {c}
          /\ UNCHANGED <<conn, gate, fails, authed, toClose>>
    /\ UNCHANGED <<pVars, kVars, procVars, replVars, aVars>>

OfConn(c) == {k \in Calls : kconn[k] = c}

\* AgentWireConnection.close(): the gate, then a snapshot of the resources.
RuntimeClosed(c) ==
    /\ conn[c] = "closing"
    /\ ConnTo(c, "resources") /\ GateTo(c, "closed")
    /\ toClose' = [toClose EXCEPT ![c] = tracked \cap OfConn(c)]
    /\ tracked' = tracked \ OfConn(c)
    /\ UNCHANGED <<pVars, fails, timer, authed, kpc, kconn, kind, partial, late,
                   procVars, replVars, aVars>>

CallTo(k, pc) == kpc' = [kpc EXCEPT ![k] = pc]

\* AgentReplSession.close() up to its first await: pending requests fail.
SessionClose(k) == CallTo(k, "stdin") /\ pend' = pend \ {k}

\* Mutant: the file is closed and stays.
CloseOnly(k) == CallTo(k, "closed") /\ UNCHANGED partial

\* UploadWire.#discard: the file is closed and removed.
Discard(k) == CallTo(k, "closed") /\ partial' = partial \ {k}

\* closeResources(): one resource after the other.
CloseNext(c) ==
    /\ conn[c] = "resources"
    /\ \A k \in toClose[c] : kpc[k] = "open"
    /\ \E k \in toClose[c] :
        \/ /\ kind[k] = "repl" /\ SessionClose(k)
           /\ UNCHANGED <<toClose, partial>>
        \/ /\ kind[k] # "repl" /\ Discard(k)
           /\ toClose' = [toClose EXCEPT ![c] = @ \ {k}]
           /\ UNCHANGED pend
    /\ UNCHANGED <<pVars, conn, gate, fails, timer, authed, kconn, kind, tracked, late,
                   procVars, stuck, reading, aVars>>

TornDown(c) ==
    /\ conn[c] = "resources" /\ toClose[c] = {}
    /\ ConnTo(c, "closed")
    /\ UNCHANGED <<pVars, gate, fails, timer, authed, toClose, kVars, procVars, replVars, aVars>>

-----------------------------------------------------------------------------
(* Files, uploads, processes and repl sessions.                            *)

OnlyCalls == UNCHANGED <<pVars, cVars, aVars>>

\* open / beginUpload / beginDownload / openRepl / spawn / run.
Open(k, c, kd) ==
    /\ kpc[k] = "idle" /\ conn[c] = "open" /\ gate[c] = "authenticated"
    /\ CallTo(k, "opening")
    /\ kconn' = [kconn EXCEPT ![k] = c] /\ kind' = [kind EXCEPT ![k] = kd]
    /\ UNCHANGED <<tracked, partial, late, procVars, replVars>> /\ OnlyCalls

OpenFails(k) ==
    /\ kpc[k] = "opening" /\ "open" \in Faults
    /\ CallTo(k, "failed")
    /\ UNCHANGED <<kconn, kind, tracked, partial, late, procVars, replVars>> /\ OnlyCalls

\* A resource enters the connection's set, whether or not the connection's
\* teardown has already taken its snapshot.
Track(k) ==
    /\ CallTo(k, "open")
    /\ tracked' = tracked \cup {k}
    /\ late' = IF conn[kconn[k]] \in {"open", "closing"} THEN late ELSE late \cup {k}

\* fs.open returns: new RemoteFileWire / ByteReaderWire / UploadWire.
Opened(k) ==
    /\ kpc[k] = "opening" /\ kind[k] \in {"file", "upload"}
    /\ Track(k)
    /\ partial' = IF kind[k] = "upload" THEN partial \cup {k} ELSE partial
    /\ UNCHANGED <<kconn, kind, procVars, replVars>> /\ OnlyCalls

\* RemoteFile.close, ByteReader.cancel or its end; Upload.finish (the file
\* stays) or a finish that does not match, or Upload.abort (it goes).
CloseFile(k) ==
    /\ kpc[k] = "open" /\ k \in tracked /\ kind[k] # "repl" /\ conn[kconn[k]] = "open"
    /\ Discard(k) /\ tracked' = tracked \ {k}
    /\ UNCHANGED <<kconn, kind, late, procVars, replVars>> /\ OnlyCalls

\* AgentProcesses.spawn: the child runs and is registered.  A repl still
\* waits for its driver's ready frame.
Spawned(k) ==
    /\ kpc[k] = "opening" /\ kind[k] \in {"process", "repl"}
    /\ proc' = [proc EXCEPT ![k] = "live"] /\ live' = live \cup {k}
    /\ late' = IF agent = "killing" THEN late \cup {k} ELSE late
    /\ IF kind[k] = "repl"
       THEN CallTo(k, "starting") /\ reading' = reading \cup {k}
       ELSE CallTo(k, "open") /\ UNCHANGED reading
    /\ UNCHANGED <<kconn, kind, tracked, partial, released, sigkill, pend, stuck>> /\ OnlyCalls

\* The ready frame: new ReplWire.
ReplReady(k) ==
    /\ kpc[k] = "starting" /\ proc[k] = "live"
    /\ Track(k)
    /\ UNCHANGED <<kconn, kind, partial, procVars, replVars>> /\ OnlyCalls

\* DenoRepl.eval: the request is pending, its frame written to the driver.
\* A driver that is busy with an earlier request does not read it.  On a dead
\* driver the write fails and the request is rejected at once.
Eval(k) ==
    /\ kpc[k] = "open" /\ kind[k] = "repl" /\ conn[kconn[k]] = "open"
    /\ proc[k] = "live"
    /\ pend' = pend \cup {k}
    /\ stuck' = IF "stuck" \in Faults /\ k \in pend THEN stuck \cup {k} ELSE stuck
    /\ UNCHANGED <<kVars, procVars, reading>> /\ OnlyCalls

\* The driver answers, and reads on.
Answered(k) ==
    /\ k \in pend /\ proc[k] = "live"
    /\ pend' = pend \ {k} /\ stuck' = stuck \ {k}
    /\ UNCHANGED <<kVars, procVars, reading>> /\ OnlyCalls

Dead(k) == proc[k] \in {"dead", "reaped"}

\* #readLoop ends with the driver's stdout: everything pending fails.  An
\* openRepl still waiting for ready closes the session.
ReadLoopEnds(k) ==
    /\ k \in reading /\ Dead(k)
    /\ reading' = reading \ {k} /\ pend' = pend \ {k}
    /\ IF kpc[k] = "starting" THEN CallTo(k, "stdin") ELSE UNCHANGED kpc
    /\ UNCHANGED <<kconn, kind, tracked, partial, late, procVars, stuck>> /\ OnlyCalls

\* DenoRepl.close.
ReplClose(k) ==
    /\ kpc[k] = "open" /\ kind[k] = "repl" /\ k \in tracked /\ conn[kconn[k]] = "open"
    /\ SessionClose(k) /\ tracked' = tracked \ {k}
    /\ UNCHANGED <<kconn, kind, partial, late, procVars, stuck, reading>> /\ OnlyCalls

\* Mutant: close() waits for the exit without the SIGKILL.
StdinClosedOnly(k) ==
    /\ kpc[k] = "stdin" /\ CallTo(k, "killed")
    /\ UNCHANGED <<kconn, kind, tracked, partial, late, procVars, replVars>> /\ OnlyCalls

\* closeStdin waits until every queued write is through; then SIGKILL.
StdinClosed(k) ==
    /\ kpc[k] = "stdin" /\ (k \notin stuck \/ Dead(k))
    /\ CallTo(k, "killed") /\ sigkill' = sigkill \cup {k}
    /\ UNCHANGED <<kconn, kind, tracked, partial, late, proc, live, released, replVars>> /\ OnlyCalls

\* close() has awaited the exit status and the read loop.
ReplClosed(k) ==
    /\ kpc[k] = "killed" /\ proc[k] = "reaped" /\ k \notin reading
    /\ CallTo(k, "closed")
    /\ toClose' = [c \in Conns |-> toClose[c] \ {k}]
    /\ UNCHANGED <<pVars, conn, gate, fails, timer, authed, kconn, kind, tracked, partial, late,
                   procVars, replVars, aVars>>

\* Process.release: the registry forgets the process, which runs on.
Release(k) ==
    /\ kind[k] = "process" /\ k \in live /\ conn[kconn[k]] = "open"
    /\ live' = live \ {k} /\ released' = released \cup {k}
    /\ UNCHANGED <<kVars, proc, sigkill, replVars>> /\ OnlyCalls

-----------------------------------------------------------------------------
(* Deaths.                                                                 *)

OnlyDeath == UNCHANGED <<pVars, cVars, kVars, released, replVars, aVars>>

\* By itself, by the kernel's OOM killer, by Process.signal, or by a SIGKILL
\* of the agent.
Dies(k) ==
    /\ proc[k] = "live"
    /\ proc' = [proc EXCEPT ![k] = "dead"]
    /\ UNCHANGED <<live, sigkill>> /\ OnlyDeath

KillLands(k) == k \in sigkill /\ Dies(k)

\* The status promise settles and the process unregisters.
Reap(k) ==
    /\ proc[k] = "dead"
    /\ proc' = [proc EXCEPT ![k] = "reaped"] /\ live' = live \ {k}
    /\ UNCHANGED sigkill /\ OnlyDeath

-----------------------------------------------------------------------------
(* shutdown().                                                             *)

OnlyAgent == UNCHANGED <<pVars, kVars, replVars>>

\* SIGTERM or SIGINT: the listener closes, the active set is copied.
Shutdown ==
    /\ agent = "serving"
    /\ agent' = "draining" /\ queue' = Active
    /\ UNCHANGED <<cur, cVars, procVars>> /\ OnlyAgent

\* await entry.teardown(), which returns at once for an entry whose
\* teardown somebody else has begun.
DrainNext(c) ==
    /\ agent = "draining" /\ cur = None /\ c \in queue
    /\ queue' = queue \ {c}
    /\ \/ TearDown(c) /\ cur' = c
       \/ c \notin Active /\ UNCHANGED <<cVars, cur>>
    /\ UNCHANGED <<agent, procVars>> /\ OnlyAgent

DrainedOne ==
    /\ cur # None /\ conn[cur] \in {"dropped", "closed"}
    /\ cur' = None
    /\ UNCHANGED <<agent, queue, cVars, procVars>> /\ OnlyAgent

\* processes.shutdown(): SIGKILL to every registered process.
Sweep ==
    /\ agent = "draining" /\ queue = {} /\ cur = None
    /\ agent' = "killing"
    /\ sigkill' = sigkill \cup live /\ live' = {}
    /\ UNCHANGED <<queue, cur, cVars, proc, released>> /\ OnlyAgent

\* Promise.all over the exits, then Deno.exit.
Exit ==
    /\ agent = "killing"
    /\ \A k \in sigkill : proc[k] = "reaped"
    /\ agent' = "exited"
    /\ UNCHANGED <<queue, cur, cVars, procVars>> /\ OnlyAgent

-----------------------------------------------------------------------------
ConnStep(c) ==
    \/ Negotiate(c) \/ Unauthorized(c)
    \/ \E x \in Creds : Authenticate(c, x) \/ Personalize(c, x)
    \/ Accept(c) \/ Serve(c) \/ SetupFails(c) \/ PeerGone(c) \/ HandshakeExpires(c)
    \/ RuntimeClosed(c) \/ CloseNext(c) \/ TornDown(c)
    \/ \E k \in Calls : \E kd \in Kinds[k] : Open(k, c, kd)
    \/ DrainNext(c)

CallStep(k) ==
    \/ OpenFails(k) \/ Opened(k) \/ CloseFile(k) \/ Spawned(k)
    \/ ReplReady(k) \/ Eval(k) \/ Answered(k) \/ ReadLoopEnds(k)
    \/ ReplClose(k) \/ StdinClosed(k) \/ ReplClosed(k)
    \/ Release(k) \/ Dies(k) \/ Reap(k)

Next ==
    /\ agent # "exited"
    /\ \/ \E c \in Conns : ConnStep(c)
       \/ \E x \in Creds : NicApplied(x) \/ NicFails(x)
       \/ \E k \in Calls : CallStep(k)
       \/ Shutdown \/ DrainedOne \/ Sweep \/ Exit

Spec == Init /\ [][Next]_vars

\* Promises settle, timers fire and the kernel delivers; nothing is assumed
\* of the peer, of the evaluated code or of a process that just runs.
Fairness ==
    /\ \A c \in Conns :
        /\ WF_vars(agent # "exited" /\ Serve(c))
        /\ WF_vars(agent # "exited" /\ HandshakeExpires(c))
        /\ WF_vars(agent # "exited" /\ RuntimeClosed(c))
        /\ WF_vars(agent # "exited" /\ (CloseNext(c) \/ TornDown(c)))
        /\ WF_vars(agent # "exited" /\ DrainNext(c))
    /\ \A k \in Calls :
        /\ WF_vars(agent # "exited" /\ ReadLoopEnds(k))
        /\ WF_vars(agent # "exited" /\ (StdinClosed(k) \/ ReplClosed(k)))
        /\ WF_vars(agent # "exited" /\ KillLands(k))
        /\ WF_vars(agent # "exited" /\ Reap(k))
    /\ WF_vars(DrainedOne \/ Sweep \/ Exit)

FairSpec == Spec /\ Fairness

-----------------------------------------------------------------------------
(* Properties.                                                             *)

\* Whoever is authenticated, and whoever was handed a service that opened
\* something, presented the credential the sandbox has now
\* (service.ts authenticate, personalize.ts personalize).
AuthenticatedByCurrent ==
    \A c \in Conns :
        gate[c] = "authenticated" \/ OfConn(c) # {} =>
            pstate = "personalized" /\ cred # None /\ authed[c] = cred

\* A connection whose teardown has ended holds no file, upload or repl
\* session but those whose open was in flight when closeResources() took its
\* snapshot, and no unfinished upload is left on disk.
TeardownReleases ==
    \A k \in Calls :
        /\ kpc[k] # "idle" /\ conn[kconn[k]] = "closed"
        /\ kind[k] # "process" /\ (kpc[k] = "open" \/ k \in partial)
        => k \in late

\* What service.ts says of close(): it closes every connection-scoped
\* resource.  Does not hold for an open still in flight.
TeardownReleasesAll ==
    \A k \in Calls :
        ~ /\ kpc[k] = "open" /\ conn[kconn[k]] = "closed" /\ kind[k] # "process"

\* After the agent's exit no process runs but the released ones and those
\* spawned behind the sweep of processes.shutdown().
ExitKillsProcesses ==
    agent = "exited" => \A k \in Calls : Dead(k) \/ proc[k] = "none" \/ k \in released \cup late

\* A peer that stalls before it authenticates loses its connection
\* (main.ts handshakeTimer).
StalledHandshakeEnds ==
    \A c \in Conns :
        c \in timer ~> \/ gate[c] = "authenticated"
                       \/ conn[c] \in {"dropped", "closed"}
                       \/ agent = "exited"

\* A request pending when its repl driver dies is settled
\* (deno_runtime.ts #readLoop).
DeadReplSettles ==
    \A k \in Calls : k \in pend /\ Dead(k) ~> k \notin pend \/ agent = "exited"

\* A signalled agent exits: no teardown and no child keeps it
\* (main.ts shutdown).
ShutdownEnds == agent = "draining" ~> agent = "exited"

\* Nothing a connection opened outlives its teardown, and no process the
\* agent's exit, opens in flight apart (service.ts closeResources, processes.ts
\* shutdown).
NothingOutlives == TypeOK /\ TeardownReleases /\ ExitKillsProcesses

\* Neither a peer that stalls nor a repl driver that dies keeps anybody waiting
\* (main.ts handshakeTimer, deno_runtime.ts #readLoop).
PendingEnds == StalledHandshakeEnds /\ DeadReplSettles

=============================================================================
