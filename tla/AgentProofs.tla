----------------------------- MODULE AgentProofs -----------------------------
(***************************************************************************)
(* Theorems about Agent, for any number of connections, of calls and of    *)
(* credentials.                                                            *)
(***************************************************************************)
EXTENDS Agent, TLAPS

USE AgentFailures, AgentKinds, AgentSeeds, AgentNone

(***************************************************************************)
(* The inductive invariant.                                                *)
(***************************************************************************)
\* A gate that may still count a failure has one left.
GateBound ==
    \A c \in Conns : gate[c] \in {"connected", "negotiated"} => fails[c] < MaxFailures

\* The claim of personalize: at most one credential is on its way to the
\* guest, none once the sandbox is personalized.
OneClaim ==
    /\ nic # {} => claimed /\ pstate = "pending"
    /\ \A x, y \in nic : x = y
    /\ pstate = "personalized" => cred \in Creds

\* A call that has begun belongs to a connection that was opened, and a
\* resource is in the connection's set, or in the snapshot of its teardown.
Resources ==
    /\ \A k \in Calls : kpc[k] # "idle" =>
           conn[kconn[k]] \in {"open", "closing", "resources", "closed"}
    /\ \A k \in Calls : kpc[k] = "starting" => kind[k] = "repl"
    /\ \A k \in partial : kpc[k] = "open" /\ kind[k] = "upload"
    /\ \A k \in tracked : kpc[k] = "open" /\ kind[k] # "process"
    /\ \A c \in Conns : \A k \in toClose[c] :
           /\ kpc[k] \notin {"idle", "opening", "starting"} /\ k \notin tracked
           /\ kconn[k] = c
    /\ \A k \in Calls : kpc[k] = "open" /\ kind[k] # "process" /\ k \notin late =>
           \/ k \in tracked /\ conn[kconn[k]] \in {"open", "closing"}
           \/ k \in toClose[kconn[k]] /\ conn[kconn[k]] = "resources"

\* A running process is in the registry until the sweep of shutdown, which
\* has signalled it.
Registered ==
    /\ \A k \in Calls : proc[k] = "live" /\ k \notin released \cup late =>
           IF agent \in {"serving", "draining"} THEN k \in live ELSE k \in sigkill
    /\ ExitKillsProcesses

IInv == TypeOK /\ GateBound /\ OneClaim /\ AuthenticatedByCurrent /\ Resources /\ Registered

\* The first state satisfies the inductive invariant.
LEMMA InvInit == Init => IInv
  <1> SUFFICES ASSUME Init PROVE IInv
    OBVIOUS
  <1>1. TypeOK
    <2>1. /\ pstate \in {"pending", "personalized"} /\ cred \in Creds \cup {None}
          /\ fails \in [Conns -> 0..MaxFailures]
      BY DEF Init
    <2> QED
      BY <2>1 DEF Init, TypeOK, GatePhases, CallPcs
  <1>2. GateBound /\ OneClaim
    BY DEF Init, GateBound, OneClaim
  <1>3. AuthenticatedByCurrent
    BY DEF Init, AuthenticatedByCurrent, OfConn
  <1>4. Resources /\ Registered
    BY DEF Init, Resources, Registered, ExitKillsProcesses
  <1> QED
    BY <1>1, <1>2, <1>3, <1>4 DEF IInv

\* Every step keeps the types; a gate closes with its last failure.
LEMMA TypeStep == TypeOK /\ GateBound /\ [Next]_vars => TypeOK' /\ GateBound'
  <1> SUFFICES ASSUME TypeOK, GateBound, [Next]_vars
               PROVE  TypeOK' /\ GateBound'
    OBVIOUS
  <1> DEFINE Goal == TypeOK' /\ GateBound'
  <1> USE DEF TypeOK, GateBound, GatePhases, CallPcs, AllKinds
  <1>1. ASSUME NEW c \in Conns, Negotiate(c)
       PROVE  Goal
    BY <1>1 DEF Negotiate, GateTo, OnlyGate, pVars, kVars, procVars, replVars, aVars
  <1>2. ASSUME NEW c \in Conns, Unauthorized(c)
       PROVE  Goal
    BY <1>2 DEF Unauthorized, GateTo, OnlyGate, pVars, kVars, procVars, replVars, aVars
  <1>3. ASSUME NEW c \in Conns, Accept(c)
       PROVE  Goal
    BY <1>3 DEF Accept, ConnTo, pVars, kVars, procVars, replVars, aVars
  <1>4. ASSUME NEW c \in Conns, Serve(c)
       PROVE  Goal
    BY <1>4 DEF Serve, ConnTo, GateTo, pVars, kVars, procVars, replVars, aVars
  <1>5. ASSUME NEW c \in Conns, SetupFails(c)
       PROVE  Goal
    BY <1>5 DEF SetupFails, ConnTo, pVars, kVars, procVars, replVars, aVars
  <1>6. ASSUME NEW c \in Conns, PeerGone(c)
       PROVE  Goal
    BY <1>6 DEF PeerGone, TearDown, pVars, kVars, procVars, replVars, aVars, Active, ConnTo
  <1>7. ASSUME NEW c \in Conns, HandshakeExpires(c)
       PROVE  Goal
    BY <1>7 DEF HandshakeExpires, TearDown, pVars, kVars, procVars, replVars, aVars, Active,
        ConnTo
  <1>8. ASSUME NEW c \in Conns, RuntimeClosed(c)
       PROVE  Goal
    BY <1>8 DEF RuntimeClosed, ConnTo, GateTo, OfConn, pVars, procVars, replVars, aVars
  <1>9. ASSUME NEW c \in Conns, CloseNext(c)
       PROVE  Goal
    BY <1>9 DEF CloseNext, SessionClose, Discard, pVars, procVars, aVars, CallTo
  <1>10. ASSUME NEW c \in Conns, TornDown(c)
       PROVE  Goal
    BY <1>10 DEF TornDown, ConnTo, pVars, kVars, procVars, replVars, aVars
  <1>11. ASSUME NEW c \in Conns, DrainNext(c)
       PROVE  Goal
    BY <1>11 DEF DrainNext, TearDown, Active, cVars, procVars, OnlyAgent, ConnTo, pVars,
        kVars, replVars
  <1>12. ASSUME NEW c \in Conns, NEW x \in Creds, Authenticate(c, x)
       PROVE  Goal
    BY <1>12 DEF Authenticate, GateTo, OnlyGate, pVars, kVars, procVars, replVars, aVars
  <1>13. ASSUME NEW c \in Conns, NEW x \in Creds, Personalize(c, x)
       PROVE  Goal
    BY <1>13 DEF Personalize, Claimable, OnlyPersonalize, cVars, kVars, procVars, replVars,
        aVars
  <1>14. ASSUME NEW k \in Calls, NEW c \in Conns, NEW kd \in Kinds[k], Open(k, c, kd)
       PROVE  Goal
    BY <1>14 DEF Open, CallTo, procVars, replVars, OnlyCalls, pVars, cVars, aVars
  <1>15. ASSUME NEW x \in Creds, NicApplied(x)
       PROVE  Goal
    BY <1>15 DEF NicApplied, OnlyPersonalize, cVars, kVars, procVars, replVars, aVars
  <1>16. ASSUME NEW x \in Creds, NicFails(x)
       PROVE  Goal
    BY <1>16 DEF NicFails, OnlyPersonalize, cVars, kVars, procVars, replVars, aVars
  <1>17. ASSUME NEW k \in Calls, OpenFails(k)
       PROVE  Goal
    BY <1>17 DEF OpenFails, CallTo, procVars, replVars, OnlyCalls, pVars, cVars, aVars
  <1>18. ASSUME NEW k \in Calls, Opened(k)
       PROVE  Goal
    BY <1>18 DEF Opened, Track, procVars, replVars, OnlyCalls, CallTo, pVars, cVars, aVars
  <1>19. ASSUME NEW k \in Calls, CloseFile(k)
       PROVE  Goal
    BY <1>19 DEF CloseFile, Discard, procVars, replVars, OnlyCalls, CallTo, pVars, cVars,
        aVars
  <1>20. ASSUME NEW k \in Calls, Spawned(k)
       PROVE  Goal
    BY <1>20 DEF Spawned, CallTo, OnlyCalls, pVars, cVars, aVars
  <1>21. ASSUME NEW k \in Calls, ReplReady(k)
       PROVE  Goal
    BY <1>21 DEF ReplReady, Track, procVars, replVars, OnlyCalls, CallTo, pVars, cVars,
        aVars
  <1>22. ASSUME NEW k \in Calls, Eval(k)
       PROVE  Goal
    BY <1>22 DEF Eval, kVars, procVars, OnlyCalls, pVars, cVars, aVars
  <1>23. ASSUME NEW k \in Calls, Answered(k)
       PROVE  Goal
    BY <1>23 DEF Answered, kVars, procVars, OnlyCalls, pVars, cVars, aVars
  <1>24. ASSUME NEW k \in Calls, ReadLoopEnds(k)
       PROVE  Goal
    BY <1>24 DEF ReadLoopEnds, Dead, CallTo, procVars, OnlyCalls, pVars, cVars, aVars
  <1>25. ASSUME NEW k \in Calls, ReplClose(k)
       PROVE  Goal
    BY <1>25 DEF ReplClose, SessionClose, procVars, OnlyCalls, CallTo, pVars, cVars, aVars
  <1>26. ASSUME NEW k \in Calls, StdinClosed(k)
       PROVE  Goal
    BY <1>26 DEF StdinClosed, Dead, CallTo, replVars, OnlyCalls, pVars, cVars, aVars
  <1>27. ASSUME NEW k \in Calls, ReplClosed(k)
       PROVE  Goal
    BY <1>27 DEF ReplClosed, CallTo, pVars, procVars, replVars, aVars
  <1>28. ASSUME NEW k \in Calls, Release(k)
       PROVE  Goal
    BY <1>28 DEF Release, kVars, replVars, OnlyCalls, pVars, cVars, aVars
  <1>29. ASSUME NEW k \in Calls, Dies(k)
       PROVE  Goal
    BY <1>29 DEF Dies, OnlyDeath, pVars, cVars, kVars, replVars, aVars
  <1>30. ASSUME NEW k \in Calls, Reap(k)
       PROVE  Goal
    BY <1>30 DEF Reap, OnlyDeath, pVars, cVars, kVars, replVars, aVars
  <1>31. CASE Shutdown
    BY <1>31 DEF Shutdown, Active, cVars, procVars, OnlyAgent, pVars, kVars, replVars
  <1>32. CASE DrainedOne
    BY <1>32 DEF DrainedOne, cVars, procVars, OnlyAgent, pVars, kVars, replVars
  <1>33. CASE Sweep
    BY <1>33 DEF Sweep, cVars, OnlyAgent, pVars, kVars, replVars
  <1>34. CASE Exit
    BY <1>34 DEF Exit, cVars, procVars, OnlyAgent, pVars, kVars, replVars
  <1>35. CASE UNCHANGED vars
    BY <1>35 DEF vars, pVars, cVars, kVars, procVars, replVars, aVars
  <1> QED
    BY <1>1, <1>2, <1>3, <1>4, <1>5, <1>6, <1>7, <1>8, <1>9, <1>10, <1>11, <1>12, <1>13,
       <1>14, <1>15, <1>16, <1>17, <1>18, <1>19, <1>20, <1>21, <1>22, <1>23, <1>24, <1>25,
       <1>26, <1>27, <1>28, <1>29, <1>30, <1>31, <1>32, <1>33, <1>34, <1>35
    DEF Next, ConnStep, CallStep

\* Whoever is let in has presented the credential that the sandbox keeps.
LEMMA AuthStep ==
    TypeOK /\ OneClaim /\ AuthenticatedByCurrent /\ [Next]_vars
        => OneClaim' /\ AuthenticatedByCurrent'
  <1> SUFFICES ASSUME TypeOK, OneClaim, AuthenticatedByCurrent, [Next]_vars
               PROVE  OneClaim' /\ AuthenticatedByCurrent'
    OBVIOUS
  <1> DEFINE Goal == OneClaim' /\ AuthenticatedByCurrent'
  <1> /\ pstate \in {"pending", "personalized"} /\ claimed \in BOOLEAN
      /\ cred \in Creds \cup {None} /\ nic \subseteq Creds
      /\ gate \in [Conns -> GatePhases] /\ authed \in [Conns -> Creds \cup {None}]
      /\ kconn \in [Calls -> Conns \cup {None}]
    BY DEF TypeOK
  <1> USE DEF OneClaim, AuthenticatedByCurrent, OfConn
  <1>1. ASSUME NEW c \in Conns, Negotiate(c)
       PROVE  Goal
    BY <1>1 DEF Negotiate, GateTo, OnlyGate, pVars, kVars, procVars, replVars, aVars
  <1>2. ASSUME NEW c \in Conns, Unauthorized(c)
       PROVE  Goal
    BY <1>2 DEF Unauthorized, GateTo, OnlyGate, pVars, kVars, procVars, replVars, aVars
  <1>3. ASSUME NEW c \in Conns, Accept(c)
       PROVE  Goal
    BY <1>3 DEF Accept, ConnTo, pVars, kVars, procVars, replVars, aVars
  <1>4. ASSUME NEW c \in Conns, Serve(c)
       PROVE  Goal
    BY <1>4 DEF Serve, ConnTo, GateTo, pVars, kVars, procVars, replVars, aVars
  <1>5. ASSUME NEW c \in Conns, SetupFails(c)
       PROVE  Goal
    BY <1>5 DEF SetupFails, ConnTo, pVars, kVars, procVars, replVars, aVars
  <1>6. ASSUME NEW c \in Conns, PeerGone(c)
       PROVE  Goal
    BY <1>6 DEF PeerGone, TearDown, pVars, kVars, procVars, replVars, aVars, Active, ConnTo
  <1>7. ASSUME NEW c \in Conns, HandshakeExpires(c)
       PROVE  Goal
    BY <1>7 DEF HandshakeExpires, TearDown, pVars, kVars, procVars, replVars, aVars, Active,
        ConnTo
  <1>8. ASSUME NEW c \in Conns, RuntimeClosed(c)
       PROVE  Goal
    BY <1>8 DEF RuntimeClosed, ConnTo, GateTo, pVars, procVars, replVars, aVars
  <1>9. ASSUME NEW c \in Conns, CloseNext(c)
       PROVE  Goal
    BY <1>9 DEF CloseNext, SessionClose, Discard, pVars, procVars, aVars, CallTo
  <1>10. ASSUME NEW c \in Conns, TornDown(c)
       PROVE  Goal
    BY <1>10 DEF TornDown, ConnTo, pVars, kVars, procVars, replVars, aVars
  <1>11. ASSUME NEW c \in Conns, DrainNext(c)
       PROVE  Goal
    BY <1>11 DEF DrainNext, TearDown, Active, cVars, procVars, OnlyAgent, ConnTo, pVars,
        kVars, replVars
  <1>12. ASSUME NEW c \in Conns, NEW x \in Creds, Authenticate(c, x)
       PROVE  Goal
    BY <1>12 DEF Authenticate, GateTo, OnlyGate, pVars, kVars, procVars, replVars, aVars
  <1>13. ASSUME NEW c \in Conns, NEW x \in Creds, Personalize(c, x)
       PROVE  Goal
    BY <1>13 DEF Personalize, Claimable, OnlyPersonalize, cVars, kVars, procVars, replVars,
        aVars
  <1>14. ASSUME NEW k \in Calls, NEW c \in Conns, NEW kd \in Kinds[k], Open(k, c, kd)
       PROVE  Goal
    BY <1>14 DEF Open, CallTo, procVars, replVars, OnlyCalls, pVars, cVars, aVars
  <1>15. ASSUME NEW x \in Creds, NicApplied(x)
       PROVE  Goal
    BY <1>15 DEF NicApplied, OnlyPersonalize, cVars, kVars, procVars, replVars, aVars
  <1>16. ASSUME NEW x \in Creds, NicFails(x)
       PROVE  Goal
    BY <1>16 DEF NicFails, OnlyPersonalize, cVars, kVars, procVars, replVars, aVars
  <1>17. ASSUME NEW k \in Calls, OpenFails(k)
       PROVE  Goal
    BY <1>17 DEF OpenFails, CallTo, procVars, replVars, OnlyCalls, pVars, cVars, aVars
  <1>18. ASSUME NEW k \in Calls, Opened(k)
       PROVE  Goal
    BY <1>18 DEF Opened, Track, procVars, replVars, OnlyCalls, CallTo, pVars, cVars, aVars
  <1>19. ASSUME NEW k \in Calls, CloseFile(k)
       PROVE  Goal
    BY <1>19 DEF CloseFile, Discard, procVars, replVars, OnlyCalls, CallTo, pVars, cVars,
        aVars
  <1>20. ASSUME NEW k \in Calls, Spawned(k)
       PROVE  Goal
    BY <1>20 DEF Spawned, CallTo, OnlyCalls, pVars, cVars, aVars
  <1>21. ASSUME NEW k \in Calls, ReplReady(k)
       PROVE  Goal
    BY <1>21 DEF ReplReady, Track, procVars, replVars, OnlyCalls, CallTo, pVars, cVars,
        aVars
  <1>22. ASSUME NEW k \in Calls, Eval(k)
       PROVE  Goal
    BY <1>22 DEF Eval, kVars, procVars, OnlyCalls, pVars, cVars, aVars
  <1>23. ASSUME NEW k \in Calls, Answered(k)
       PROVE  Goal
    BY <1>23 DEF Answered, kVars, procVars, OnlyCalls, pVars, cVars, aVars
  <1>24. ASSUME NEW k \in Calls, ReadLoopEnds(k)
       PROVE  Goal
    BY <1>24 DEF ReadLoopEnds, Dead, CallTo, procVars, OnlyCalls, pVars, cVars, aVars
  <1>25. ASSUME NEW k \in Calls, ReplClose(k)
       PROVE  Goal
    BY <1>25 DEF ReplClose, SessionClose, procVars, OnlyCalls, CallTo, pVars, cVars, aVars
  <1>26. ASSUME NEW k \in Calls, StdinClosed(k)
       PROVE  Goal
    BY <1>26 DEF StdinClosed, Dead, CallTo, replVars, OnlyCalls, pVars, cVars, aVars
  <1>27. ASSUME NEW k \in Calls, ReplClosed(k)
       PROVE  Goal
    BY <1>27 DEF ReplClosed, CallTo, pVars, procVars, replVars, aVars
  <1>28. ASSUME NEW k \in Calls, Release(k)
       PROVE  Goal
    BY <1>28 DEF Release, kVars, replVars, OnlyCalls, pVars, cVars, aVars
  <1>29. ASSUME NEW k \in Calls, Dies(k)
       PROVE  Goal
    BY <1>29 DEF Dies, OnlyDeath, pVars, cVars, kVars, replVars, aVars
  <1>30. ASSUME NEW k \in Calls, Reap(k)
       PROVE  Goal
    BY <1>30 DEF Reap, OnlyDeath, pVars, cVars, kVars, replVars, aVars
  <1>31. CASE Shutdown
    BY <1>31 DEF Shutdown, Active, cVars, procVars, OnlyAgent, pVars, kVars, replVars
  <1>32. CASE DrainedOne
    BY <1>32 DEF DrainedOne, cVars, procVars, OnlyAgent, pVars, kVars, replVars
  <1>33. CASE Sweep
    BY <1>33 DEF Sweep, cVars, OnlyAgent, pVars, kVars, replVars
  <1>34. CASE Exit
    BY <1>34 DEF Exit, cVars, procVars, OnlyAgent, pVars, kVars, replVars
  <1>35. CASE UNCHANGED vars
    BY <1>35 DEF vars, pVars, cVars, kVars, procVars, replVars, aVars
  <1> QED
    BY <1>1, <1>2, <1>3, <1>4, <1>5, <1>6, <1>7, <1>8, <1>9, <1>10, <1>11, <1>12, <1>13,
       <1>14, <1>15, <1>16, <1>17, <1>18, <1>19, <1>20, <1>21, <1>22, <1>23, <1>24, <1>25,
       <1>26, <1>27, <1>28, <1>29, <1>30, <1>31, <1>32, <1>33, <1>34, <1>35
    DEF Next, ConnStep, CallStep

\* A resource leaves the connection's set when it is closed, or into the
\* snapshot of the teardown; the teardown ends when that is empty.
LEMMA ResourcesStep == TypeOK /\ Resources /\ [Next]_vars => Resources'
  <1> SUFFICES ASSUME TypeOK, Resources, [Next]_vars
               PROVE  Resources'
    OBVIOUS
  <1> /\ conn \in [Conns -> {"none", "setup", "open", "closing", "resources",
                             "dropped", "closed"}]
      /\ toClose \in [Conns -> SUBSET Calls] /\ kpc \in [Calls -> CallPcs]
      /\ kconn \in [Calls -> Conns \cup {None}] /\ kind \in [Calls -> AllKinds \cup {None}]
      /\ tracked \subseteq Calls /\ partial \subseteq Calls
      /\ \A k \in Calls : kpc[k] # "idle" => kconn[k] \in Conns
    BY DEF TypeOK
  <1> USE DEF Resources
  <1>1. ASSUME NEW c \in Conns, Negotiate(c)
       PROVE  Resources'
    BY <1>1 DEF Negotiate, GateTo, OnlyGate, pVars, kVars, procVars, replVars, aVars
  <1>2. ASSUME NEW c \in Conns, Unauthorized(c)
       PROVE  Resources'
    BY <1>2 DEF Unauthorized, GateTo, OnlyGate, pVars, kVars, procVars, replVars, aVars
  <1>3. ASSUME NEW c \in Conns, Accept(c)
       PROVE  Resources'
    BY <1>3 DEF Accept, ConnTo, pVars, kVars, procVars, replVars, aVars
  <1>4. ASSUME NEW c \in Conns, Serve(c)
       PROVE  Resources'
    BY <1>4 DEF Serve, ConnTo, GateTo, pVars, kVars, procVars, replVars, aVars
  <1>5. ASSUME NEW c \in Conns, SetupFails(c)
       PROVE  Resources'
    BY <1>5 DEF SetupFails, ConnTo, pVars, kVars, procVars, replVars, aVars
  <1>6. ASSUME NEW c \in Conns, PeerGone(c)
       PROVE  Resources'
    BY <1>6 DEF PeerGone, TearDown, pVars, kVars, procVars, replVars, aVars, Active, ConnTo
  <1>7. ASSUME NEW c \in Conns, HandshakeExpires(c)
       PROVE  Resources'
    BY <1>7 DEF HandshakeExpires, TearDown, pVars, kVars, procVars, replVars, aVars, Active,
        ConnTo
  <1>8. ASSUME NEW c \in Conns, RuntimeClosed(c)
       PROVE  Resources'
    BY <1>8 DEF RuntimeClosed, ConnTo, GateTo, OfConn, pVars, procVars, replVars, aVars
  <1>9. ASSUME NEW c \in Conns, CloseNext(c)
       PROVE  Resources'
    <2>1. PICK k \in toClose[c] :
              \/ /\ kind[k] = "repl" /\ kpc' = [kpc EXCEPT ![k] = "stdin"]
                 /\ UNCHANGED <<toClose, partial>>
              \/ /\ kind[k] # "repl" /\ kpc' = [kpc EXCEPT ![k] = "closed"]
                 /\ partial' = partial \ {k}
                 /\ toClose' = [toClose EXCEPT ![c] = toClose[c] \ {k}]
      BY <1>9 DEF CloseNext, SessionClose, Discard, CallTo
    <2>2. conn[c] = "resources" /\ k \in Calls /\ kpc[k] # "idle" /\ kconn[k] = c
          /\ k \notin tracked
      BY <1>9 DEF CloseNext
    <2>3. UNCHANGED <<conn, kconn, kind, tracked, late>>
      BY <1>9 DEF CloseNext
    <2>5. CASE kind[k] = "repl"
      BY <2>1, <2>2, <2>3, <2>5
    <2>6. CASE kind[k] # "repl"
      BY <2>1, <2>2, <2>3, <2>6
    <2> QED
      BY <2>5, <2>6
  <1>10. ASSUME NEW c \in Conns, TornDown(c)
       PROVE  Resources'
    BY <1>10 DEF TornDown, ConnTo, pVars, kVars, procVars, replVars, aVars
  <1>11. ASSUME NEW c \in Conns, DrainNext(c)
       PROVE  Resources'
    BY <1>11 DEF DrainNext, TearDown, Active, cVars, procVars, OnlyAgent, ConnTo, pVars,
        kVars, replVars
  <1>12. ASSUME NEW c \in Conns, NEW x \in Creds, Authenticate(c, x)
       PROVE  Resources'
    BY <1>12 DEF Authenticate, GateTo, OnlyGate, pVars, kVars, procVars, replVars, aVars
  <1>13. ASSUME NEW c \in Conns, NEW x \in Creds, Personalize(c, x)
       PROVE  Resources'
    BY <1>13 DEF Personalize, Claimable, OnlyPersonalize, cVars, kVars, procVars, replVars,
        aVars
  <1>14. ASSUME NEW k \in Calls, NEW c \in Conns, NEW kd \in Kinds[k], Open(k, c, kd)
       PROVE  Resources'
    BY <1>14 DEF Open, CallTo, procVars, replVars, OnlyCalls, pVars, cVars, aVars
  <1>15. ASSUME NEW x \in Creds, NicApplied(x)
       PROVE  Resources'
    BY <1>15 DEF NicApplied, OnlyPersonalize, cVars, kVars, procVars, replVars, aVars
  <1>16. ASSUME NEW x \in Creds, NicFails(x)
       PROVE  Resources'
    BY <1>16 DEF NicFails, OnlyPersonalize, cVars, kVars, procVars, replVars, aVars
  <1>17. ASSUME NEW k \in Calls, OpenFails(k)
       PROVE  Resources'
    BY <1>17 DEF OpenFails, CallTo, procVars, replVars, OnlyCalls, pVars, cVars, aVars
  <1>18. ASSUME NEW k \in Calls, Opened(k)
       PROVE  Resources'
    BY <1>18 DEF Opened, Track, procVars, replVars, OnlyCalls, CallTo, pVars, cVars, aVars
  <1>19. ASSUME NEW k \in Calls, CloseFile(k)
       PROVE  Resources'
    BY <1>19 DEF CloseFile, Discard, procVars, replVars, OnlyCalls, CallTo, pVars, cVars,
        aVars
  <1>20. ASSUME NEW k \in Calls, Spawned(k)
       PROVE  Resources'
    BY <1>20 DEF Spawned, CallTo, OnlyCalls, pVars, cVars, aVars
  <1>21. ASSUME NEW k \in Calls, ReplReady(k)
       PROVE  Resources'
    BY <1>21 DEF ReplReady, Track, procVars, replVars, OnlyCalls, CallTo, pVars, cVars,
        aVars
  <1>22. ASSUME NEW k \in Calls, Eval(k)
       PROVE  Resources'
    BY <1>22 DEF Eval, kVars, procVars, OnlyCalls, pVars, cVars, aVars
  <1>23. ASSUME NEW k \in Calls, Answered(k)
       PROVE  Resources'
    BY <1>23 DEF Answered, kVars, procVars, OnlyCalls, pVars, cVars, aVars
  <1>24. ASSUME NEW k \in Calls, ReadLoopEnds(k)
       PROVE  Resources'
    BY <1>24 DEF ReadLoopEnds, Dead, CallTo, procVars, OnlyCalls, pVars, cVars, aVars
  <1>25. ASSUME NEW k \in Calls, ReplClose(k)
       PROVE  Resources'
    BY <1>25 DEF ReplClose, SessionClose, procVars, OnlyCalls, CallTo, pVars, cVars, aVars
  <1>26. ASSUME NEW k \in Calls, StdinClosed(k)
       PROVE  Resources'
    BY <1>26 DEF StdinClosed, Dead, CallTo, replVars, OnlyCalls, pVars, cVars, aVars
  <1>27. ASSUME NEW k \in Calls, ReplClosed(k)
       PROVE  Resources'
    BY <1>27 DEF ReplClosed, CallTo, pVars, procVars, replVars, aVars
  <1>28. ASSUME NEW k \in Calls, Release(k)
       PROVE  Resources'
    BY <1>28 DEF Release, kVars, replVars, OnlyCalls, pVars, cVars, aVars
  <1>29. ASSUME NEW k \in Calls, Dies(k)
       PROVE  Resources'
    BY <1>29 DEF Dies, OnlyDeath, pVars, cVars, kVars, replVars, aVars
  <1>30. ASSUME NEW k \in Calls, Reap(k)
       PROVE  Resources'
    BY <1>30 DEF Reap, OnlyDeath, pVars, cVars, kVars, replVars, aVars
  <1>31. CASE Shutdown
    BY <1>31 DEF Shutdown, Active, cVars, procVars, OnlyAgent, pVars, kVars, replVars
  <1>32. CASE DrainedOne
    BY <1>32 DEF DrainedOne, cVars, procVars, OnlyAgent, pVars, kVars, replVars
  <1>33. CASE Sweep
    BY <1>33 DEF Sweep, cVars, OnlyAgent, pVars, kVars, replVars
  <1>34. CASE Exit
    BY <1>34 DEF Exit, cVars, procVars, OnlyAgent, pVars, kVars, replVars
  <1>35. CASE UNCHANGED vars
    BY <1>35 DEF vars, pVars, cVars, kVars, procVars, replVars, aVars
  <1> QED
    BY <1>1, <1>2, <1>3, <1>4, <1>5, <1>6, <1>7, <1>8, <1>9, <1>10, <1>11, <1>12, <1>13,
       <1>14, <1>15, <1>16, <1>17, <1>18, <1>19, <1>20, <1>21, <1>22, <1>23, <1>24, <1>25,
       <1>26, <1>27, <1>28, <1>29, <1>30, <1>31, <1>32, <1>33, <1>34, <1>35
    DEF Next, ConnStep, CallStep

\* No running process leaves the registry unsignalled but by Process.release.
LEMMA RegisteredStep == TypeOK /\ Registered /\ [Next]_vars => Registered'
  <1> SUFFICES ASSUME TypeOK, Registered, [Next]_vars
               PROVE  Registered'
    OBVIOUS
  <1> /\ proc \in [Calls -> {"none", "live", "dead", "reaped"}]
      /\ agent \in {"serving", "draining", "killing", "exited"}
    BY DEF TypeOK
  <1> USE DEF Registered, ExitKillsProcesses, Dead
  <1>1. ASSUME NEW c \in Conns, Negotiate(c)
       PROVE  Registered'
    BY <1>1 DEF Negotiate, GateTo, OnlyGate, pVars, kVars, procVars, replVars, aVars
  <1>2. ASSUME NEW c \in Conns, Unauthorized(c)
       PROVE  Registered'
    BY <1>2 DEF Unauthorized, GateTo, OnlyGate, pVars, kVars, procVars, replVars, aVars
  <1>3. ASSUME NEW c \in Conns, Accept(c)
       PROVE  Registered'
    BY <1>3 DEF Accept, ConnTo, pVars, kVars, procVars, replVars, aVars
  <1>4. ASSUME NEW c \in Conns, Serve(c)
       PROVE  Registered'
    BY <1>4 DEF Serve, ConnTo, GateTo, pVars, kVars, procVars, replVars, aVars
  <1>5. ASSUME NEW c \in Conns, SetupFails(c)
       PROVE  Registered'
    BY <1>5 DEF SetupFails, ConnTo, pVars, kVars, procVars, replVars, aVars
  <1>6. ASSUME NEW c \in Conns, PeerGone(c)
       PROVE  Registered'
    BY <1>6 DEF PeerGone, TearDown, pVars, kVars, procVars, replVars, aVars, Active, ConnTo
  <1>7. ASSUME NEW c \in Conns, HandshakeExpires(c)
       PROVE  Registered'
    BY <1>7 DEF HandshakeExpires, TearDown, pVars, kVars, procVars, replVars, aVars, Active,
        ConnTo
  <1>8. ASSUME NEW c \in Conns, RuntimeClosed(c)
       PROVE  Registered'
    BY <1>8 DEF RuntimeClosed, ConnTo, GateTo, OfConn, pVars, procVars, replVars, aVars
  <1>9. ASSUME NEW c \in Conns, CloseNext(c)
       PROVE  Registered'
    BY <1>9 DEF CloseNext, SessionClose, Discard, pVars, procVars, aVars, CallTo
  <1>10. ASSUME NEW c \in Conns, TornDown(c)
       PROVE  Registered'
    BY <1>10 DEF TornDown, ConnTo, pVars, kVars, procVars, replVars, aVars
  <1>11. ASSUME NEW c \in Conns, DrainNext(c)
       PROVE  Registered'
    BY <1>11 DEF DrainNext, TearDown, Active, cVars, procVars, OnlyAgent, ConnTo, pVars,
        kVars, replVars
  <1>12. ASSUME NEW c \in Conns, NEW x \in Creds, Authenticate(c, x)
       PROVE  Registered'
    BY <1>12 DEF Authenticate, GateTo, OnlyGate, pVars, kVars, procVars, replVars, aVars
  <1>13. ASSUME NEW c \in Conns, NEW x \in Creds, Personalize(c, x)
       PROVE  Registered'
    BY <1>13 DEF Personalize, Claimable, OnlyPersonalize, cVars, kVars, procVars, replVars,
        aVars
  <1>14. ASSUME NEW k \in Calls, NEW c \in Conns, NEW kd \in Kinds[k], Open(k, c, kd)
       PROVE  Registered'
    BY <1>14 DEF Open, CallTo, procVars, replVars, OnlyCalls, pVars, cVars, aVars
  <1>15. ASSUME NEW x \in Creds, NicApplied(x)
       PROVE  Registered'
    BY <1>15 DEF NicApplied, OnlyPersonalize, cVars, kVars, procVars, replVars, aVars
  <1>16. ASSUME NEW x \in Creds, NicFails(x)
       PROVE  Registered'
    BY <1>16 DEF NicFails, OnlyPersonalize, cVars, kVars, procVars, replVars, aVars
  <1>17. ASSUME NEW k \in Calls, OpenFails(k)
       PROVE  Registered'
    BY <1>17 DEF OpenFails, CallTo, procVars, replVars, OnlyCalls, pVars, cVars, aVars
  <1>18. ASSUME NEW k \in Calls, Opened(k)
       PROVE  Registered'
    BY <1>18 DEF Opened, Track, procVars, replVars, OnlyCalls, CallTo, pVars, cVars, aVars
  <1>19. ASSUME NEW k \in Calls, CloseFile(k)
       PROVE  Registered'
    BY <1>19 DEF CloseFile, Discard, procVars, replVars, OnlyCalls, CallTo, pVars, cVars,
        aVars
  <1>20. ASSUME NEW k \in Calls, Spawned(k), agent # "exited"
       PROVE  Registered'
    BY <1>20 DEF Spawned, CallTo, OnlyCalls, pVars, cVars, aVars
  <1>21. ASSUME NEW k \in Calls, ReplReady(k)
       PROVE  Registered'
    BY <1>21 DEF ReplReady, Track, procVars, replVars, OnlyCalls, CallTo, pVars, cVars,
        aVars
  <1>22. ASSUME NEW k \in Calls, Eval(k)
       PROVE  Registered'
    BY <1>22 DEF Eval, kVars, procVars, OnlyCalls, pVars, cVars, aVars
  <1>23. ASSUME NEW k \in Calls, Answered(k)
       PROVE  Registered'
    BY <1>23 DEF Answered, kVars, procVars, OnlyCalls, pVars, cVars, aVars
  <1>24. ASSUME NEW k \in Calls, ReadLoopEnds(k)
       PROVE  Registered'
    BY <1>24 DEF ReadLoopEnds, CallTo, procVars, OnlyCalls, pVars, cVars, aVars
  <1>25. ASSUME NEW k \in Calls, ReplClose(k)
       PROVE  Registered'
    BY <1>25 DEF ReplClose, SessionClose, procVars, OnlyCalls, CallTo, pVars, cVars, aVars
  <1>26. ASSUME NEW k \in Calls, StdinClosed(k)
       PROVE  Registered'
    BY <1>26 DEF StdinClosed, CallTo, replVars, OnlyCalls, pVars, cVars, aVars
  <1>27. ASSUME NEW k \in Calls, ReplClosed(k)
       PROVE  Registered'
    BY <1>27 DEF ReplClosed, CallTo, pVars, procVars, replVars, aVars
  <1>28. ASSUME NEW k \in Calls, Release(k)
       PROVE  Registered'
    BY <1>28 DEF Release, kVars, replVars, OnlyCalls, pVars, cVars, aVars
  <1>29. ASSUME NEW k \in Calls, Dies(k)
       PROVE  Registered'
    BY <1>29 DEF Dies, OnlyDeath, pVars, cVars, kVars, replVars, aVars
  <1>30. ASSUME NEW k \in Calls, Reap(k)
       PROVE  Registered'
    BY <1>30 DEF Reap, OnlyDeath, pVars, cVars, kVars, replVars, aVars
  <1>31. CASE Shutdown
    BY <1>31 DEF Shutdown, Active, cVars, procVars, OnlyAgent, pVars, kVars, replVars
  <1>32. CASE DrainedOne
    BY <1>32 DEF DrainedOne, cVars, procVars, OnlyAgent, pVars, kVars, replVars
  <1>33. CASE Sweep
    BY <1>33 DEF Sweep, cVars, OnlyAgent, pVars, kVars, replVars
  <1>34. CASE Exit
    BY <1>34 DEF Exit, cVars, procVars, OnlyAgent, pVars, kVars, replVars
  <1>35. CASE UNCHANGED vars
    BY <1>35 DEF vars, pVars, cVars, kVars, procVars, replVars, aVars
  <1> QED
    BY <1>1, <1>2, <1>3, <1>4, <1>5, <1>6, <1>7, <1>8, <1>9, <1>10, <1>11, <1>12, <1>13,
       <1>14, <1>15, <1>16, <1>17, <1>18, <1>19, <1>20, <1>21, <1>22, <1>23, <1>24, <1>25,
       <1>26, <1>27, <1>28, <1>29, <1>30, <1>31, <1>32, <1>33, <1>34, <1>35
    DEF Next, ConnStep, CallStep

\* Every step keeps the inductive invariant.
LEMMA InvStep == IInv /\ [Next]_vars => IInv'
  BY TypeStep, AuthStep, ResourcesStep, RegisteredStep DEF IInv

\* The inductive invariant holds in every reachable state.
THEOREM Inductive == Spec => []IInv
  BY InvInit, InvStep, PTL DEF Spec

\* Whoever is authenticated, and whoever opened something, presented the
\* credential that the sandbox has now: personalization is claimed by one
\* call at a time, is over before anybody is let in, and does not happen again.
THEOREM OnlyTheCurrentCredential == Spec => []AuthenticatedByCurrent
  <1>1. IInv => AuthenticatedByCurrent
    BY DEF IInv
  <1> QED
    BY Inductive, <1>1, PTL

\* Nothing a connection opened outlives its teardown, and no process the
\* agent's exit, but what was being opened behind the snapshot or the sweep.
THEOREM TeardownIsComplete == Spec => []NothingOutlives
  <1>1. IInv => NothingOutlives
    <2> SUFFICES ASSUME IInv PROVE NothingOutlives
      OBVIOUS
    <2>1. TeardownReleases
      BY DEF IInv, TypeOK, Resources, TeardownReleases
    <2> QED
      BY <2>1 DEF IInv, Registered, NothingOutlives
  <1> QED
    BY Inductive, <1>1, PTL
=============================================================================
