------------------------------- MODULE Leases -------------------------------
(***************************************************************************)
(* hostd's LeaseManager over systemClock (src/hostd/leases.ts): the two    *)
(* timeout regimes, the re-arming timers and the hook that ends a sandbox. *)
(* Deadlines are wall-clock times (Date.now), which may be set; the delay  *)
(* of a setTimeout runs on its own and may be served late.  A lease stands *)
(* for its sandbox too: HostControlCore creates one per sandbox.           *)
(***************************************************************************)
EXTENDS Integers, FiniteSets

CONSTANTS LeaseIds,
          Durations,   \* durationMs and requestedMs arguments
          MaxExtend,   \* maxExtendMs
          MaxDelay,    \* MAX_TIMEOUT_DELAY_MS
          MaxWall,     \* bound on wall-clock time and on deadlines
          MaxSteps,    \* bound on how often the wall clock is set
          Delays       \* time that may pass between two reads of the clock

ASSUME DurationsAssumption == Durations \subseteq Nat \ {0}
ASSUME LimitsAssumption == /\ {MaxExtend, MaxDelay} \subseteq Nat \ {0}
                           /\ {MaxWall, MaxSteps} \subseteq Nat
ASSUME DelaysAssumption == Delays \subseteq Nat

VARIABLES
    wall, steps,   \* Date.now(), and how often it was set
    kind,          \* none | duration | session
    mapped,        \* the keys of #leases
    settled,       \* entry.settled
    deadline,      \* entry.deadlineUnixMs
    timers,        \* setTimeout handles: the delay left and the time aimed at
    closed,        \* leases whose creating connection is gone
    micro,         \* settlements queued by queueMicrotask
    kills,         \* how often onExpire was called for the sandbox
    promised,      \* the deadline the last answer to a client named (history)
    ended          \* what ended it, "none" while nothing has (history)

vars == <<wall, steps, kind, mapped, settled, deadline, timers, closed, micro,
          kills, promised, ended>>

\* Every variable holds a value of its declared kind; no delay is beyond the cap.
TypeOK ==
    /\ wall \in 0..MaxWall /\ steps \in 0..MaxSteps
    /\ kind \in [LeaseIds -> {"none", "duration", "session"}]
    /\ mapped \subseteq LeaseIds /\ settled \subseteq LeaseIds
    /\ deadline \in [LeaseIds -> 0..MaxWall]
    /\ timers \in [LeaseIds -> SUBSET [left : 0..MaxDelay, aim : 0..MaxWall]]
    /\ closed \subseteq LeaseIds /\ micro \subseteq LeaseIds
    /\ kills \in [LeaseIds -> 0..2]
    /\ promised \in [LeaseIds -> 0..MaxWall]
    /\ ended \in [LeaseIds -> {"none", "deadline", "closed", "released", "revoked"}]

Init ==
    /\ wall = 0 /\ steps = 0
    /\ kind = [l \in LeaseIds |-> "none"]
    /\ mapped = {} /\ settled = {}
    /\ deadline = [l \in LeaseIds |-> 0]
    /\ timers = [l \in LeaseIds |-> {}]
    /\ closed = {} /\ micro = {}
    /\ kills = [l \in LeaseIds |-> 0]
    /\ promised = [l \in LeaseIds |-> 0]
    /\ ended = [l \in LeaseIds |-> "none"]

-----------------------------------------------------------------------------
(* Time.                                                                   *)

Least(a, b) == IF a < b THEN a ELSE b

\* wall and the running delays, t later; the bound on wall is far enough for
\* every deadline to be due.
WallIn(t) == Least(wall + t, MaxWall)
TimersIn(t) ==
    [l \in LeaseIds |->
        {[h EXCEPT !.left = IF @ < t THEN 0 ELSE @ - t] : h \in timers[l]}]

Tick ==
    /\ wall' = WallIn(1) /\ timers' = TimersIn(1)
    /\ UNCHANGED <<steps, kind, mapped, settled, deadline, closed, micro, kills,
                   promised, ended>>

\* The host's clock is set, forward or back.
SetClock ==
    /\ steps < MaxSteps /\ steps' = steps + 1
    /\ wall' \in 0..MaxWall
    /\ UNCHANGED <<kind, mapped, settled, deadline, timers, closed, micro, kills,
                   promised, ended>>

\* setTimeout(arm, ...) for a time that is still ahead.
Handle(aim, now) == [left |-> Least(aim - now, MaxDelay), aim |-> aim]

-----------------------------------------------------------------------------
\* #settle, for an entry that is not settled: the hook is called once.
Settle(l, cause) ==
    /\ settled' = settled \cup {l}
    /\ mapped' = mapped \ {l}
    /\ kills' = [kills EXCEPT ![l] = @ + 1]
    /\ ended' = [ended EXCEPT ![l] = cause]

\* A duration lease.  setTimer runs the callback itself when the deadline has
\* passed by the second reading of the clock, before the lease is in the map.
CreateDuration(l, d, e) ==
    /\ kind[l] = "none" /\ wall + d <= MaxWall
    /\ kind' = [kind EXCEPT ![l] = "duration"]
    /\ deadline' = [deadline EXCEPT ![l] = wall + d]
    /\ promised' = [promised EXCEPT ![l] = wall + d]
    /\ wall' = WallIn(e)
    /\ IF wall' >= wall + d
       THEN /\ settled' = settled \cup {l}
            /\ kills' = [kills EXCEPT ![l] = @ + 1]
            /\ ended' = [ended EXCEPT ![l] = "deadline"]
            /\ timers' = TimersIn(e)
       ELSE /\ timers' = [TimersIn(e) EXCEPT ![l] = {Handle(wall + d, wall')}]
            /\ UNCHANGED <<settled, kills, ended>>
    /\ mapped' = mapped \cup {l}
    /\ UNCHANGED <<steps, closed, micro>>

\* A session lease.  A connection that died during the launch is noticed here,
\* and settled for after create has returned.
CreateSession(l) ==
    /\ kind[l] = "none"
    /\ kind' = [kind EXCEPT ![l] = "session"]
    /\ mapped' = mapped \cup {l}
    /\ micro' = IF l \in closed THEN micro \cup {l} ELSE micro
    /\ UNCHANGED <<wall, steps, settled, deadline, timers, closed, kills, promised,
                   ended>>

\* Mutant: the queued settlement does not look whether the lease is settled.
MicrotaskBlindly(l) ==
    /\ l \in micro
    /\ micro' = micro \ {l}
    /\ Settle(l, "closed")
    /\ UNCHANGED <<wall, steps, kind, deadline, timers, closed, promised>>

Microtask(l) ==
    /\ l \in micro
    /\ micro' = micro \ {l}
    /\ IF l \in settled THEN UNCHANGED <<settled, mapped, kills, ended>> ELSE Settle(l, "closed")
    /\ UNCHANGED <<wall, steps, kind, deadline, timers, closed, promised>>

\* The creating connection aborts; a listening session lease settles.
CloseConnection(l) ==
    /\ l \notin closed
    /\ closed' = closed \cup {l}
    /\ IF kind[l] = "session" /\ l \in mapped \ settled
       THEN Settle(l, "closed")
       ELSE UNCHANGED <<settled, mapped, kills, ended>>
    /\ UNCHANGED <<wall, steps, kind, deadline, timers, micro, promised>>

\* Mutant: a delay that is over is taken for the deadline.
WakeExpires(l) ==
    \E h \in timers[l] :
        /\ h.left = 0
        /\ timers' = [timers EXCEPT ![l] = @ \ {h}]
        /\ Settle(l, "deadline")
        /\ UNCHANGED <<wall, steps, kind, deadline, closed, micro, promised>>

\* Mutant: a timer that woke early is not armed again.
WakeOnce(l) ==
    \E h \in timers[l] :
        /\ h.left = 0
        /\ timers' = [timers EXCEPT ![l] = @ \ {h}]
        /\ IF h.aim <= wall THEN Settle(l, "deadline") ELSE UNCHANGED <<settled, mapped, kills, ended>>
        /\ UNCHANGED <<wall, steps, kind, deadline, closed, micro, promised>>

\* arm() after a setTimeout: early because of the cap or of a clock set back,
\* it arms again; otherwise the lease expires.
Wake(l) ==
    \E h \in timers[l] :
        /\ h.left = 0
        /\ IF h.aim > wall
           THEN /\ timers' = [timers EXCEPT ![l] = (@ \ {h}) \cup {Handle(h.aim, wall)}]
                /\ UNCHANGED <<settled, mapped, kills, ended>>
           ELSE IF l \in settled
           THEN /\ timers' = [timers EXCEPT ![l] = @ \ {h}]
                /\ UNCHANGED <<settled, mapped, kills, ended>>
           ELSE timers' = [timers EXCEPT ![l] = {}] /\ Settle(l, "deadline")
        /\ UNCHANGED <<wall, steps, kind, deadline, closed, micro, promised>>

\* extendTimeout and renew (which also counts a generation): refused at or
\* after the deadline; the old timer is cancelled and a new one set.
Extend(l, d, e) ==
    LET until == deadline[l] + Least(d, MaxExtend) IN
    /\ l \in mapped /\ kind[l] = "duration" /\ deadline[l] > wall
    /\ until <= MaxWall
    /\ deadline' = [deadline EXCEPT ![l] = until]
    /\ promised' = [promised EXCEPT ![l] = until]
    /\ wall' = WallIn(e)
    /\ IF wall' >= until
       THEN /\ timers' = [TimersIn(e) EXCEPT ![l] = {}]
            /\ IF l \in settled THEN UNCHANGED <<settled, mapped, kills, ended>> ELSE Settle(l, "deadline")
       ELSE /\ timers' = [TimersIn(e) EXCEPT ![l] = {Handle(until, wall')}]
            /\ UNCHANGED <<settled, mapped, kills, ended>>
    /\ UNCHANGED <<steps, kind, closed, micro>>

\* release, by a client or by killSandbox: nothing for a settled entry.
Release(l) ==
    /\ l \in mapped \ settled
    /\ timers' = [timers EXCEPT ![l] = {}]
    /\ Settle(l, "released")
    /\ UNCHANGED <<wall, steps, kind, deadline, closed, micro, promised>>

\* revokeAll: every entry is discarded without the hook.
RevokeAll ==
    LET dropped == mapped \ settled IN
    /\ dropped # {}
    /\ settled' = settled \cup dropped
    /\ mapped' = mapped \ dropped
    /\ ended' = [l \in LeaseIds |-> IF l \in dropped THEN "revoked" ELSE ended[l]]
    /\ timers' = [l \in LeaseIds |-> IF l \in dropped THEN {} ELSE timers[l]]
    /\ UNCHANGED <<wall, steps, kind, deadline, closed, micro, kills, promised>>

Next ==
    \/ Tick \/ SetClock \/ RevokeAll
    \/ \E l \in LeaseIds :
          \/ CreateSession(l) \/ Microtask(l) \/ CloseConnection(l)
          \/ Wake(l) \/ Release(l)
          \/ \E d \in Durations, e \in Delays :
                CreateDuration(l, d, e) \/ Extend(l, d, e)

Spec == Init /\ [][Next]_vars

\* Time passes and the event loop serves what is due.  Nobody has to call.
FairSpec == /\ Spec
            /\ WF_vars(Tick)
            /\ \A l \in LeaseIds : WF_vars(Wake(l)) /\ WF_vars(Microtask(l))

-----------------------------------------------------------------------------
Live == mapped \ settled

\* What is enforced is what was promised: a live duration lease has exactly one
\* timer, aimed at the deadline the last answer named, and a lease that has
\* ended has none, whatever order extensions, releases and timers come in.
OneTimerPerLease ==
    \A l \in LeaseIds :
        IF l \in Live /\ kind[l] = "duration"
        THEN \E h \in timers[l] : /\ timers[l] = {h}
                                  /\ h.aim = promised[l] /\ deadline[l] = promised[l]
        ELSE timers[l] = {}

\* "it fires at the deadline, not before": a timer ends a sandbox only when the
\* deadline last promised is over, with extensions, delays beyond setTimeout's
\* cap and a clock that is set back.
NotBeforeDeadline ==
    [][\A l \in LeaseIds :
          ended[l] = "none" /\ ended'[l] = "deadline" => wall' >= promised'[l]]_vars

\* What has become of a lease.
Fate(l) == IF kind[l] = "none" THEN "none" ELSE IF ended[l] = "none" THEN "live" ELSE ended[l]

Contract == INSTANCE LeaseContract WITH
                now <- wall, regime <- kind, until <- promised, gone <- closed,
                hooks <- kills, fate <- [l \in LeaseIds |-> Fate(l)]

\* However timers, extensions, connections, releases and a clock that is set
\* interleave, leases do what LeaseContract says: each ends once, for a reason of
\* its own regime, with the hook in the step that ends it, a duration lease
\* never before the deadline last promised, which no extension that comes too
\* late revives (leases.ts LeaseManager).
KeepsContract == Contract!Spec

\* "invokes the injected onExpire hook exactly once": never twice, with
\* deadline, connection, release and the queued settlement racing, and never
\* for a lease that was dropped silently.
KilledOnce ==
    \A l \in LeaseIds :
        /\ kills[l] <= 1
        /\ ended[l] = "revoked" => kills[l] = 0

\* A duration lease ends even if nobody releases it, under FairSpec.
DurationsEnd == \A l \in LeaseIds : (l \in Live /\ kind[l] = "duration") ~> l \notin Live

\* A lease in the map can still be ended: none of its entries is settled.  Does
\* not hold with a delay between the two readings of the clock in create.
EntriesCanEnd == mapped \cap settled = {}

\* A lease is enforced once (leases.ts #settle): one timer while it lives, one
\* kill when it ends.
EnforcedOnce == TypeOK /\ OneTimerPerLease /\ KilledOnce

=============================================================================
