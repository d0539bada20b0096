---------------------------- MODULE LeasesProofs ----------------------------
(***************************************************************************)
(* Theorems about Leases, for any number of leases, any durations and any  *)
(* cap on a timer's delay.                                                 *)
(***************************************************************************)
EXTENDS Leases, TLAPS

USE DurationsAssumption, LimitsAssumption, DelaysAssumption

Handles == [left : 0..MaxDelay, aim : 0..MaxWall]

\* Time that passes shortens the delays of the timers and touches nothing else.
LEMMA TimePasses ==
  ASSUME NEW t \in Nat, timers \in [LeaseIds -> SUBSET Handles]
  PROVE  /\ TimersIn(t) \in [LeaseIds -> SUBSET Handles]
         /\ \A l \in LeaseIds : timers[l] = {} => TimersIn(t)[l] = {}
         /\ \A l \in LeaseIds : \A h \in Handles : timers[l] = {h} =>
                \E g \in Handles : TimersIn(t)[l] = {g} /\ g.aim = h.aim
  <1> DEFINE Later(h) == [h EXCEPT !.left = IF @ < t THEN 0 ELSE @ - t]
  <1>1. \A h \in Handles : Later(h) \in Handles /\ Later(h).aim = h.aim
    BY DEF Handles
  <1>2. TimersIn(t) = [l \in LeaseIds |-> {Later(h) : h \in timers[l]}]
    BY DEF TimersIn
  <1> HIDE DEF Later
  <1>3. TimersIn(t) \in [LeaseIds -> SUBSET Handles]
    BY <1>1, <1>2
  <1>4. \A l \in LeaseIds : timers[l] = {} => TimersIn(t)[l] = {}
    BY <1>2
  <1>5. ASSUME NEW l \in LeaseIds, NEW h \in Handles, timers[l] = {h}
        PROVE  \E g \in Handles : TimersIn(t)[l] = {g} /\ g.aim = h.aim
    <2>1. TimersIn(t)[l] = {Later(h)}
      BY <1>2, <1>5
    <2> QED
      BY <1>1, <2>1
  <1> QED
    BY <1>3, <1>4, <1>5

\* The clock reads a time it can show.
LEMMA ClockReads ==
  ASSUME NEW t \in Nat, wall \in 0..MaxWall
  PROVE  WallIn(t) \in 0..MaxWall /\ WallIn(t) <= wall + t
  <1> MaxWall \in Nat /\ wall \in Nat /\ wall <= MaxWall
    OBVIOUS
  <1>1. CASE wall + t < MaxWall
    BY <1>1 DEF WallIn, Least
  <1>2. CASE ~(wall + t < MaxWall)
    BY <1>2 DEF WallIn, Least
  <1> QED
    BY <1>1, <1>2

\* A timer that is set for a time ahead has a delay within the cap.
LEMMA HandleIsOne ==
  ASSUME NEW aim \in 0..MaxWall, NEW now \in 0..MaxWall, now < aim
  PROVE  Handle(aim, now) \in Handles /\ Handle(aim, now).aim = aim
  BY DEF Handle, Least, Handles

-----------------------------------------------------------------------------
(***************************************************************************)
(* The inductive invariant.  Which leases have ended, and how often their  *)
(* hook has run, is in three variables that must agree; and a lease that   *)
(* has not ended is behind exactly one timer, or is a session lease and    *)
(* behind none.                                                            *)
(***************************************************************************)
\* settled, kills and ended tell the same story.
Ends ==
    \A l \in LeaseIds :
        /\ l \in settled <=> ended[l] # "none"
        /\ kills[l] = IF ended[l] \in {"none", "revoked"} THEN 0 ELSE 1

\* What was created is in the map or has ended, and nothing else; only session
\* leases whose connection is closed are settled from a microtask.
Known ==
    \A l \in LeaseIds :
        /\ l \in mapped \cup settled <=> kind[l] # "none"
        /\ l \in micro => kind[l] = "session" /\ l \in closed

Armed(l) ==
    /\ deadline[l] = promised[l]
    /\ \E h \in Handles : timers[l] = {h} /\ h.aim = promised[l]

\* A lease that has not ended has its one timer.
LiveTimers ==
    \A l \in LeaseIds \ settled :
        IF l \in mapped /\ kind[l] = "duration" THEN Armed(l) ELSE timers[l] = {}

IInv == TypeOK /\ Ends /\ Known /\ LiveTimers

\* The first state satisfies the inductive invariant.
LEMMA InvInit == Init => IInv
  BY DEF Init, IInv, TypeOK, Ends, Known, LiveTimers

\* What is known of how leases end, by type.
Fates ==
    /\ mapped \subseteq LeaseIds /\ settled \subseteq LeaseIds
    /\ kills \in [LeaseIds -> 0..2]
    /\ ended \in [LeaseIds -> {"none", "deadline", "closed", "released", "revoked"}]

\* A lease that ends is recorded as ended, and its hook has run once.
LEMMA SettleOnce ==
  ASSUME Fates, Ends, NEW l \in LeaseIds \ settled,
         NEW cause \in {"deadline", "closed", "released"}, Settle(l, cause)
  PROVE  Fates' /\ Ends'
  BY DEF Fates, Ends, Settle

\* No lease ends twice.
LEMMA FatesStep == Fates /\ Ends /\ Known /\ [Next]_vars => Fates' /\ Ends'
  <1> SUFFICES ASSUME Fates, Ends, Known, [Next]_vars
               PROVE  Fates' /\ Ends'
    OBVIOUS
  <1> DEFINE Goal == Fates' /\ Ends'
  <1>0. UNCHANGED <<mapped, settled, kills, ended>> => Goal
    BY DEF Fates, Ends
  <1>1. CASE Tick
    BY <1>1, <1>0 DEF Tick
  <1>2. CASE SetClock
    BY <1>2, <1>0 DEF SetClock
  <1>3. CASE RevokeAll
    BY <1>3 DEF RevokeAll, Fates, Ends
  <1>4. ASSUME NEW l \in LeaseIds, CreateSession(l)
       PROVE  Goal
    BY <1>4 DEF CreateSession, Fates, Ends
  <1>5. ASSUME NEW l \in LeaseIds, Microtask(l)
       PROVE  Goal
    BY <1>5, <1>0, SettleOnce DEF Microtask
  <1>6. ASSUME NEW l \in LeaseIds, CloseConnection(l)
       PROVE  Goal
    BY <1>6, <1>0, SettleOnce DEF CloseConnection
  <1>7. ASSUME NEW l \in LeaseIds, Wake(l)
       PROVE  Goal
    BY <1>7, <1>0, SettleOnce DEF Wake
  <1>8. ASSUME NEW l \in LeaseIds, Release(l)
       PROVE  Goal
    BY <1>8, SettleOnce DEF Release
  <1>9. ASSUME NEW l \in LeaseIds, NEW d \in Durations, NEW e \in Delays, CreateDuration(l, d, e)
       PROVE  Goal
    <2>1. l \notin settled
      BY <1>9 DEF CreateDuration, Known
    <2>2. \/ /\ settled' = settled \cup {l}
             /\ kills' = [kills EXCEPT ![l] = kills[l] + 1]
             /\ ended' = [ended EXCEPT ![l] = "deadline"]
          \/ UNCHANGED <<settled, kills, ended>>
      BY <1>9 DEF CreateDuration
    <2>3. mapped' = mapped \cup {l}
      BY <1>9 DEF CreateDuration
    <2> QED
      BY <2>1, <2>2, <2>3 DEF Fates, Ends
  <1>10. ASSUME NEW l \in LeaseIds, NEW d \in Durations, NEW e \in Delays, Extend(l, d, e)
       PROVE  Goal
    BY <1>10, <1>0, SettleOnce DEF Extend
  <1>11. CASE UNCHANGED vars
    BY <1>11, <1>0 DEF vars
  <1> QED
    BY <1>1, <1>2, <1>3, <1>4, <1>5, <1>6, <1>7, <1>8, <1>9, <1>10, <1>11
    DEF Next

\* What is known of the clock and the timers, by type.
Times ==
    /\ wall \in 0..MaxWall
    /\ deadline \in [LeaseIds -> 0..MaxWall] /\ promised \in [LeaseIds -> 0..MaxWall]
    /\ timers \in [LeaseIds -> SUBSET Handles]

\* A deadline and a delay are within their bounds.
LEMMA TimesStep == Times /\ [Next]_vars => Times'
  <1> SUFFICES ASSUME Times, [Next]_vars
               PROVE  Times'
    OBVIOUS
  <1> USE DEF Times
  <1>0. UNCHANGED <<wall, deadline, promised, timers>> => Times'
    OBVIOUS
  <1>1. CASE Tick
    BY <1>1, ClockReads, TimePasses DEF Tick
  <1>2. CASE SetClock
    BY <1>2 DEF SetClock
  <1>3. CASE RevokeAll
    BY <1>3 DEF RevokeAll
  <1>4. ASSUME NEW l \in LeaseIds, CreateSession(l)
       PROVE  Times'
    BY <1>4, <1>0 DEF CreateSession
  <1>5. ASSUME NEW l \in LeaseIds, Microtask(l)
       PROVE  Times'
    BY <1>5, <1>0 DEF Microtask
  <1>6. ASSUME NEW l \in LeaseIds, CloseConnection(l)
       PROVE  Times'
    BY <1>6, <1>0 DEF CloseConnection
  <1>7. ASSUME NEW l \in LeaseIds, Wake(l)
       PROVE  Times'
    <2>1. /\ UNCHANGED <<wall, deadline, promised>>
          /\ \E h \in timers[l] :
                \/ h.aim > wall /\ timers' = [timers EXCEPT ![l] =
                                              (timers[l] \ {h}) \cup {Handle(h.aim, wall)}]
                \/ timers' = [timers EXCEPT ![l] = timers[l] \ {h}]
                \/ timers' = [timers EXCEPT ![l] = {}]
      BY <1>7 DEF Wake
    <2>2. \A h \in timers[l] : h \in Handles /\ h.aim \in 0..MaxWall
      BY DEF Handles
    <2>3. \A h \in timers[l] : h.aim > wall => Handle(h.aim, wall) \in Handles
      BY <2>2, HandleIsOne
    <2> QED
      BY <2>1, <2>3
  <1>8. ASSUME NEW l \in LeaseIds, Release(l)
       PROVE  Times'
    BY <1>8 DEF Release
  <1>9. ASSUME NEW l \in LeaseIds, NEW d \in Durations, NEW e \in Delays, CreateDuration(l, d, e)
       PROVE  Times'
    <2> DEFINE until == wall + d
    <2>1. wall' = WallIn(e) /\ wall' \in 0..MaxWall /\ TimersIn(e) \in [LeaseIds -> SUBSET Handles]
      BY <1>9, ClockReads, TimePasses DEF CreateDuration
    <2>2. until \in 0..MaxWall
      BY <1>9 DEF CreateDuration, Least
    <2>3. /\ deadline' = [deadline EXCEPT ![l] = until]
          /\ promised' = [promised EXCEPT ![l] = until]
      BY <1>9 DEF CreateDuration
    <2>4. \/ timers' = TimersIn(e)
          \/ timers' = [TimersIn(e) EXCEPT ![l] = {}]
          \/ wall' < until /\ timers' = [TimersIn(e) EXCEPT ![l] = {Handle(until, wall')}]
      BY <1>9, <2>1, <2>2 DEF CreateDuration
    <2> HIDE DEF until
    <2>5. wall' < until => Handle(until, wall') \in Handles
      BY <2>1, <2>2, HandleIsOne
    <2> QED
      BY <2>1, <2>2, <2>3, <2>4, <2>5
  <1>10. ASSUME NEW l \in LeaseIds, NEW d \in Durations, NEW e \in Delays, Extend(l, d, e)
       PROVE  Times'
    <2> DEFINE until == deadline[l] + Least(d, MaxExtend)
    <2>1. wall' = WallIn(e) /\ wall' \in 0..MaxWall /\ TimersIn(e) \in [LeaseIds -> SUBSET Handles]
      BY <1>10, ClockReads, TimePasses DEF Extend
    <2>2. until \in 0..MaxWall
      BY <1>10 DEF Extend, Least
    <2>3. /\ deadline' = [deadline EXCEPT ![l] = until]
          /\ promised' = [promised EXCEPT ![l] = until]
      BY <1>10 DEF Extend
    <2>4. \/ timers' = TimersIn(e)
          \/ timers' = [TimersIn(e) EXCEPT ![l] = {}]
          \/ wall' < until /\ timers' = [TimersIn(e) EXCEPT ![l] = {Handle(until, wall')}]
      BY <1>10, <2>1, <2>2 DEF Extend
    <2> HIDE DEF until
    <2>5. wall' < until => Handle(until, wall') \in Handles
      BY <2>1, <2>2, HandleIsOne
    <2> QED
      BY <2>1, <2>2, <2>3, <2>4, <2>5
  <1>11. CASE UNCHANGED vars
    BY <1>11, <1>0 DEF vars
  <1> QED
    BY <1>1, <1>2, <1>3, <1>4, <1>5, <1>6, <1>7, <1>8, <1>9, <1>10, <1>11
    DEF Next

\* Every step keeps the types.
LEMMA TypeStep == TypeOK /\ Ends /\ Known /\ [Next]_vars => TypeOK'
  <1> SUFFICES ASSUME TypeOK, Ends, Known, [Next]_vars
               PROVE  TypeOK'
    OBVIOUS
  <1>1. Fates /\ Times
    BY DEF TypeOK, Fates, Times, Handles
  <1>2. Fates' /\ Times'
    BY <1>1, FatesStep, TimesStep
  <1>3. steps' \in 0..MaxSteps
    BY DEF TypeOK, Next, vars, Tick, SetClock, RevokeAll, CreateSession, Microtask,
           CloseConnection, Wake, Release, CreateDuration, Extend
  <1>4. /\ kind' \in [LeaseIds -> {"none", "duration", "session"}]
        /\ closed' \subseteq LeaseIds /\ micro' \subseteq LeaseIds
    BY DEF TypeOK, Next, vars, Tick, SetClock, RevokeAll, CreateSession, Microtask,
           CloseConnection, Wake, Release, CreateDuration, Extend
  <1> QED
    BY <1>2, <1>3, <1>4 DEF TypeOK, Fates, Times, Handles

\* A lease keeps its regime, and only created ones are mapped or settled.
LEMMA KnownStep == TypeOK /\ Known /\ LiveTimers /\ [Next]_vars => Known'
  <1> SUFFICES ASSUME TypeOK, Known, LiveTimers, [Next]_vars
               PROVE  Known'
    OBVIOUS
  <1> kind \in [LeaseIds -> {"none", "duration", "session"}]
    BY DEF TypeOK
  <1> USE DEF Known
  <1>1. CASE Tick
    BY <1>1 DEF Tick, WallIn, TimersIn, Least
  <1>2. CASE SetClock
    BY <1>2 DEF SetClock
  <1>3. CASE RevokeAll
    BY <1>3 DEF RevokeAll
  <1>4. ASSUME NEW l \in LeaseIds, CreateSession(l)
       PROVE  Known'
    BY <1>4 DEF CreateSession
  <1>5. ASSUME NEW l \in LeaseIds, Microtask(l)
       PROVE  Known'
    BY <1>5 DEF Microtask, Settle
  <1>6. ASSUME NEW l \in LeaseIds, CloseConnection(l)
       PROVE  Known'
    BY <1>6 DEF CloseConnection, Settle
  <1>7. ASSUME NEW l \in LeaseIds, Wake(l)
       PROVE  Known'
    <2>1. UNCHANGED <<kind, micro, closed>>
      BY <1>7 DEF Wake
    <2>2. \/ UNCHANGED <<settled, mapped>>
          \/ settled' = settled \cup {l} /\ mapped' = mapped \ {l} /\ l \notin settled
      BY <1>7 DEF Wake, Settle
    <2>4. timers[l] # {}
      BY <1>7 DEF Wake
    <2>3. l \notin settled /\ timers[l] # {} => l \in mapped
      BY DEF LiveTimers
    <2> QED
      BY <2>1, <2>2, <2>3, <2>4
  <1>8. ASSUME NEW l \in LeaseIds, Release(l)
       PROVE  Known'
    BY <1>8 DEF Release, Settle
  <1>9. ASSUME NEW l \in LeaseIds, NEW d \in Durations, NEW e \in Delays, CreateDuration(l, d, e)
       PROVE  Known'
    BY <1>9 DEF CreateDuration
  <1>10. ASSUME NEW l \in LeaseIds, NEW d \in Durations, NEW e \in Delays, Extend(l, d, e)
       PROVE  Known'
    <2>1. /\ l \in mapped
          /\ \/ UNCHANGED <<settled, mapped>>
             \/ settled' = settled \cup {l} /\ mapped' = mapped \ {l}
      BY <1>10 DEF Extend, Settle
    <2>2. UNCHANGED <<kind, micro, closed>>
      BY <1>10 DEF Extend
    <2> QED
      BY <2>1, <2>2
  <1>11. CASE UNCHANGED vars
    BY <1>11 DEF vars
  <1> QED
    BY <1>1, <1>2, <1>3, <1>4, <1>5, <1>6, <1>7, <1>8, <1>9, <1>10, <1>11
    DEF Next

\* The lease of an extension or of a new duration is armed at its promise; the
\* others keep the timer they have.
LEMMA LiveStep == TypeOK /\ Known /\ LiveTimers /\ [Next]_vars => LiveTimers'
  <1> SUFFICES ASSUME TypeOK, Known, LiveTimers, [Next]_vars
               PROVE  LiveTimers'
    OBVIOUS
  <1> /\ timers \in [LeaseIds -> SUBSET Handles] /\ wall \in 0..MaxWall
      /\ deadline \in [LeaseIds -> 0..MaxWall] /\ promised \in [LeaseIds -> 0..MaxWall]
      /\ kind \in [LeaseIds -> {"none", "duration", "session"}]
    BY DEF TypeOK, Handles
  <1> Times
    BY DEF Times
  <1> USE DEF LiveTimers, Armed
  <1>1. CASE Tick
    <2>1. UNCHANGED <<mapped, settled, kind, deadline, promised>> /\ timers' = TimersIn(1)
      BY <1>1 DEF Tick
    <2>2. /\ \A m \in LeaseIds : timers[m] = {} => TimersIn(1)[m] = {}
          /\ \A m \in LeaseIds : \A h \in Handles : timers[m] = {h} =>
                 \E g \in Handles : TimersIn(1)[m] = {g} /\ g.aim = h.aim
      <3> 1 \in Nat
        OBVIOUS
      <3> QED
        BY TimePasses
    <2> QED
      BY <2>1, <2>2
  <1>2. CASE SetClock
    BY <1>2 DEF SetClock
  <1>3. CASE RevokeAll
    BY <1>3 DEF RevokeAll
  <1>4. ASSUME NEW l \in LeaseIds, CreateSession(l)
       PROVE  LiveTimers'
    BY <1>4 DEF CreateSession
  <1>5. ASSUME NEW l \in LeaseIds, Microtask(l)
       PROVE  LiveTimers'
    BY <1>5 DEF Microtask, Settle
  <1>6. ASSUME NEW l \in LeaseIds, CloseConnection(l)
       PROVE  LiveTimers'
    BY <1>6 DEF CloseConnection, Settle
  <1>7. ASSUME NEW l \in LeaseIds, Wake(l)
       PROVE  LiveTimers'
    <2>1. UNCHANGED <<kind, deadline, promised>>
      BY <1>7 DEF Wake
    <2>2. PICK h \in timers[l] :
              \/ /\ h.aim > wall
                 /\ timers' = [timers EXCEPT ![l] =
                                  (timers[l] \ {h}) \cup {Handle(h.aim, wall)}]
                 /\ UNCHANGED <<settled, mapped>>
              \/ /\ l \in settled /\ timers' = [timers EXCEPT ![l] = timers[l] \ {h}]
                 /\ UNCHANGED <<settled, mapped>>
              \/ /\ timers' = [timers EXCEPT ![l] = {}]
                 /\ settled' = settled \cup {l} /\ mapped' = mapped \ {l}
      BY <1>7 DEF Wake, Settle
    <2>3. h \in Handles /\ h.aim \in 0..MaxWall
      BY DEF Handles
    <2>4. h.aim > wall => Handle(h.aim, wall) \in Handles /\ Handle(h.aim, wall).aim = h.aim
      BY <2>3, HandleIsOne
    <2>5. ASSUME NEW m \in LeaseIds \ settled', m # l
          PROVE  /\ m \notin settled /\ timers'[m] = timers[m]
                 /\ m \in mapped' <=> m \in mapped
      BY <2>2, <2>5
    <2>6. ASSUME l \notin settled'
          PROVE  IF l \in mapped' /\ kind'[l] = "duration" THEN Armed(l)' ELSE timers'[l] = {}
      <3>1. l \notin settled /\ mapped' = mapped /\ h.aim > wall
            /\ timers'[l] = (timers[l] \ {h}) \cup {Handle(h.aim, wall)}
        BY <2>2, <2>6
      <3>2. l \in mapped /\ kind[l] = "duration" /\ timers[l] = {h} /\ h.aim = promised[l]
            /\ deadline[l] = promised[l]
        BY <2>2, <3>1
      <3>3. timers'[l] = {Handle(h.aim, wall)}
        BY <3>1, <3>2
      <3> QED
        BY <2>1, <2>4, <3>1, <3>2, <3>3
    <2> QED
      BY <2>1, <2>5, <2>6
  <1>8. ASSUME NEW l \in LeaseIds, Release(l)
       PROVE  LiveTimers'
    BY <1>8 DEF Release, Settle
  <1>9. ASSUME NEW l \in LeaseIds, NEW d \in Durations, NEW e \in Delays, CreateDuration(l, d, e)
       PROVE  LiveTimers'
    <2> DEFINE until == wall + d
    <2>1. wall' = WallIn(e) /\ wall' \in 0..MaxWall /\ TimersIn(e) \in [LeaseIds -> SUBSET Handles]
      BY <1>9, ClockReads, TimePasses DEF CreateDuration
    <2>2. until \in 0..MaxWall
      BY <1>9 DEF CreateDuration, Least
    <2>3. /\ deadline' = [deadline EXCEPT ![l] = until]
          /\ promised' = [promised EXCEPT ![l] = until]
      BY <1>9 DEF CreateDuration
    <2>4. \/ /\ l \in settled'
             /\ timers' = TimersIn(e) \/ timers' = [TimersIn(e) EXCEPT ![l] = {}]
          \/ wall' < until /\ timers' = [TimersIn(e) EXCEPT ![l] = {Handle(until, wall')}]
      BY <1>9, <2>1, <2>2 DEF CreateDuration
    <2>5. \A m \in LeaseIds : m # l =>
              /\ m \in settled' <=> m \in settled
              /\ m \in mapped' <=> m \in mapped
              /\ kind'[m] = kind[m]
      BY <1>9 DEF CreateDuration
    <2>6. l \notin settled' => l \in mapped' /\ kind'[l] = "duration"
      BY <1>9 DEF CreateDuration
    <2> HIDE DEF until
    <2>7. wall' < until => Handle(until, wall') \in Handles /\ Handle(until, wall').aim = until
      BY <2>1, <2>2, HandleIsOne
    <2>8. \A m \in LeaseIds : m # l =>
              timers'[m] = TimersIn(e)[m] /\ deadline'[m] = deadline[m]
              /\ promised'[m] = promised[m]
      BY <2>1, <2>3, <2>4
    <2>9. ASSUME NEW m \in LeaseIds \ settled', m # l
          PROVE  IF m \in mapped' /\ kind'[m] = "duration" THEN Armed(m)' ELSE timers'[m] = {}
      <3>1. /\ timers[m] = {} => TimersIn(e)[m] = {}
            /\ \A h \in Handles : timers[m] = {h} =>
                   \E g \in Handles : TimersIn(e)[m] = {g} /\ g.aim = h.aim
        <4> e \in Nat
          OBVIOUS
        <4> QED
          BY TimePasses
      <3> QED
        BY <2>5, <2>8, <2>9, <3>1
    <2>10. l \notin settled' => Armed(l)'
      <3> SUFFICES ASSUME l \notin settled' PROVE Armed(l)'
        OBVIOUS
      <3>1. timers'[l] = {Handle(until, wall')} /\ wall' < until
        BY <2>1, <2>4
      <3>2. deadline'[l] = until /\ promised'[l] = until
        BY <2>3
      <3> QED
        BY <3>1, <3>2, <2>7
    <2> QED
      BY <2>6, <2>9, <2>10
  <1>10. ASSUME NEW l \in LeaseIds, NEW d \in Durations, NEW e \in Delays, Extend(l, d, e)
       PROVE  LiveTimers'
    <2> DEFINE until == deadline[l] + Least(d, MaxExtend)
    <2>1. wall' = WallIn(e) /\ wall' \in 0..MaxWall /\ TimersIn(e) \in [LeaseIds -> SUBSET Handles]
      BY <1>10, ClockReads, TimePasses DEF Extend
    <2>2. until \in 0..MaxWall
      BY <1>10 DEF Extend, Least
    <2>3. /\ deadline' = [deadline EXCEPT ![l] = until]
          /\ promised' = [promised EXCEPT ![l] = until]
      BY <1>10 DEF Extend
    <2>4. \/ /\ l \in settled'
             /\ timers' = TimersIn(e) \/ timers' = [TimersIn(e) EXCEPT ![l] = {}]
          \/ wall' < until /\ timers' = [TimersIn(e) EXCEPT ![l] = {Handle(until, wall')}]
      BY <1>10, <2>1, <2>2 DEF Extend, Settle
    <2>5. \A m \in LeaseIds : m # l =>
              /\ m \in settled' <=> m \in settled
              /\ m \in mapped' <=> m \in mapped
              /\ kind'[m] = kind[m]
      BY <1>10 DEF Extend, Settle
    <2>6. l \notin settled' => l \in mapped' /\ kind'[l] = "duration"
      BY <1>10 DEF Extend, Settle
    <2> HIDE DEF until
    <2>7. wall' < until => Handle(until, wall') \in Handles /\ Handle(until, wall').aim = until
      BY <2>1, <2>2, HandleIsOne
    <2>8. \A m \in LeaseIds : m # l =>
              timers'[m] = TimersIn(e)[m] /\ deadline'[m] = deadline[m]
              /\ promised'[m] = promised[m]
      BY <2>1, <2>3, <2>4
    <2>9. ASSUME NEW m \in LeaseIds \ settled', m # l
          PROVE  IF m \in mapped' /\ kind'[m] = "duration" THEN Armed(m)' ELSE timers'[m] = {}
      <3>1. /\ timers[m] = {} => TimersIn(e)[m] = {}
            /\ \A h \in Handles : timers[m] = {h} =>
                   \E g \in Handles : TimersIn(e)[m] = {g} /\ g.aim = h.aim
        <4> e \in Nat
          OBVIOUS
        <4> QED
          BY TimePasses
      <3> QED
        BY <2>5, <2>8, <2>9, <3>1
    <2>10. l \notin settled' => Armed(l)'
      <3> SUFFICES ASSUME l \notin settled' PROVE Armed(l)'
        OBVIOUS
      <3>1. timers'[l] = {Handle(until, wall')} /\ wall' < until
        BY <2>1, <2>4
      <3>2. deadline'[l] = until /\ promised'[l] = until
        BY <2>3
      <3> QED
        BY <3>1, <3>2, <2>7
    <2> QED
      BY <2>6, <2>9, <2>10
  <1>11. CASE UNCHANGED vars
    BY <1>11 DEF vars
  <1> QED
    BY <1>1, <1>2, <1>3, <1>4, <1>5, <1>6, <1>7, <1>8, <1>9, <1>10, <1>11
    DEF Next

\* Every step keeps the inductive invariant.
LEMMA InvStep == IInv /\ [Next]_vars => IInv'
  <1>1. TypeOK => Fates
    BY DEF TypeOK, Fates
  <1> QED
    BY <1>1, TypeStep, FatesStep, KnownStep, LiveStep DEF IInv

\* The inductive invariant holds in every reachable state.
THEOREM Inductive == Spec => []IInv
  BY InvInit, InvStep, PTL DEF Spec

\* LeaseManager runs the onExpire hook of a sandbox at most once, and never
\* for a lease that revokeAll has dropped, however deadline, connection,
\* release and queued settlement race and whatever the clock does.
THEOREM HookRunsOnce == Spec => []KilledOnce
  <1>1. IInv => KilledOnce
    BY DEF IInv, Ends, KilledOnce
  <1> QED
    BY Inductive, <1>1, PTL

\* A timer ends a sandbox only once the deadline last promised to a client is
\* over, with extensions, delays beyond the cap of setTimeout and a clock that
\* is set back.
THEOREM DeadlinesAreKept == Spec => NotBeforeDeadline
  <1> DEFINE OnTime == \A l \in LeaseIds :
                 ended[l] = "none" /\ ended'[l] = "deadline" => wall' >= promised'[l]
  <1>1. IInv /\ [Next]_vars => [OnTime]_vars
    <2> SUFFICES ASSUME IInv, [Next]_vars PROVE OnTime
      OBVIOUS
    <2> /\ wall \in 0..MaxWall /\ LiveTimers /\ Ends /\ Known /\ Times
        /\ ended \in [LeaseIds -> {"none", "deadline", "closed", "released", "revoked"}]
        /\ deadline \in [LeaseIds -> 0..MaxWall] /\ promised \in [LeaseIds -> 0..MaxWall]
        /\ timers \in [LeaseIds -> SUBSET Handles]
      BY DEF IInv, TypeOK, Times, Handles
    <2>1. CASE Tick
      BY <2>1 DEF Tick, WallIn, TimersIn, Least
    <2>2. CASE SetClock
      BY <2>2 DEF SetClock
    <2>3. CASE RevokeAll
      BY <2>3 DEF RevokeAll
    <2>4. ASSUME NEW l \in LeaseIds, CreateSession(l)
         PROVE  OnTime
      BY <2>4 DEF CreateSession
    <2>5. ASSUME NEW l \in LeaseIds, Microtask(l)
         PROVE  OnTime
      BY <2>5 DEF Microtask, Settle
    <2>6. ASSUME NEW l \in LeaseIds, CloseConnection(l)
         PROVE  OnTime
      BY <2>6 DEF CloseConnection, Settle
    <2>7. ASSUME NEW l \in LeaseIds, Wake(l)
         PROVE  OnTime
      <3>1. UNCHANGED <<wall, promised>>
        BY <2>7 DEF Wake
      <3>2. PICK h \in timers[l] :
               \/ UNCHANGED ended
               \/ h.aim <= wall /\ l \notin settled /\ ended' = [ended EXCEPT ![l] = "deadline"]
        BY <2>7 DEF Wake, Settle, Handles
      <3>3. l \notin settled => h.aim = promised[l]
        BY <3>2 DEF LiveTimers, Armed
      <3> QED
        BY <3>1, <3>2, <3>3
    <2>8. ASSUME NEW l \in LeaseIds, Release(l)
         PROVE  OnTime
      BY <2>8 DEF Release, Settle
    <2>9. ASSUME NEW l \in LeaseIds, NEW d \in Durations, NEW e \in Delays, CreateDuration(l, d, e)
         PROVE  OnTime
      <3>1. wall' \in 0..MaxWall
        BY <2>9, ClockReads DEF CreateDuration
      <3>2. wall + d \in 0..MaxWall
        BY <2>9 DEF CreateDuration, Least
      <3>3. promised'[l] = wall + d
        BY <2>9 DEF CreateDuration
      <3>4. \/ wall' >= wall + d /\ ended' = [ended EXCEPT ![l] = "deadline"]
            \/ UNCHANGED ended
        BY <2>9 DEF CreateDuration
      <3> QED
        BY <3>1, <3>2, <3>3, <3>4
    <2>10. ASSUME NEW l \in LeaseIds, NEW d \in Durations, NEW e \in Delays, Extend(l, d, e)
         PROVE  OnTime
      <3>1. wall' \in 0..MaxWall
        BY <2>10, ClockReads DEF Extend
      <3>2. deadline[l] + Least(d, MaxExtend) \in 0..MaxWall
        BY <2>10 DEF Extend, Least
      <3>3. promised'[l] = deadline[l] + Least(d, MaxExtend)
        BY <2>10 DEF Extend
      <3>4. \/ wall' >= deadline[l] + Least(d, MaxExtend) /\ ended' = [ended EXCEPT ![l] = "deadline"]
            \/ UNCHANGED ended
        BY <2>10 DEF Extend, Settle
      <3> QED
        BY <3>1, <3>2, <3>3, <3>4
    <2>11. CASE UNCHANGED vars
      BY <2>11 DEF vars
    <2> QED
      BY <2>1, <2>2, <2>3, <2>4, <2>5, <2>6, <2>7, <2>8, <2>9, <2>10, <2>11
      DEF Next
  <1> QED
    BY Inductive, <1>1, PTL DEF Spec, NotBeforeDeadline

-----------------------------------------------------------------------------
\* With less time between two readings of the clock than any lease lasts, no
\* lease ends inside its own creation.
Settled == EntriesCanEnd /\ \A l \in settled : timers[l] = {}

\* A lease that has ended is out of the map and has no timer.
LEMMA SettledStep ==
  ASSUME \A d \in Durations, e \in Delays : e < d
  PROVE  IInv /\ Settled /\ [Next]_vars => Settled'
  <1> SUFFICES ASSUME IInv, Settled, [Next]_vars
               PROVE  Settled'
    OBVIOUS
  <1> /\ wall \in 0..MaxWall /\ LiveTimers /\ Known /\ Times
      /\ settled \subseteq LeaseIds /\ mapped \subseteq LeaseIds
      /\ kind \in [LeaseIds -> {"none", "duration", "session"}]
      /\ deadline \in [LeaseIds -> 0..MaxWall]
      /\ timers \in [LeaseIds -> SUBSET Handles]
    BY DEF IInv, TypeOK, Times, Handles
  <1> USE DEF Settled, EntriesCanEnd
  <1>1. CASE Tick
    <2>1. UNCHANGED <<mapped, settled>> /\ timers' = TimersIn(1)
      BY <1>1 DEF Tick
    <2> QED
      BY <2>1, TimePasses
  <1>2. CASE SetClock
    BY <1>2 DEF SetClock
  <1>3. CASE RevokeAll
    BY <1>3 DEF RevokeAll
  <1>4. ASSUME NEW l \in LeaseIds, CreateSession(l)
       PROVE  Settled'
    <2>1. l \notin settled
      BY <1>4 DEF CreateSession, Known
    <2> QED
      BY <1>4, <2>1 DEF CreateSession
  <1>5. ASSUME NEW l \in LeaseIds, Microtask(l)
       PROVE  Settled'
    <2>1. timers' = timers /\ kind[l] = "session"
      BY <1>5 DEF Microtask, Known
    <2>2. l \notin settled => timers[l] = {}
      BY <2>1 DEF LiveTimers
    <2> QED
      BY <1>5, <2>1, <2>2 DEF Microtask, Settle
  <1>6. ASSUME NEW l \in LeaseIds, CloseConnection(l)
       PROVE  Settled'
    <2>1. timers' = timers
      BY <1>6 DEF CloseConnection
    <2>2. kind[l] = "session" /\ l \notin settled => timers[l] = {}
      BY DEF LiveTimers
    <2> QED
      BY <1>6, <2>1, <2>2 DEF CloseConnection, Settle
  <1>7. ASSUME NEW l \in LeaseIds, Wake(l)
       PROVE  Settled'
    <2>1. \/ UNCHANGED <<settled, mapped>> /\ l \in settled
          \/ UNCHANGED <<settled, mapped>> /\ l \notin settled
             /\ \E s : timers' = [timers EXCEPT ![l] = s]
          \/ /\ timers' = [timers EXCEPT ![l] = {}]
             /\ settled' = settled \cup {l} /\ mapped' = mapped \ {l}
      BY <1>7 DEF Wake, Settle
    <2>2. l \notin settled
      BY <1>7 DEF Wake
    <2> QED
      BY <2>1, <2>2
  <1>8. ASSUME NEW l \in LeaseIds, Release(l)
       PROVE  Settled'
    BY <1>8 DEF Release, Settle
  <1>9. ASSUME NEW l \in LeaseIds, NEW d \in Durations, NEW e \in Delays, CreateDuration(l, d, e)
       PROVE  Settled'
    <2>1. e \in Nat /\ d \in Nat /\ e < d /\ wall + d <= MaxWall
      BY <1>9 DEF CreateDuration
    <2>2. wall' \in Nat /\ ~(wall' >= wall + d)
      <3>1. wall' = WallIn(e)
        BY <1>9 DEF CreateDuration
      <3>2. WallIn(e) \in Nat /\ WallIn(e) <= wall + e
        BY <2>1, ClockReads
      <3> QED
        BY <2>1, <3>1, <3>2
    <2>3. /\ settled' = settled /\ mapped' = mapped \cup {l}
          /\ timers' = [TimersIn(e) EXCEPT ![l] = {Handle(wall + d, wall')}]
      BY <1>9, <2>2 DEF CreateDuration
    <2>4. l \notin settled
      BY <1>9 DEF CreateDuration, Known
    <2>5. TimersIn(e) \in [LeaseIds -> SUBSET Handles] /\ \A m \in settled : TimersIn(e)[m] = {}
      BY <2>1, TimePasses
    <2> QED
      BY <2>3, <2>4, <2>5
  <1>10. ASSUME NEW l \in LeaseIds, NEW d \in Durations, NEW e \in Delays, Extend(l, d, e)
       PROVE  Settled'
    <2>1. l \in mapped /\ l \notin settled
      BY <1>10 DEF Extend
    <2>2. \/ /\ timers' = [TimersIn(e) EXCEPT ![l] = {}]
             /\ settled' = settled \cup {l} /\ mapped' = mapped \ {l}
          \/ /\ UNCHANGED <<settled, mapped>>
             /\ \E s : timers' = [TimersIn(e) EXCEPT ![l] = s]
      BY <1>10, <2>1 DEF Extend, Settle
    <2>3. \A m \in settled : TimersIn(e)[m] = {}
      BY TimePasses
    <2>4. TimersIn(e) \in [LeaseIds -> SUBSET Handles]
      BY TimePasses
    <2> QED
      BY <2>1, <2>2, <2>3, <2>4
  <1>11. CASE UNCHANGED vars
    BY <1>11 DEF vars
  <1> QED
    BY <1>1, <1>2, <1>3, <1>4, <1>5, <1>6, <1>7, <1>8, <1>9, <1>10, <1>11
    DEF Next

\* What is enforced is what was promised: a live duration lease has exactly one
\* timer, aimed at the deadline the last answer named, one that has ended has
\* none, and its hook runs once.
THEOREM LeasesEnforcedOnce ==
  ASSUME \A d \in Durations, e \in Delays : e < d
  PROVE  Spec => []EnforcedOnce
  <1>1. Init => Settled
    BY DEF Init, Settled, EntriesCanEnd
  <1>2. IInv /\ Settled /\ [Next]_vars => Settled'
    BY SettledStep
  <1>3. IInv /\ Settled => EnforcedOnce
    <2> SUFFICES ASSUME IInv, Settled PROVE EnforcedOnce
      OBVIOUS
    <2>1. KilledOnce
      BY DEF IInv, Ends, KilledOnce
    <2>2. OneTimerPerLease
      BY DEF IInv, LiveTimers, Armed, Settled, EntriesCanEnd, OneTimerPerLease, Live
    <2> QED
      BY <2>1, <2>2 DEF IInv, EnforcedOnce
  <1> QED
    BY Inductive, <1>1, <1>2, <1>3, PTL DEF Spec

-----------------------------------------------------------------------------
(***************************************************************************)
(* The lease manager implements the contract of a lease.                   *)
(***************************************************************************)
\* Every step is a step of the contract or changes nothing of it.
LEMMA ContractStep ==
  ASSUME \A d \in Durations, e \in Delays : e < d
  PROVE  IInv /\ Settled /\ [Next]_vars => [Contract!Next]_(Contract!contractVars)
  <1> DEFINE Goal == [Contract!Next]_(Contract!contractVars)
  <1> SUFFICES ASSUME IInv, Settled, [Next]_vars
               PROVE  Goal
    OBVIOUS
  <1> /\ wall \in 0..MaxWall /\ Ends /\ Known /\ LiveTimers /\ Settled
      /\ kind \in [LeaseIds -> {"none", "duration", "session"}]
      /\ mapped \subseteq LeaseIds /\ settled \subseteq LeaseIds
      /\ deadline \in [LeaseIds -> 0..MaxWall] /\ promised \in [LeaseIds -> 0..MaxWall]
      /\ kills \in [LeaseIds -> 0..2] /\ timers \in [LeaseIds -> SUBSET Handles]
      /\ ended \in [LeaseIds -> {"none", "deadline", "closed", "released", "revoked"}]
    BY DEF IInv, TypeOK, Handles
  <1>a. \A l \in LeaseIds : l \in mapped \ settled <=> Fate(l) = "live"
    BY DEF Ends, Known, Fate
  <1>b. \A l \in LeaseIds : kind[l] = "none" <=> Fate(l) = "none"
    BY DEF Fate
  <1>c. ASSUME NEW l \in LeaseIds, NEW cause \in {"deadline", "closed", "released"},
               Settle(l, cause), kind[l] # "none", UNCHANGED kind
        PROVE  Contract!Ends(l, cause)
    <2>1. Fate(l)' = cause /\ \A m \in LeaseIds : m # l => Fate(m)' = Fate(m)
      BY <1>c DEF Settle, Fate
    <2> QED
      BY <1>c, <2>1 DEF Settle, Contract!Ends
  <1>d. UNCHANGED <<ended, kind>> => \A m \in LeaseIds : Fate(m)' = Fate(m)
    BY DEF Fate
  <1>1. CASE Tick
    <2>1. wall' \in Nat
      BY <1>1, ClockReads DEF Tick
    <2>2. Contract!ClockMoves
      BY <1>1, <1>d, <2>1 DEF Tick, Contract!ClockMoves
    <2> QED
      BY <2>2 DEF Contract!Next
  <1>2. CASE SetClock
    <2>1. Contract!ClockMoves
      BY <1>2, <1>d DEF SetClock, Contract!ClockMoves
    <2> QED
      BY <2>1 DEF Contract!Next
  <1>3. CASE RevokeAll
    <2>1. \A m \in LeaseIds : Fate(m)' = IF Fate(m) = "live" THEN "revoked" ELSE Fate(m)
      BY <1>3, <1>a DEF RevokeAll, Fate, Known
    <2>2. Contract!Revokes
      BY <1>3, <2>1 DEF RevokeAll, Contract!Revokes
    <2> QED
      BY <2>2 DEF Contract!Next
  <1>4. ASSUME NEW l \in LeaseIds, CreateSession(l) PROVE Goal
    <2>1. ended[l] = "none"
      BY <1>4 DEF CreateSession, Ends, Known
    <2>2. Fate(l)' = "live" /\ \A m \in LeaseIds : m # l => Fate(m)' = Fate(m)
      BY <1>4, <2>1 DEF CreateSession, Fate
    <2>3. Contract!Admit(l)
      BY <1>4, <1>b, <2>2 DEF CreateSession, Contract!Admit, Contract!Starts
    <2> QED
      BY <2>3 DEF Contract!Next
  <1>5. ASSUME NEW l \in LeaseIds, Microtask(l) PROVE Goal
    <2>1. kind[l] = "session" /\ l \in closed /\ UNCHANGED <<wall, kind, promised, closed>>
      BY <1>5 DEF Microtask, Known
    <2>2. CASE l \in settled
      BY <1>5, <1>d, <2>1, <2>2 DEF Microtask, Contract!contractVars
    <2>3. CASE l \notin settled
      <3>1. Contract!Ends(l, "closed") /\ Fate(l) = "live"
        BY <1>5, <1>a, <1>c, <2>1, <2>3 DEF Microtask, Known
      <3>2. Contract!Notices(l)
        BY <2>1, <3>1 DEF Contract!Notices, Contract!Live
      <3> QED
        BY <3>2 DEF Contract!Next
    <2> QED
      BY <2>2, <2>3
  <1>6. ASSUME NEW l \in LeaseIds, CloseConnection(l) PROVE Goal
    <2>1. /\ l \notin closed /\ closed' = closed \cup {l}
          /\ UNCHANGED <<wall, kind, promised>>
      BY <1>6 DEF CloseConnection
    <2>2. CASE kind[l] = "session" /\ l \in mapped \ settled
      <3>1. Contract!Ends(l, "closed") /\ Fate(l) = "live"
        BY <1>6, <1>a, <1>c, <2>1, <2>2 DEF CloseConnection
      <3>2. Contract!Hangs(l)
        BY <2>1, <2>2, <3>1 DEF Contract!Hangs, Contract!Live
      <3> QED
        BY <3>2 DEF Contract!Next
    <2>3. CASE ~(kind[l] = "session" /\ l \in mapped \ settled)
      <3>1. /\ ~Contract!Live(l, "session")
            /\ UNCHANGED <<[m \in LeaseIds |-> Fate(m)], kills>>
        BY <1>6, <1>a, <1>d, <2>1, <2>3 DEF CloseConnection, Contract!Live
      <3>2. Contract!Hangs(l)
        BY <2>1, <3>1 DEF Contract!Hangs
      <3> QED
        BY <3>2 DEF Contract!Next
    <2> QED
      BY <2>2, <2>3
  <1>7. ASSUME NEW l \in LeaseIds, Wake(l) PROVE Goal
    <2>1. UNCHANGED <<wall, kind, promised, closed>>
      BY <1>7 DEF Wake
    <2>2. PICK h \in timers[l] :
             \/ UNCHANGED <<ended, kills>>
             \/ h.aim <= wall /\ l \notin settled /\ Settle(l, "deadline")
      BY <1>7 DEF Wake, Handles
    <2>3. CASE UNCHANGED <<ended, kills>>
      BY <1>d, <2>1, <2>3 DEF Contract!contractVars
    <2>4. CASE h.aim <= wall /\ l \notin settled /\ Settle(l, "deadline")
      <3>1. l \in mapped /\ kind[l] = "duration" /\ h.aim = promised[l]
        BY <2>2, <2>4 DEF LiveTimers, Armed
      <3>2. Contract!Ends(l, "deadline") /\ Fate(l) = "live"
        BY <1>a, <1>c, <2>1, <2>4, <3>1
      <3>3. Contract!Expires(l)
        BY <2>1, <2>4, <3>1, <3>2 DEF Contract!Expires, Contract!Live
      <3> QED
        BY <3>3 DEF Contract!Next
    <2> QED
      BY <2>2, <2>3, <2>4
  <1>8. ASSUME NEW l \in LeaseIds, Release(l) PROVE Goal
    <2>1. Contract!Ends(l, "released") /\ Fate(l) = "live"
      BY <1>8, <1>a, <1>c DEF Release, Known
    <2>2. Contract!Releases(l)
      BY <1>8, <2>1 DEF Release, Contract!Releases
    <2> QED
      BY <2>2 DEF Contract!Next
  <1>9. ASSUME NEW l \in LeaseIds, NEW d \in Durations, NEW e \in Delays, CreateDuration(l, d, e)
        PROVE  Goal
    <2>1. e \in Nat /\ d \in Nat /\ e < d /\ wall + d <= MaxWall /\ kind[l] = "none"
      BY <1>9 DEF CreateDuration
    <2>2. wall' \in Nat /\ wall' < wall + d
      <3>1. wall' = WallIn(e)
        BY <1>9 DEF CreateDuration
      <3>2. WallIn(e) \in Nat /\ WallIn(e) <= wall + e
        BY <2>1, ClockReads
      <3> QED
        BY <2>1, <3>1, <3>2
    <2>3. /\ promised' = [promised EXCEPT ![l] = wall + d] /\ UNCHANGED <<ended, kills, closed>>
          /\ kind' = [kind EXCEPT ![l] = "duration"]
      BY <1>9, <2>2 DEF CreateDuration
    <2>4. ended[l] = "none"
      BY <2>1 DEF Ends, Known
    <2>5. Fate(l)' = "live" /\ \A m \in LeaseIds : m # l => Fate(m)' = Fate(m)
      BY <2>3, <2>4 DEF Fate
    <2>6. promised'[l] = wall + d /\ promised'[l] > wall /\ promised'[l] > wall'
      BY <2>1, <2>2, <2>3
    <2>7. Contract!Promises(l, promised'[l])
      BY <2>3 DEF Contract!Promises
    <2>8. Contract!Starts(l, "duration")
      BY <1>b, <2>1, <2>3, <2>5 DEF Contract!Starts
    <2>9. Contract!Grant(l)
      BY <2>2, <2>6, <2>7, <2>8 DEF Contract!Grant
    <2> QED
      BY <2>9 DEF Contract!Next
  <1>10. ASSUME NEW l \in LeaseIds, NEW d \in Durations, NEW e \in Delays, Extend(l, d, e)
         PROVE  Goal
    <2> DEFINE u == deadline[l] + Least(d, MaxExtend)
    <2>1. l \in mapped /\ l \notin settled /\ kind[l] = "duration" /\ deadline[l] > wall
      BY <1>10 DEF Extend, Settled, EntriesCanEnd
    <2>2. deadline[l] = promised[l] /\ Fate(l) = "live"
      BY <1>a, <2>1 DEF LiveTimers, Armed
    <2>3. u \in promised[l] + 1 .. promised[l] + MaxExtend
      BY <2>2 DEF Least
    <2>4. wall' \in Nat
      BY <1>10, ClockReads DEF Extend
    <2>5. promised' = [promised EXCEPT ![l] = u] /\ UNCHANGED <<kind, closed>>
      BY <1>10 DEF Extend
    <2>6. \/ wall' >= u /\ Settle(l, "deadline")
          \/ ~(wall' >= u) /\ UNCHANGED <<ended, kills>>
      BY <1>10, <2>1 DEF Extend
    <2> HIDE DEF u
    <2>7. promised'[l] = u /\ Contract!Promises(l, promised'[l])
      BY <2>5 DEF Contract!Promises
    <2>8. u \in Nat
      BY <2>3
    <2>9. IF promised'[l] <= wall' THEN Contract!Ends(l, "deadline")
          ELSE UNCHANGED <<[m \in LeaseIds |-> Fate(m)], kills>>
      BY <1>c, <1>d, <2>1, <2>4, <2>5, <2>6, <2>7, <2>8
    <2>10. Contract!Extends(l)
      BY <2>1, <2>2, <2>3, <2>4, <2>5, <2>7, <2>9 DEF Contract!Extends, Contract!Live
    <2> QED
      BY <2>10 DEF Contract!Next
  <1>11. CASE UNCHANGED vars
    BY <1>11, <1>d DEF vars, Contract!contractVars
  <1> HIDE DEF Goal
  <1> QED
    BY <1>1, <1>2, <1>3, <1>4, <1>5, <1>6, <1>7, <1>8, <1>9, <1>10, <1>11
    DEF Next

\* LeaseManager keeps the contract of a lease, for any number of leases, any
\* durations, any cap on a timer's delay and a clock that is set: each ends once,
\* for a reason of its regime, with its hook; none before the deadline last
\* promised.  As above, less time passes inside a call than a lease lasts.
THEOREM LeasesKeepContract ==
  ASSUME \A d \in Durations, e \in Delays : e < d
  PROVE  Spec => KeepsContract
  <1>1. Init => Settled
    BY DEF Init, Settled, EntriesCanEnd
  <1>2. IInv /\ Settled /\ [Next]_vars => Settled'
    BY SettledStep
  <1>3. Init => Contract!Init
    BY DEF Init, Fate, Contract!Init
  <1>4. IInv /\ Settled /\ [Next]_vars => [Contract!Next]_(Contract!contractVars)
    BY ContractStep
  <1> QED
    BY Inductive, <1>1, <1>2, <1>3, <1>4, PTL DEF Spec, KeepsContract, Contract!Spec
=============================================================================
