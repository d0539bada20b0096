--------------------------- MODULE LeaseContract ---------------------------
(***************************************************************************)
(* What a lease is to hostd and to its client, without timers, maps and    *)
(* queues.  A duration lease outlives its connection and ends at the       *)
(* deadline last promised, which only an extension moves, forward and      *)
(* before it is over.  A session lease ends with its connection.  Either   *)
(* may be released, and the one hook runs in the step that ends it; a      *)
(* revocation drops what is live, without it.                              *)
(***************************************************************************)
EXTENDS Naturals

CONSTANTS LeaseIds,
          MaxExtend     \* the most one extension adds

VARIABLES now,      \* the host's clock, which may be set
          regime,   \* none | duration | session
          fate,     \* none | live | deadline | closed | released | revoked
          until,    \* the deadline last promised
          gone,     \* leases whose connection is closed
          hooks     \* how often the hook ran

contractVars == <<now, regime, fate, until, gone, hooks>>

Init ==
    /\ now = 0 /\ gone = {}
    /\ regime = [l \in LeaseIds |-> "none"] /\ fate = [l \in LeaseIds |-> "none"]
    /\ until = [l \in LeaseIds |-> 0] /\ hooks = [l \in LeaseIds |-> 0]

Live(l, r) == fate[l] = "live" /\ regime[l] = r

Ends(l, cause) ==
    /\ fate' = [fate EXCEPT ![l] = cause]
    /\ hooks' = [hooks EXCEPT ![l] = @ + 1]

\* The deadline of l, and of no other lease, is u.
Promises(l, u) == until' = [until EXCEPT ![l] = u]

\* Time passes, or the clock is set.
ClockMoves == now' \in Nat /\ UNCHANGED <<regime, fate, until, gone, hooks>>

Starts(l, r) ==
    /\ fate[l] = "none"
    /\ fate' = [fate EXCEPT ![l] = "live"] /\ regime' = [regime EXCEPT ![l] = r]
    /\ UNCHANGED <<gone, hooks>>

\* The deadline is ahead when the lease starts, and still when it is known.
Grant(l) ==
    /\ Starts(l, "duration") /\ now' \in Nat
    /\ until'[l] > now /\ until'[l] > now' /\ Promises(l, until'[l])

Admit(l) == Starts(l, "session") /\ UNCHANGED <<now, until>>

\* The connection closes, and a session lease with it,
Hangs(l) ==
    /\ l \notin gone /\ gone' = gone \cup {l}
    /\ IF Live(l, "session") THEN Ends(l, "closed") ELSE UNCHANGED <<fate, hooks>>
    /\ UNCHANGED <<now, regime, until>>

\* or soon after it started, when the connection was already closed.
Notices(l) ==
    /\ l \in gone /\ Live(l, "session") /\ Ends(l, "closed")
    /\ UNCHANGED <<now, regime, until, gone>>

Expires(l) ==
    /\ Live(l, "duration") /\ until[l] <= now /\ Ends(l, "deadline")
    /\ UNCHANGED <<now, regime, until, gone>>

\* Refused once the deadline is over; time may pass until it is in place.
Extends(l) ==
    /\ Live(l, "duration") /\ until[l] > now /\ now' \in Nat
    /\ until'[l] \in until[l] + 1 .. until[l] + MaxExtend /\ Promises(l, until'[l])
    /\ IF until'[l] <= now' THEN Ends(l, "deadline") ELSE UNCHANGED <<fate, hooks>>
    /\ UNCHANGED <<regime, gone>>

Releases(l) ==
    /\ fate[l] = "live" /\ Ends(l, "released")
    /\ UNCHANGED <<now, regime, until, gone>>

Revokes ==
    /\ fate' = [l \in LeaseIds |-> IF fate[l] = "live" THEN "revoked" ELSE fate[l]]
    /\ UNCHANGED <<now, regime, until, gone, hooks>>

Next ==
    \/ ClockMoves \/ Revokes
    \/ \E l \in LeaseIds : \/ Grant(l) \/ Admit(l) \/ Hangs(l) \/ Notices(l)
                           \/ Expires(l) \/ Extends(l) \/ Releases(l)

Spec == Init /\ [][Next]_contractVars
=============================================================================
