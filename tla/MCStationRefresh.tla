--------------------------- MODULE MCStationRefresh ---------------------------
(***************************************************************************)
(* Two processes of the service: p1 with two tasks, p2 with one, or p1     *)
(* alone.  Upstream lists one or two stations.                             *)
(***************************************************************************)
EXTENDS StationRefresh, TLC

CONSTANTS p1, p2, t1, t2, t3, a, b

MCProcOf == [t \in Tasks |-> IF t = t3 THEN p2 ELSE p1]
MCListings == {{a}, {a, b}}
MCListing1 == {{a}}

\* The two tasks of p1 are alike.
MCSymmetry == Permutations({t1, t2})

\* Every request is answered and no more will come: the service rests.
AtRest ==
    /\ \A t \in Tasks : pc[t] = "idle"
    /\ requests = MaxRequests
    /\ UNCHANGED vars

\* The same behaviours as Spec; any other state without a step is a deadlock.
MCSpec == Init /\ [][Next \/ AtRest]_vars
MCFairSpec == MCSpec /\ Fairness
=============================================================================
