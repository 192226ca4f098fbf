---------------------------- MODULE MCFavorites ----------------------------
(***************************************************************************)
(* Three stations for two slots; a catalogue in which one is gone and one  *)
(* has changed; a list of an earlier version, with an entry twice and one  *)
(* without its station.                                                    *)
(***************************************************************************)
EXTENDS Favorites, TLC

CONSTANTS r1, r2, a, b, c, v1, v2

MCCatalogues == {[s \in {a, b, c} |-> v1], [s \in {a, c} |-> IF s = a THEN v2 ELSE v1]}

MCStored == {<<[id |-> b, station |-> None], [id |-> a, station |-> v1],
               [id |-> a, station |-> v2]>>}

MCSymmetry == Permutations(Slots)

\* Where no request is left and the clock stands, the model stops.
AtRest ==
    /\ clock = MaxClock
    /\ arrivals = MaxArrivals
    /\ \A r \in Slots : req[r].pc \notin Working
    /\ UNCHANGED vars

MCSpec == Init /\ [][Next \/ AtRest]_vars
=============================================================================
