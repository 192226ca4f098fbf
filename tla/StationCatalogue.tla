-------------------------- MODULE StationCatalogue --------------------------
(***************************************************************************)
(* What the service promises about its stored catalogue, the processes,    *)
(* the locks, the caches and the queries left out: one refresh at a time,  *)
(* which replaces the catalogue at most once, whole and visibly.  One that *)
(* is cut short may still do so afterwards, but before the next one does.  *)
(***************************************************************************)
EXTENDS Integers

CONSTANTS
    Refreshers,     \* what may run a refresh
    None,           \* no refresher
    Listings        \* the listings upstream may return

VARIABLES
    version,        \* moves with every refresh that succeeds
    fp,             \* the listing the catalogue was made from, {} if none
    rows,           \* the stations of the catalogue
    refresher,      \* who is refreshing
    done,           \* the refresher has stored its result
    late            \* a refresh that was cut short may yet store its result

vars == <<version, fp, rows, refresher, done, late>>

Init ==
    /\ version = 1
    /\ fp \in Listings \cup {{}}
    /\ rows \in SUBSET fp
    /\ refresher = None
    /\ done = FALSE
    /\ late = FALSE

\* The version moves.  The listing is the one the catalogue was made from, and
\* nothing else changes, or those of its stations that work replace the catalogue.
Store ==
    /\ version' = version + 1
    /\ \/ UNCHANGED <<fp, rows>>
       \/ \E listing \in Listings :
             /\ listing # fp
             /\ fp' = listing
             /\ rows' \in SUBSET listing

Start(r) ==
    /\ refresher = None
    /\ refresher' = r
    /\ UNCHANGED <<version, fp, rows, done, late>>

Finish ==
    /\ refresher # None
    /\ ~done
    /\ ~late
    /\ Store
    /\ done' = TRUE
    /\ UNCHANGED <<refresher, late>>

\* The refresh returns, fails or dies with its process.
End ==
    /\ refresher # None
    /\ refresher' = None
    /\ done' = FALSE
    /\ late' \in {late, late \/ ~done}
    /\ UNCHANGED <<version, fp, rows>>

Land ==
    /\ late
    /\ Store
    /\ late' = FALSE
    /\ UNCHANGED <<refresher, done>>

Next ==
    \/ \E r \in Refreshers : Start(r)
    \/ Finish
    \/ End
    \/ Land

Spec == Init /\ [][Next]_vars
=============================================================================
