------------------------------- MODULE Lists -------------------------------
(***************************************************************************)
(* Lists that are filtered, by the places that remain.  A condition that   *)
(* is given as a set can be reasoned about; that of SelectSeq cannot.      *)
(***************************************************************************)
EXTENDS Integers, Sequences, FiniteSets

\* The places of a list, as a function from the numbers 1 .. Cardinality(places).
InOrder(places) ==
    CHOOSE f \in [1 .. Cardinality(places) -> places] :
        \A i, j \in 1 .. Cardinality(places) : i < j => f[i] < f[j]

\* What a list has in these places, in its order.
Pick(list, places) ==
    LET place == InOrder(places)
    IN  [k \in 1 .. Cardinality(places) |-> list[place[k]]]

\* What a list has of a set, as often as it has it: Vec::retain.
Only(list, wanted) == Pick(list, {i \in DOMAIN list : list[i] \in wanted})
=============================================================================
