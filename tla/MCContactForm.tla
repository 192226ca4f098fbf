--------------------------- MODULE MCContactForm ---------------------------
(***************************************************************************)
(* Two requests at a time, three in all, of one address or of none.        *)
(***************************************************************************)
EXTENDS ContactForm, TLC

CONSTANTS r1, r2, ip1, m1, k1, k2

\* The slots, the messages and the tokens differ by name only.
MCSymmetry ==
    Permutations(Slots) \cup Permutations(Messages) \cup Permutations(Tokens)

\* Where no request is left and the clock stands, the model stops.
AtRest ==
    /\ clock = MaxTime
    /\ arrivals = MaxRequests
    /\ \A r \in Slots : req[r].pc \notin Working
    /\ UNCHANGED vars

MCSpec == Init /\ [][Next \/ AtRest]_vars
=============================================================================
