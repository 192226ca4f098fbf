--------------------------- MODULE FavoritesList ---------------------------
(***************************************************************************)
(* What the favourites promise a client that asks for one thing at a time: *)
(* a list of a few stations in the client's order, which lives as long as  *)
(* it is used.                                                             *)
(***************************************************************************)
EXTENDS Integers, Sequences, Lists

CONSTANTS
    Stations,
    None,
    MaxFavorites,
    Lifetime    \* how long a list lives that is not used

VARIABLES
    clock,
    list,
    used,       \* when the list was used last
    asked,      \* what the client asks for: op, id and slot
    answer      \* "none" until the client is answered

vars == <<clock, list, used, asked, answer>>

Questions == [op : {"get", "delete", "put"}, id : Stations \cup {None},
              slot : 0 .. MaxFavorites - 1 \cup {None}]

Init ==
    /\ clock = 0 /\ list = <<>> /\ used = -Lifetime
    /\ asked = [op |-> None, id |-> None, slot |-> None]
    /\ answer = "idle"

Ask ==
    /\ answer # "none"
    /\ asked' \in Questions
    /\ answer' = "none"
    /\ UNCHANGED <<clock, list, used>>

\* The list, or nothing if it lapses now.
Remaining == {list} \cup (IF clock >= used + Lifetime THEN {<<>>} ELSE {})

Others(old, id) == Pick(old, {i \in DOMAIN old : old[i] # id})

\* Whether there is no place for id: all slots are filled, and it is not asked
\* to take one of them.
NoPlace(old, id, slot) ==
    /\ Len(Others(old, id)) >= MaxFavorites
    /\ slot # None => slot >= Len(Others(old, id))

\* id in its slot, or at the end; the others keep their order, and the last one
\* goes if all slots were filled.
Placed(old, id, slot) ==
    LET others == Others(old, id)
        size   == IF Len(others) < MaxFavorites THEN Len(others) + 1 ELSE MaxFavorites
        at     == IF slot = None \/ slot > Len(others) THEN Len(others) + 1 ELSE slot + 1
    IN  [i \in 1 .. size |-> IF i < at THEN others[i]
                             ELSE IF i = at THEN id ELSE others[i - 1]]

\* The client is answered; an empty list need not be remembered as used.
Serve ==
    /\ answer = "none"
    /\ answer' = "answered"
    /\ \E old \in Remaining :
          /\ list' = CASE asked.op = "get"    -> old
                       [] asked.op = "delete" -> Others(old, asked.id)
                       [] asked.op = "put"    -> Placed(old, asked.id, asked.slot)
          /\ asked.op = "put" => ~NoPlace(old, asked.id, asked.slot)
          /\ used' = clock \/ (old = <<>> /\ asked.op # "put" /\ used' = used)
    /\ UNCHANGED <<clock, asked>>

Refuse ==
    /\ answer = "none"
    /\ asked.op = "put" /\ NoPlace(list, asked.id, asked.slot)
    /\ answer' = "refused"
    /\ UNCHANGED <<clock, list, used, asked>>

\* An error: what the client asked for is done or it is not.
Fail ==
    /\ answer = "none"
    /\ answer' = "failed"
    /\ \/ list' \in Remaining /\ used' = used
       \/ ~(asked.op = "put" /\ NoPlace(list, asked.id, asked.slot)) /\ used' = clock
          /\ list' = CASE asked.op = "get"    -> list
                       [] asked.op = "delete" -> Others(list, asked.id)
                       [] asked.op = "put"    -> Placed(list, asked.id, asked.slot)
    /\ UNCHANGED <<clock, asked>>

\* Time passes, and a list lapses that was not used for its lifetime.
Tick ==
    /\ clock' = clock + 1
    /\ list' = list \/ (clock' >= used + Lifetime /\ list' = <<>>)
    /\ UNCHANGED <<used, asked, answer>>

Next == Ask \/ Serve \/ Refuse \/ Fail \/ Tick

Spec == Init /\ [][Next]_vars
=============================================================================
