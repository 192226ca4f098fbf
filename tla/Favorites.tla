----------------------------- MODULE Favorites -----------------------------
(***************************************************************************)
(* The favourites of one client (radio-service-rs: favorites.rs and the    *)
(* favourites' handlers of http.rs): a row that each request reads and     *)
(* later writes back whole, in two statements without a transaction.       *)
(* Lists of different clients share nothing.                               *)
(***************************************************************************)
EXTENDS Integers, SequencesExt, Lists

CONSTANTS
    Slots,          \* request slots
    Stations,       \* station ids
    Catalogues,     \* what load_stations may answer: from ids to stations
    Stored,         \* the lists an earlier version may have stored
    None,           \* no id, no slot, no station
    MaxFavorites,   \* MAX_FAVORITES
    Lifetime,       \* FAVORITES_TTL_SECONDS
    MaxArrivals,    \* bound: requests in all
    MaxClock         \* bound: the time at which the clock stops

ASSUME NoneAssumption == None \notin Stations \cup Int
ASSUME SlotsAssumption == Slots # {}
ASSUME SizesAssumption ==
    /\ MaxFavorites \in Nat \ {0}
    /\ Lifetime \in Nat \ {0}
    /\ MaxArrivals \in Nat
    /\ MaxClock \in Nat

VARIABLES
    clock,      \* the database's clock
    row,        \* the row of radio_favorites; expires = 0 if there is none
    req,        \* the request of each slot
    \* not in the code
    arrivals,   \* how many requests have arrived
    writes,     \* how often the row was written
    saved,      \* the stations that were put and have not been given up
    solo        \* whether the client is new and sends one request at a time

vars == <<clock, row, req, arrivals, writes, saved, solo>>

Snapshots == UNION {Range(catalogue) : catalogue \in Catalogues} \cup {None}

Entry == [id : Stations, station : Snapshots]

ASSUME StoredAssumption == Stored \subseteq Seq(Entry)
ASSUME CataloguesAssumption ==
    \A catalogue \in Catalogues : DOMAIN catalogue \subseteq Stations /\ None \notin Range(catalogue)

Working == {"read", "write", "touch"}

Ids(entries) == {entries[i].id : i \in DOMAIN entries}

Live == row.expires > clock

-----------------------------------------------------------------------------
(* Requests *)

\* seen: the writes before its read; found: whether it read a live row.
Idle == [pc |-> "idle", op |-> None, id |-> None, slot |-> None, catalogue |-> <<>>,
         entries |-> <<>>, seen |-> 0, found |-> FALSE]

Init ==
    /\ clock = 0
    /\ solo \in BOOLEAN
    /\ row \in (IF solo THEN {} ELSE [entries : Stored, expires : {Lifetime}]) \cup
              {[entries |-> <<>>, expires |-> 0]}
    /\ req = [r \in Slots |-> Idle]
    /\ arrivals = 0
    /\ writes = 0
    /\ saved = {}

\* A request that passed its checks and has loaded a catalogue: of which age is
\* the station catalogue's matter.
Arrive(r, op, id, slot, catalogue) ==
    /\ req[r].pc \notin Working
    /\ solo => \A s \in Slots \ {r} : req[s] = Idle
    /\ arrivals < MaxArrivals
    /\ arrivals' = arrivals + 1
    /\ op = "get" <=> id = None
    /\ slot # None => op = "put" /\ slot < MaxFavorites
    /\ op = "put" => id \in DOMAIN catalogue
    /\ req' = [req EXCEPT ![r] = [Idle EXCEPT !.pc = "read", !.op = op, !.id = id, !.slot = slot,
                                              !.catalogue = catalogue]]
    /\ UNCHANGED <<clock, row, writes, saved, solo>>

\* The request ends; what it asked for stays to be seen.
End(r, pc) ==
    req' = [req EXCEPT ![r] = [Idle EXCEPT !.pc = pc, !.op = req[r].op, !.id = req[r].id,
                                           !.slot = req[r].slot]]

-----------------------------------------------------------------------------
(* dedupe_entries, build_favorites_response *)

Taken(entries) ==
    SubSeq(entries, 1, IF Len(entries) < MaxFavorites THEN Len(entries) ELSE MaxFavorites)

\* The first entry of each station; the loop ends with the last slot.
Deduped(entries) ==
    Taken(Pick(entries, {i \in DOMAIN entries : \A j \in 1 .. i - 1 : entries[j].id # entries[i].id}))

\* An entry with its station of the catalogue, or as it was when the station
\* left the catalogue.
Updated(e, catalogue) ==
    IF e.id \in DOMAIN catalogue THEN [e EXCEPT !.station = catalogue[e.id]] ELSE e

\* Mutant: one that never had a station stays.
BuiltOfAll(entries, catalogue) ==
    LET kept == Taken(entries)
    IN  [i \in DOMAIN kept |-> Updated(kept[i], catalogue)]

\* Mutant: a favourite whose station left the catalogue is left out.
BuiltOfCatalogue(entries, catalogue) ==
    LET kept == Pick(entries, {i \in DOMAIN entries : entries[i].id \in DOMAIN catalogue})
    IN  [i \in DOMAIN kept |-> Updated(kept[i], catalogue)]

\* The entries that have a station, now or earlier, brought up to date.
Built(entries, catalogue) ==
    LET taken == Taken(entries)
        kept  == Pick(taken, {i \in DOMAIN taken :
                                 taken[i].id \in DOMAIN catalogue \/ taken[i].station # None})
    IN  [i \in DOMAIN kept |-> Updated(kept[i], catalogue)]

Changed(entries, catalogue) ==
    \E i \in DOMAIN entries :
        /\ entries[i].id \in DOMAIN catalogue
        /\ entries[i].station # catalogue[entries[i].id]

Without(entries, id) == Pick(entries, {i \in DOMAIN entries : entries[i].id # id})

\* Mutant: the slot counts only where the list ends.
InsertedLast(entries, q) == Append(entries, [id |-> q.id, station |-> q.catalogue[q.id]])

Inserted(entries, q) ==
    LET entry == [id |-> q.id, station |-> q.catalogue[q.id]]
    IN  IF q.slot # None /\ q.slot < Len(entries)
        THEN InsertAt(entries, q.slot + 1, entry) ELSE Append(entries, entry)

-----------------------------------------------------------------------------
(* The read, and what follows without an await *)

Found == IF Live THEN Deduped(row.entries) ELSE <<>>

Continue(r, pc, entries) ==
    /\ req' = [req EXCEPT ![r].pc = pc, ![r].entries = entries,
                          ![r].seen = writes, ![r].found = Live]
    /\ UNCHANGED <<clock, row, arrivals, writes, saved, solo>>

\* get_favorites
ReadToShow(r) ==
    LET q == req[r] IN
    /\ q.pc = "read" /\ q.op = "get"
    /\ IF Changed(Found, q.catalogue)
       THEN Continue(r, "write", Built(Found, q.catalogue))
       ELSE Continue(r, "touch", <<>>)

\* upsert_favorite
ReadToPut(r) ==
    LET q      == req[r]
        others == Without(Found, q.id)
    IN  /\ q.pc = "read" /\ q.op = "put"
        /\ Len(others) < MaxFavorites \/ (q.slot # None /\ q.slot < Len(others))
        /\ Continue(r, "write", Built(Deduped(Inserted(others, q)), q.catalogue))

RefuseToPut(r) ==
    LET q      == req[r]
        others == Without(Found, q.id)
    IN  /\ q.pc = "read" /\ q.op = "put"
        /\ Len(others) >= MaxFavorites
        /\ q.slot # None => q.slot >= Len(others)
        /\ End(r, "refused")
        /\ UNCHANGED <<clock, row, arrivals, writes, saved, solo>>

\* delete_favorite
ReadToDelete(r) ==
    LET q    == req[r]
        next == Without(Found, q.id)
    IN  /\ q.pc = "read" /\ q.op = "delete"
        /\ IF Changed(next, q.catalogue) \/ q.id \in Ids(Found)
           THEN Continue(r, "write", Built(next, q.catalogue))
           ELSE Continue(r, "touch", <<>>)

-----------------------------------------------------------------------------
(* The second statement *)

\* What a write gives up: what it deletes, the last one of a full list, and, if
\* it writes back a list that is no longer the stored one, whatever that is.
GivenUp(r) ==
    LET q      == req[r]
        others == Without(Deduped(row.entries), q.id)
    IN  IF q.seen # writes \/ ~q.found THEN saved \ Ids(q.entries)
        ELSE IF q.op = "delete" THEN {q.id}
        ELSE IF q.op = "put" /\ Len(others) >= MaxFavorites THEN {Last(others).id}
        ELSE {}

Stores(r) ==
    /\ row' = [entries |-> req[r].entries, expires |-> clock + Lifetime]
    /\ writes' = writes + 1
    /\ saved' = (saved \ GivenUp(r)) \cup (IF req[r].op = "put" THEN {req[r].id} ELSE {})

Write(r) ==
    /\ req[r].pc = "write"
    /\ Stores(r)
    /\ End(r, "answered")
    /\ UNCHANGED <<clock, arrivals, solo>>

\* refresh_ttl
Touch(r) ==
    /\ req[r].pc = "touch"
    /\ row' = IF Live THEN [row EXCEPT !.expires = clock + Lifetime] ELSE row
    /\ End(r, "answered")
    /\ UNCHANGED <<clock, arrivals, writes, saved, solo>>

\* The statement fails, or the client has left, before the effect or after it.
Fail(r) ==
    /\ req[r].pc \in Working
    /\ \/ UNCHANGED <<row, writes, saved>>
       \/ req[r].pc = "write" /\ Stores(r)
       \/ /\ req[r].pc = "touch" /\ Live
          /\ row' = [row EXCEPT !.expires = clock + Lifetime]
          /\ UNCHANGED <<writes, saved>>
    /\ End(r, "failed")
    /\ UNCHANGED <<clock, arrivals, solo>>

Tick ==
    /\ clock < MaxClock
    /\ clock' = clock + 1
    /\ UNCHANGED <<row, req, arrivals, writes, saved, solo>>

Step(r) ==
    \/ \E op \in {"get", "put", "delete"}, id \in Stations \cup {None},
          slot \in 0 .. MaxFavorites - 1 \cup {None}, catalogue \in Catalogues :
          Arrive(r, op, id, slot, catalogue)
    \/ ReadToShow(r)
    \/ ReadToPut(r)
    \/ RefuseToPut(r)
    \/ ReadToDelete(r)
    \/ Write(r)
    \/ Touch(r)
    \/ Fail(r)

Next == Tick \/ \E r \in Slots : Step(r)

Spec == Init /\ [][Next]_vars

-----------------------------------------------------------------------------
(* Properties *)

TypeOK ==
    /\ clock \in Nat
    /\ row \in [entries : Seq(Entry), expires : Nat]
    /\ \A r \in Slots :
          /\ req[r].pc \in {"idle", "answered", "refused", "failed"} \cup Working
          /\ req[r].op \in {"get", "put", "delete", None}
          /\ req[r].entries \in Seq(Entry)
          /\ req[r].pc = "write" => Len(req[r].entries) <= MaxFavorites
    /\ arrivals \in Nat
    /\ writes \in Nat
    /\ saved \subseteq Stations

\* What is stored can be shown: no station twice, none more than there are
\* slots for, none without its data, whatever an earlier version had stored.
ListIsWhole ==
    writes > 0 =>
        /\ Len(row.entries) <= MaxFavorites
        /\ IsInjective([i \in DOMAIN row.entries |-> row.entries[i].id])
        /\ \A i \in DOMAIN row.entries : row.entries[i].station # None

\* A favourite is given up only by a deletion, by a list without room, by its
\* lifetime or by a request that overlaps another: not by a station that
\* leaves the catalogue, nor by a change of its data.
SavedIsKept == Live => saved \subseteq Ids(row.entries)

\* The one slot such a client uses.
TheSlot == CHOOSE r \in Slots : req[r] # Idle \/ \A s \in Slots : req[s] = Idle

\* What such a client sees.  Its list is the stored one, while that lives or a
\* request is at work that read it alive.
PromisedClock == IF solo THEN clock ELSE 0
PromisedList ==
    IF solo /\ (Live \/ (req[TheSlot].pc \in {"write", "touch"} /\ req[TheSlot].found))
    THEN [i \in DOMAIN row.entries |-> row.entries[i].id] ELSE <<>>
PromisedUse == IF solo THEN row.expires - Lifetime ELSE -Lifetime
PromisedQuestion ==
    IF solo THEN [op |-> req[TheSlot].op, id |-> req[TheSlot].id, slot |-> req[TheSlot].slot]
    ELSE [op |-> None, id |-> None, slot |-> None]
PromisedAnswer ==
    IF ~solo THEN "idle" ELSE IF req[TheSlot].pc \in Working THEN "none" ELSE req[TheSlot].pc

\* What a client is promised that sends one request at a time.
Promise == INSTANCE FavoritesList WITH
    clock <- PromisedClock, list <- PromisedList, used <- PromisedUse,
    asked <- PromisedQuestion, answer <- PromisedAnswer

\* A client that sends one request at a time, each when the statements of the
\* last are over, has the list it asked for, and is told so.  A list that lapses
\* while its request is at work lapses with the request's end.
ImplementsList == Promise!Spec
=============================================================================
