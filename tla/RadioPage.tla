----------------------------- MODULE RadioPage -----------------------------
(***************************************************************************)
(* The radio page of the frontend (dioxus-app: radio.rs): the filters and  *)
(* the debounced search, the list that is fetched page by page, and the    *)
(* station that is tuned in.  Nothing cancels a request: its answer is     *)
(* stored whenever it comes.                                               *)
(*                                                                         *)
(* Setting a signal makes the effects that read it run before the next     *)
(* event: an action contains them.                                         *)
(***************************************************************************)
EXTENDS StationsQuery

CONSTANTS
    Searches,      \* what may be typed in the search box
    Countries,     \* what may be chosen from the two lists
    Genres,
    Hls,           \* the stations that are played by hls.js, a subset of Indexes
    PageSize,      \* PAGE_SIZE
    MaxAttempts,   \* attempts of fetch_station_page
    Nothing,       \* no station, no timer, no page
    Slots          \* bound of the model: requests for lists, one slot each

ASSUME PageConstants ==
    /\ Hls \subseteq Indexes /\ Nothing \notin Nat
    /\ PageSize \in Nat \ {0} /\ MaxAttempts \in Nat \ {0}
    /\ Nothing \notin Searches \cup {NoFilter} /\ NoFilter \notin Searches \cup Countries \cup Genres
    /\ Countries \cup Genres \subseteq DOMAIN Lower

VARIABLES
    search,        \* the text of the search box
    debounce,      \* the text the debounce timer will set, Nothing without a timer
    filters,       \* debounced_search, country and genre, as last seen by the effect: last_filters
    stations,      \* stations_state
    nextOffset,    \* offset + limit of last_meta, Nothing before the first page
    hasMore,       \* has_more
    fetching,      \* is_fetching
    fetchingNext,  \* is_fetching_next
    fetchError,    \* whether fetch_error is set
    timer,         \* the filters that fetch_timeout watches, Nothing when it is not armed
    fetches,       \* the calls of fetch_station_page under way
    selected,      \* selected, and with it last_stream_id
    resolved,      \* the station whose address is resolved_stream_url
    resolving,     \* how many resolve_stream_url of each HLS station await the session
    inOrder,       \* history: no call was under way when the filters last changed
    overtaken      \* history: the station was changed while another was being resolved

listVars == <<stations, nextOffset, hasMore, fetching, fetchingNext, fetchError, timer, fetches, inOrder>>
filterVars == <<search, debounce, filters>>
tunerVars == <<selected, resolved, resolving, overtaken>>
radioVars == <<filterVars, listVars, tunerVars>>

Filters == [search: Searches \cup {NoFilter}, country: Countries \cup {NoFilter}, genre: Genres \cup {NoFilter}]
Unfiltered == [search |-> NoFilter, country |-> NoFilter, genre |-> NoFilter]

Query(wanted, offset) ==
    [search |-> wanted.search, country |-> wanted.country, genre |-> wanted.genre,
     language |-> NoFilter, tag |-> NoFilter, offset |-> offset, limit |-> PageSize]

\* A call of fetch_station_page: for the first page or the next one.
Calls == [filters: Filters, offset: Nat, first: BOOLEAN, attempt: Nat]
Fetch(wanted, offset, first) == [filters |-> wanted, offset |-> offset, first |-> first, attempt |-> 1]
Idle(slot) == fetches[slot] = Nothing
Busy == {slot \in Slots : ~Idle(slot)}

\* A new call takes any free slot: which one makes no difference.
Start(call) ==
    /\ Busy # Slots
    /\ fetches' = [fetches EXCEPT ![CHOOSE slot \in Slots : Idle(slot)] = call]

RadioTypeOK ==
    /\ search \in Searches \cup {NoFilter} /\ debounce \in Searches \cup {Nothing}
    /\ filters \in Filters
    /\ stations \in Seq(Indexes) /\ nextOffset \in Nat \cup {Nothing}
    /\ hasMore \in BOOLEAN /\ fetching \in BOOLEAN /\ fetchingNext \in BOOLEAN
    /\ fetchError \in BOOLEAN /\ inOrder \in BOOLEAN /\ overtaken \in BOOLEAN
    /\ timer \in Filters \cup {Nothing} /\ fetches \in [Slots -> Calls \cup {Nothing}]
    /\ selected \in Indexes \cup {Nothing} /\ resolved \in Indexes \cup {Nothing}
    /\ resolving \in [Hls -> Nat]

\* The page before it is opened, and after it was left: its tasks and timers
\* are dropped with it.
RadioInit ==
    /\ search = NoFilter /\ debounce = Nothing /\ filters = Unfiltered
    /\ stations = << >> /\ nextOffset = Nothing /\ hasMore = FALSE
    /\ fetching = FALSE /\ fetchingNext = FALSE /\ fetchError = FALSE
    /\ timer = Nothing /\ fetches = [slot \in Slots |-> Nothing] /\ inOrder = TRUE
    /\ selected = Nothing /\ resolved = Nothing
    /\ resolving = [s \in Hls |-> 0] /\ overtaken = FALSE

RadioReset ==
    /\ search' = NoFilter /\ debounce' = Nothing /\ filters' = Unfiltered
    /\ stations' = << >> /\ nextOffset' = Nothing /\ hasMore' = FALSE
    /\ fetching' = FALSE /\ fetchingNext' = FALSE /\ fetchError' = FALSE
    /\ timer' = Nothing /\ fetches' = [slot \in Slots |-> Nothing] /\ inOrder' = TRUE
    /\ selected' = Nothing /\ resolved' = Nothing
    /\ resolving' = [s \in Hls |-> 0] /\ overtaken' = FALSE

----------------------------------------------------------------------------
(* The tuner *)

Resolving == {s \in Hls : resolving[s] > 0}

\* Mutant: a station that is given up keeps its address.
TuneKeepsAddress(station) ==
    /\ selected' = station
    /\ resolved' = IF station \in Indexes \ Hls THEN station ELSE resolved
    /\ resolving' = IF station \in Hls THEN [resolving EXCEPT ![station] = @ + 1] ELSE resolving
    /\ overtaken' = (Resolving # {})

\* The effect of another selection: without one the address is cleared, that
\* of a direct stream is known, that of HLS waits for the gateway's session.
Tune(station) ==
    /\ selected' = station
    /\ resolved' = CASE station = Nothing -> Nothing
                     [] station \in Indexes \ Hls -> station
                     [] station \in Hls -> resolved
    /\ resolving' = IF station \in Hls THEN [resolving EXCEPT ![station] = @ + 1] ELSE resolving
    /\ overtaken' = (Resolving # {})

\* A preset, an entry of the list; clicking the same one again changes nothing.
Select(station) ==
    /\ station # selected
    /\ station \in Hls => resolving[station] = 0   \* bound of the model
    /\ Tune(station)
    /\ UNCHANGED <<filterVars, listVars>>

Resolved(station) ==
    /\ resolving[station] > 0
    /\ resolving' = [resolving EXCEPT ![station] = @ - 1]
    /\ resolved' = station
    /\ UNCHANGED <<filterVars, listVars, selected, overtaken>>

----------------------------------------------------------------------------
(* The list *)

\* The effect of a change of the filters: everything is forgotten but the
\* calls under way, and the timer of 12 seconds is armed anew.
Refilter(wanted) ==
    /\ filters' = wanted
    /\ stations' = << >> /\ nextOffset' = Nothing /\ hasMore' = FALSE
    /\ fetching' = TRUE /\ fetchingNext' = FALSE /\ fetchError' = FALSE
    /\ timer' = wanted
    /\ Start(Fetch(wanted, 0, TRUE))
    /\ inOrder' = (Busy = {})
    /\ IF selected = Nothing THEN UNCHANGED tunerVars ELSE Tune(Nothing)

\* The page is opened, by a link that shares a station or without one.
OpenRadio(shared) ==
    /\ search' = NoFilter /\ debounce' = Nothing /\ filters' = Unfiltered
    /\ stations' = << >> /\ nextOffset' = Nothing /\ hasMore' = FALSE
    /\ fetching' = TRUE /\ fetchingNext' = FALSE /\ fetchError' = FALSE
    /\ timer' = Unfiltered /\ inOrder' = TRUE
    /\ Start(Fetch(Unfiltered, 0, TRUE))
    /\ selected' = shared
    /\ resolved' = IF shared \in Hls THEN Nothing ELSE shared
    /\ resolving' = [s \in Hls |-> IF s = shared THEN 1 ELSE 0] /\ overtaken' = FALSE

Choose(field, value) ==
    /\ filters[field] # value
    /\ Refilter([filters EXCEPT ![field] = value])
    /\ UNCHANGED <<search, debounce>>

\* The effect of typing: the timer is started anew; an empty search is
\* applied at once.
TypeSearch(text) ==
    /\ text # search
    /\ search' = text
    /\ CASE text = filters.search /\ debounce = Nothing -> UNCHANGED <<debounce, filters, listVars, tunerVars>>
         [] text = NoFilter /\ filters.search = NoFilter /\ debounce # Nothing ->
                debounce' = Nothing /\ UNCHANGED <<filters, listVars, tunerVars>>
         [] text = NoFilter /\ filters.search # NoFilter ->
                /\ debounce' = Nothing
                /\ Refilter([filters EXCEPT !.search = NoFilter])
         [] OTHER -> debounce' = text /\ UNCHANGED <<filters, listVars, tunerVars>>

DebounceFires ==
    /\ debounce # Nothing
    /\ debounce' = Nothing
    /\ IF debounce = filters.search THEN UNCHANGED <<filters, listVars, tunerVars>>
       ELSE Refilter([filters EXCEPT !.search = debounce])
    /\ UNCHANGED search

\* Mutant: the timer gives up only while it still hears of the search it was set for.
FetchTimeoutOfSearch ==
    /\ timer # Nothing
    /\ timer' = Nothing
    /\ IF fetching /\ filters = timer /\ search = timer.search
       THEN fetching' = FALSE /\ fetchError' = TRUE
       ELSE UNCHANGED <<fetching, fetchError>>
    /\ UNCHANGED <<filterVars, tunerVars, stations, nextOffset, hasMore, fetchingNext, fetches, inOrder>>

FetchTimeout ==
    /\ timer # Nothing
    /\ timer' = Nothing
    /\ IF fetching /\ filters = timer
       THEN fetching' = FALSE /\ fetchError' = TRUE
       ELSE UNCHANGED <<fetching, fetchError>>
    /\ UNCHANGED <<filterVars, tunerVars, stations, nextOffset, hasMore, fetchingNext, fetches, inOrder>>

\* The list is scrolled to its end, or is too short to scroll.
LoadNextPage ==
    /\ hasMore /\ ~fetching /\ ~fetchingNext
    /\ fetchingNext' = TRUE
    /\ Start(Fetch(filters, IF nextOffset = Nothing THEN Len(stations) ELSE nextOffset, FALSE))
    /\ UNCHANGED <<filterVars, tunerVars, stations, nextOffset, hasMore, fetching, fetchError, timer, inOrder>>

\* The first station is tuned in when none is.
AutoTune ==
    IF selected = Nothing /\ stations' # << >> THEN Tune(Head(stations')) ELSE UNCHANGED tunerVars

\* A page arrives: a first one replaces the list, a next one is appended.
FirstPage(page) ==
    /\ stations' = page.items
    /\ fetching' = FALSE /\ timer' = Nothing
    /\ UNCHANGED fetchingNext

LaterPage(page) ==
    /\ stations' = stations \o page.items
    /\ fetchingNext' = FALSE
    /\ UNCHANGED <<fetching, timer>>

Arrives(slot) ==
    /\ ~Idle(slot)
    /\ LET call == fetches[slot]
           page == Project(Query(call.filters, call.offset))
       IN  /\ IF call.first THEN FirstPage(page) ELSE LaterPage(page)
           /\ nextOffset' = page.offset + page.limit
           /\ hasMore' = page.hasMore
    /\ fetchError' = FALSE
    /\ fetches' = [fetches EXCEPT ![slot] = Nothing]
    /\ AutoTune
    /\ UNCHANGED <<filterVars, inOrder>>

\* A failure of the connection or a status of 500 and more: it is tried again.
Retry(slot) ==
    /\ ~Idle(slot) /\ fetches[slot].attempt < MaxAttempts
    /\ fetches' = [fetches EXCEPT ![slot].attempt = @ + 1]
    /\ UNCHANGED <<filterVars, tunerVars, stations, nextOffset, hasMore, fetching, fetchingNext,
                   fetchError, timer, inOrder>>

\* The last attempt fails, or any other status or body is answered.
FetchFails(slot) ==
    /\ ~Idle(slot)
    /\ fetchError' = TRUE
    /\ IF fetches[slot].first THEN timer' = Nothing /\ fetching' = FALSE /\ UNCHANGED fetchingNext
                              ELSE fetchingNext' = FALSE /\ UNCHANGED <<fetching, timer>>
    /\ fetches' = [fetches EXCEPT ![slot] = Nothing]
    /\ UNCHANGED <<filterVars, tunerVars, stations, nextOffset, hasMore, inOrder>>

RadioNext ==
    \/ \E text \in Searches \cup {NoFilter} : TypeSearch(text)
    \/ DebounceFires
    \/ \E value \in Countries \cup {NoFilter} : Choose("country", value)
    \/ \E value \in Genres \cup {NoFilter} : Choose("genre", value)
    \/ FetchTimeout \/ LoadNextPage
    \/ \E slot \in Slots : Arrives(slot) \/ Retry(slot) \/ FetchFails(slot)
    \/ \E station \in Indexes : Select(station)
    \/ \E station \in Hls : Resolved(station)

----------------------------------------------------------------------------
(* Properties *)

\* As long as no call was under way when the filters were changed, the pages
\* that were loaded are the beginning of the listing, without a gap and
\* without a station twice, and more is announced exactly when there is more.
ListIsABeginning ==
    LET listing == Listing(Query(filters, 0))
    IN  inOrder /\ Plain(Query(filters, 0)) =>
            /\ IsPrefix(stations, listing)
            /\ nextOffset # Nothing => (hasMore <=> Len(stations) < Len(listing))

\* When every address is resolved and none was overtaken by another choice,
\* what is played is what is selected, and nothing when nothing is.
PlaysTheSelected == Resolving = {} /\ ~overtaken => resolved = selected

\* "Scanning" ends for every choice of filters, though the service may never
\* answer: the timer of that choice sees to it.
SpinnerStops ==
    \A wanted \in Filters : (fetching /\ filters = wanted) ~> ~(fetching /\ filters = wanted)
=============================================================================
