--------------------------- MODULE StationSource ---------------------------
(***************************************************************************)
(* Where a refresh gets its stations from (run_refresh): the pages of one  *)
(* of the mirrors of the directory (radio_browser.rs) and what validation  *)
(* keeps of them (stream_validation.rs), with its verdicts in Postgres.    *)
(* StationRefresh takes both as a choice; here they are steps.  Refreshes  *)
(* follow one another, as the refresh lock has it (RefreshExclusive).      *)
(*                                                                         *)
(* The mirrors differ and change between two pages; a stream changes       *)
(* between two verdicts.  An entry of the directory has an id, the URL of  *)
(* its stream, the time it was last changed, and whether normalize_station *)
(* lets it through.                                                        *)
(***************************************************************************)
EXTENDS SequencesExt, Lists

CONSTANTS
    HostPool,      \* the mirrors, a sequence
    Directories,   \* what a mirror may list: sequences of entries, no id twice
    Urls,          \* URLs of streams
    Public,        \* those of them that are https and not blocked
    Streams,       \* what the URLs may answer: functions to the final URL, or Silent
    Silent,        \* a URL that answers no stream
    Nothing,       \* no verdict, no station, no directory
    TotalLimit, PageSize, MaxPages,  \* RADIO_BROWSER_LIMIT, _PAGE_SIZE, _MAX_PAGES
    Concurrency,   \* STREAM_VALIDATION_CONCURRENCY
    Ttl,           \* STREAM_VALIDATION_CACHE_TTL
    FailureTtl,    \* STREAM_VALIDATION_FAILURE_CACHE_TTL
    BatchSize,     \* INSERT_BATCH_SIZE
    MaxClock,      \* bound of the model: the last moment
    MaxRefreshes,  \* bound of the model: refreshes in all
    MaxChanges     \* bound of the model: changes of mirrors and streams in all

\* The entries of the directories, and what is made of them.
Listed == UNION {Range(directory) : directory \in Directories}
Offers == [id : {entry.id : entry \in Listed}, url : Urls]

ASSUME SourceConstants ==
    /\ HostPool # << >> /\ HostPool \in Seq(Range(HostPool))
    /\ Silent \notin Urls /\ Nothing \notin Urls \cup Offers
    /\ Directories \subseteq Seq(Listed)
    /\ \A entry \in Listed : entry.url \in Urls /\ entry.sound \in BOOLEAN
    /\ Public \subseteq Urls
    /\ Streams \subseteq [Urls -> Urls \cup {Silent}]
    /\ \A directory \in Directories : \A i, j \in DOMAIN directory :
           directory[i].id = directory[j].id => i = j
    /\ {TotalLimit, PageSize, MaxPages, Concurrency, Ttl, FailureTtl, BatchSize} \subseteq Nat \ {0}
    /\ {MaxClock, MaxRefreshes, MaxChanges} \subseteq Nat

VARIABLES
    clock,
    mirror,    \* what each mirror lists now
    stream,    \* what each URL answers now
    cursor,    \* host_cursor
    cache,     \* radio_stream_validation_cache: the verdict stored for each URL
    stored,    \* the listing of the stored catalogue
    refresh,   \* the refresh under way
    heard,     \* history: when a stream was last heard at each URL, 0 if never
    refused,   \* history: when the stream of each URL was last refused
    begun, changes

worldVars == <<mirror, stream, changes>>
historyVars == <<heard, refused>>
sourceVars == <<clock, cursor, cache, stored, refresh, begun, worldVars, historyVars>>

NoRows == [u \in Urls |-> Nothing]

Idle == [pc |-> "idle", host |-> 0, tried |-> 0, page |-> 0, listing |-> << >>,
         offered |-> Nothing,   \* history: the mirrors, unless one changed since the fetch began
         rows |-> NoRows, now |-> 0, outcomes |-> << >>]

SourceInit ==
    /\ clock = 1 /\ cursor = 0 /\ begun = 0 /\ changes = 0
    /\ mirror \in [DOMAIN HostPool -> Directories] /\ stream \in Streams
    /\ cache = [u \in Urls |-> Nothing] /\ stored = Nothing
    /\ refresh = Idle
    /\ heard = [u \in Urls |-> 0] /\ refused = [u \in Urls |-> 0]

Least(a, b) == IF a < b THEN a ELSE b

----------------------------------------------------------------------------
(* The pages of a mirror: RadioBrowserClient *)

\* ordered_hosts: every use of the client begins with the next host.
BeginFetch ==
    /\ refresh.pc = "idle"
    /\ begun < MaxRefreshes /\ begun' = begun + 1
    /\ refresh' = [Idle EXCEPT !.pc = "fetch", !.host = cursor, !.offered = mirror]
    /\ cursor' = (cursor + 1) % Len(HostPool)
    /\ UNCHANGED <<clock, cache, stored, worldVars, historyVars>>

\* record_click, of a request beside: it moves the cursor on.
RecordClick ==
    /\ refresh.pc = "idle"
    /\ cursor' = (cursor + 1) % Len(HostPool)
    /\ UNCHANGED <<clock, cache, stored, refresh, begun, worldVars, historyVars>>

Host == ((refresh.host + refresh.tried) % Len(HostPool)) + 1

\* Mutant: the next host is asked for the pages that are missing.
NextHostGoesOn ==
    refresh' = IF refresh.tried + 1 = Len(HostPool) THEN Idle
               ELSE [refresh EXCEPT !.tried = @ + 1]

\* The next host is asked for everything from the first page.
NextHost ==
    refresh' = IF refresh.tried + 1 = Len(HostPool) THEN Idle
               ELSE [refresh EXCEPT !.tried = @ + 1, !.page = 0, !.listing = << >>]

Normalized(raw) == Pick(raw, {i \in DOMAIN raw : raw[i].sound})

\* No answer, a status, or a body that does not decode.
HostFails ==
    /\ refresh.pc = "fetch"
    /\ NextHost
    /\ UNCHANGED <<clock, cursor, cache, stored, begun, worldVars, historyVars>>

\* What is asked for ends with the limit, with the last page, or with an
\* empty one; a mirror without a station has failed.
Page ==
    /\ refresh.pc = "fetch"
    /\ LET directory == mirror[Host]
           offset == refresh.page * PageSize
           limit == Least(PageSize, TotalLimit - offset)
           raw == SubSeq(directory, offset + 1, Least(offset + limit, Len(directory)))
           listing == refresh.listing \o Normalized(raw)
           over == \/ raw = << >> \/ Len(listing) >= TotalLimit
                   \/ refresh.page + 1 = MaxPages \/ offset + PageSize >= TotalLimit
       IN  IF over /\ listing = << >> THEN NextHost
           ELSE refresh' = [refresh EXCEPT !.listing = listing,
                                           !.pc = IF over THEN "load" ELSE "fetch",
                                           !.page = IF over THEN @ ELSE @ + 1]
    /\ UNCHANGED <<clock, cursor, cache, stored, begun, worldVars, historyVars>>

----------------------------------------------------------------------------
(* Validation: StreamValidator *)

\* load_cache: the verdicts that have not expired.  The time verdicts are
\* judged by is taken after the answer.
Load ==
    /\ refresh.pc = "load"
    /\ refresh' = [refresh EXCEPT !.pc = "now", !.rows =
                      [u \in Urls |-> IF cache[u] # Nothing /\ cache[u].expires > clock
                                         /\ \E i \in DOMAIN refresh.listing : refresh.listing[i].url = u
                                      THEN cache[u] ELSE Nothing]]
    /\ UNCHANGED <<clock, cursor, cache, stored, begun, worldVars, historyVars>>

Now ==
    /\ refresh.pc = "now"
    /\ refresh' = [refresh EXCEPT !.pc = "validate", !.now = clock]
    /\ UNCHANGED <<clock, cursor, cache, stored, begun, worldVars, historyVars>>

\* build_station_signature.
Signature(station) == <<station.url, station.changed>>

\* CacheEntry::success and CacheEntry::failure.
Verdict(ok, final, station) ==
    [ok |-> ok, final |-> final, at |-> clock,
     signature |-> Signature(station), ttl |-> IF ok THEN Ttl ELSE FailureTtl, expires |-> 0]

\* Mutant: the database's expiry is thought to be enough.
IsValidWhileStored(entry, station) ==
    entry # Nothing /\ entry.signature = Signature(station)

\* CacheEntry::is_valid.
IsValid(entry, station) ==
    /\ entry # Nothing /\ entry.signature = Signature(station)
    /\ refresh.now <= entry.at + entry.ttl

\* CacheEntry::apply.
Applied(entry, station) ==
    [id |-> station.id, url |-> IF entry.final = Nothing THEN station.url ELSE entry.final]

Outcome(i, station, key, entry) == [index |-> i, station |-> station, key |-> key, entry |-> entry]

Collect(outcome) ==
    LET outcomes == Append(refresh.outcomes, outcome) IN
    refresh' = [refresh EXCEPT !.outcomes = outcomes,
                               !.pc = IF Len(outcomes) = Len(refresh.listing) THEN "write" ELSE @,
                               !.rows = IF Len(outcomes) = Len(refresh.listing) THEN NoRows ELSE @]

\* buffer_unordered: the first that are not done, as many as the limit.
InHand(i) ==
    LET done == {refresh.outcomes[k].index : k \in DOMAIN refresh.outcomes}
        before == {j \in DOMAIN refresh.listing : j < i} \ done
    IN  i \in DOMAIN refresh.listing \ done /\ Cardinality(before) < Concurrency

\* process_station, of a station whose verdict is known.
Recall(i) ==
    /\ refresh.pc = "validate" /\ InHand(i)
    /\ LET station == refresh.listing[i]
           entry == refresh.rows[station.url]
       IN  /\ IsValid(entry, station)
           /\ Collect(Outcome(i, IF entry.ok THEN Applied(entry, station) ELSE Nothing, Nothing, Nothing))
    /\ UNCHANGED <<clock, cursor, cache, stored, begun, worldVars, historyVars>>

\* validate_station hears a stream: the verdict goes under the final URL.
Hear(i) ==
    /\ refresh.pc = "validate" /\ InHand(i)
    /\ LET station == refresh.listing[i]
           final == stream[station.url]
           entry == Verdict(TRUE, final, station)
       IN  /\ ~IsValid(refresh.rows[station.url], station)
           /\ final \in Public
           /\ Collect(Outcome(i, Applied(entry, station), final, entry))
           /\ heard' = [heard EXCEPT ![final] = clock]
    /\ UNCHANGED <<clock, cursor, cache, stored, begun, worldVars, refused>>

\* It hears none, for whatever reason: the verdict goes under the URL asked for.
RefuseStream(i) ==
    /\ refresh.pc = "validate" /\ InHand(i)
    /\ LET station == refresh.listing[i] IN
       /\ ~IsValid(refresh.rows[station.url], station)
       /\ Collect(Outcome(i, Nothing, station.url, Verdict(FALSE, Nothing, station)))
       /\ refused' = [refused EXCEPT ![station.url] = clock]
    /\ UNCHANGED <<clock, cursor, cache, stored, begun, worldVars, heard>>

\* Those that were accepted, sorted by their place in the listing.
Kept ==
    LET station(i) == CHOOSE o \in Range(refresh.outcomes) : o.index = i
        places == InOrder({i \in DOMAIN refresh.listing : station(i).station # Nothing})
    IN  [k \in DOMAIN places |-> station(places[k]).station]

\* cache_updates: of two verdicts under one URL the later remains.
Updates(u) == {k \in DOMAIN refresh.outcomes : refresh.outcomes[k].key = u}

Written ==
    [u \in Urls |-> IF Updates(u) = {} THEN cache[u]
                    ELSE LET last == CHOOSE k \in Updates(u) : \A j \in Updates(u) : j <= k
                             entry == refresh.outcomes[last].entry
                         IN  [entry EXCEPT !.expires = clock + entry.ttl]]

WriteCache ==
    /\ refresh.pc = "write"
    /\ cache' = Written
    /\ refresh' = [refresh EXCEPT !.pc = "persist"]
    /\ UNCHANGED <<clock, cursor, stored, begun, worldVars, historyVars>>

\* A statement of the validation fails, before or after its effect, or the
\* request is dropped: with it the refresh.
Fail ==
    /\ refresh.pc \in {"fetch", "load", "validate", "write", "persist"}
    /\ cache' \in {cache} \cup (IF refresh.pc = "write" THEN {Written} ELSE {})
    /\ refresh' = Idle
    /\ UNCHANGED <<clock, cursor, stored, begun, worldVars, historyVars>>

----------------------------------------------------------------------------
(* persist_payload, as far as it may refuse what it is given *)

\* One statement cannot write a row twice.
Doubled(stations) ==
    \E i, j \in DOMAIN stations :
        i < j /\ stations[i].id = stations[j].id /\ (i - 1) \div BatchSize = (j - 1) \div BatchSize

\* A listing is told from the stored one by its fingerprint, in any order.
PersistListing ==
    /\ refresh.pc = "persist"
    /\ LET same == stored # Nothing /\ ToBag(stored) = ToBag(refresh.listing) IN
       stored' = IF same \/ Doubled(Kept) THEN stored ELSE refresh.listing
    /\ refresh' = Idle
    /\ UNCHANGED <<clock, cursor, cache, begun, worldVars, historyVars>>

Change ==
    /\ changes < MaxChanges /\ changes' = changes + 1
    /\ \/ /\ \E h \in DOMAIN HostPool : \E directory \in Directories \ {mirror[h]} :
                mirror' = [mirror EXCEPT ![h] = directory]
          /\ refresh' = IF refresh.pc = "fetch" THEN [refresh EXCEPT !.offered = Nothing] ELSE refresh
          /\ UNCHANGED stream
       \/ stream' \in Streams \ {stream} /\ UNCHANGED <<mirror, refresh>>
    /\ UNCHANGED <<clock, cursor, cache, stored, begun, historyVars>>

Tick ==
    /\ clock < MaxClock
    /\ clock' = clock + 1
    /\ UNCHANGED <<cursor, cache, stored, refresh, begun, worldVars, historyVars>>

SourceNext ==
    \/ BeginFetch \/ RecordClick \/ Page \/ HostFails
    \/ Load \/ Now \/ WriteCache \/ Fail \/ PersistListing
    \/ \E i \in 1 .. TotalLimit : Recall(i) \/ Hear(i) \/ RefuseStream(i)
    \/ Change \/ Tick

SourceSpec == SourceInit /\ [][SourceNext]_sourceVars

----------------------------------------------------------------------------
Validated == refresh.pc \in {"write", "persist"}

\* A station is kept only if a stream was heard, at the very URL it is then
\* served from, within the life of a verdict, and dropped only if its URL
\* was refused within that of a failure: whatever the redirects, and
\* whichever entries lie under a URL (process_station, CacheEntry::is_valid).
VerdictsAreFresh ==
    Validated =>
        \A o \in Range(refresh.outcomes) :
            IF o.station # Nothing
            THEN /\ o.station.url \in Public
                 /\ heard[o.station.url] > 0 /\ heard[o.station.url] + Ttl >= refresh.now
            ELSE LET u == refresh.listing[o.index].url
                 IN  refused[u] > 0 /\ refused[u] + FailureTtl >= refresh.now

\* The stations a mirror is to be asked for, and only those.
Wanted(directory) ==
    Normalized(SubSeq(directory, 1, Least(Least(TotalLimit, MaxPages * PageSize), Len(directory))))

\* Unless a mirror changed between two pages, what is listed is what one of
\* the mirrors lists, however many failed before it, and what is kept are
\* different stations in the order of that mirror, whichever verdict came
\* first: persist_payload then never refuses it.
KeptIsTheListing ==
    Validated /\ refresh.offered # Nothing =>
        LET kept == Kept
            listed == refresh.listing
            places == InOrder({i \in DOMAIN listed : \E k \in DOMAIN kept : kept[k].id = listed[i].id})
        IN  /\ \E h \in DOMAIN HostPool : listed = Wanted(refresh.offered[h])
            /\ [k \in DOMAIN kept |-> kept[k].id] = [k \in DOMAIN places |-> listed[places[k]].id]
            /\ ~Doubled(kept)
=============================================================================
