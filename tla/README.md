# My Stupid Website: TLA+ models

Specifications of the stateful parts of this repository, checked with TLC and,
for the properties that matter most, proved with TLAPS. File paths below are
relative to the repository's root; `AS` is `radio-service-rs/src/app_state.rs`.

    tlc -workers 2 -config StationRefresh_safety.cfg MCStationRefresh.tla
    tlapm StationRefreshProofs.tla

Contents: the system · modules · runs · proofs · what the models brought to
light · not modelled · plan.

## The system

| part | state it keeps | operations | interacts with |
|---|---|---|---|
| radio: catalogue (`AS`, `refresh.rs`, `stations/storage.rs`) | Postgres: `station_state`, `station_payloads`, `stations`, the refresh advisory lock. Per process: `memory_cache`, `processed_cache`, `cache_state_updated_at`, `refresh_mutex` | `load_stations`, `update_stations`, `refresh_and_cache`, `wait_for_external_refresh`, `schedule_background_refresh` | upstream, validator, every handler of `http.rs`; other replicas through Postgres |
| radio: upstream client (`radio_browser.rs`) | host cursor | `fetch_payload`, `record_click` | radio-browser mirrors |
| radio: stream validation (`stream_validation.rs`) | `radio_stream_validation_cache` | `validate` | station streams |
| radio: favourites (`favorites.rs`, `http.rs`) | `radio_favorites` | get, upsert, delete | catalogue |
| radio: rate limiter (`AS`) | timestamps per client | `check` | every handler |
| radio: station index (`stations/processed.rs`, `http.rs`) | none of its own | `build`, `project_stations` | catalogue |
| radio: stream proxy (`http.rs`) | none of its own | `stream_station`, `stream_segment` | stations' hosts, the browser's player |
| gateway: sessions (`session.rs`) | `gateway_sessions`, `gateway_csrf` or their maps in memory | issue, validate, clean-up | every proxied request |
| gateway: response cache (`cache.rs`) | a bounded map | `get`, `set` | proxy, docs |
| gateway: contact form (`contact.rs`) | `gateway_contact_rate_limit`, `gateway_contact_dedupe` | `handle_contact` | Turnstile, mail provider, sessions |
| gateway: routing and metrics (`app.rs`, `proxy.rs`, `routing.rs`, `metrics.rs`, `request_context.rs`) | counters | `handle_proxy` from start to completion | every request, the services behind |
| frontend (`dioxus-app`) | the signals of the open page, the token in local storage | fetch, select, submit, convert, run a command | gateway |
| terminal service | none: a read-only virtual file tree | `commands.rs`, `sandbox.rs` | frontend |
| fmd (`fmd`) | permits, one browser process per render | fetch, render | gateway |

The hard behaviours: replicas that share a database and a session lock; futures
that are dropped at any await; caches in three layers; statements that share no
transaction; read-modify-write sequences; answers that come late and out of
order to a page that cancels nothing; processes that outlive the future which
started them. `PROJECT.json` lists the hazards line by line.

What makes each part correct, in a line: the *catalogue* is replaced whole, by
one refresh at a time, and noticed by every process; a *listing* is that of one
mirror and its *verdicts* are recent; *favourites* keep their order, size and
the user's last request; the *rate limiter* admits at most its limit in any
window; a *session* lives as long as its client was told and is refused to
nobody who was sure of it; the *response cache* stays within its size, keeps
what there is room for and serves nothing old; the *contact form* sends a
message at most once; the *gauge* of active requests counts them; the *directory
page* shows the answer to the last query; the *player* stays on routed paths;
*fmd* hands every permit on, and a render that comes to its end kills its process.

## Modules

| module | what it is |
|---|---|
| `StationCatalogue`, `StationRefresh`, `MCStationRefresh` | the abstract promise; the protocol of `AS`, `refresh.rs` and `storage.rs`, one action per stretch of code between two awaits; the instance TLC checks |
| `StationSource`, `MCStationSource` | a listing page by page from the mirrors, and the verdicts on its streams |
| `StationRefreshProofs` | the safety properties of both, and the refinement |
| `StationsQuery` | the indexes, filters and pages of `GET /stations`, with a reference to compare |
| `StreamProxy` | stream, segment and the rewriting of playlists |
| `RateLimiter`, `MCRateLimiter` | the sliding-window limiter and the requests waiting for its mutex |
| `FavoritesList`, `Favorites`, `MCFavorites` | the abstract list; the handlers, each a read and a later write of all of it |
| `ClientProofs` | the limiter's properties; the favourites' and their refinement |
| `Lists`, `ListsProofs` | filtered lists as lists in some of their places, and the lemmas on them |
| `ContactForm`, `MCContactForm`, `ContactFormProofs` | the contact form's two upserts, Turnstile and the mail |
| `GatewaySession`, `MCGatewaySession`, `GatewaySessionProofs` | sessions in the gateway and in the browser |
| `Gateway`, `MCGateway`, `GatewayProofs` | a request through the gateway: route, gauge, cache |
| `Fmd`, `MCFmd`, `FmdProofs` | permits, addresses, browser processes |
| `Sandbox` | paths and commands of the terminal service |
| `TerminalShell`, `RadioPage`, `ContactPage`, `ToolPage` | the pages of the frontend |
| `Frontend`, `MCFrontend`, `PageProofs` | the pages under their router; the properties of all of them |

How they are composed:

* `TerminalShell` extends `Sandbox`: what the page sends is answered by the
  service's own operators. `RadioPage` extends `StationsQuery`: the list it
  fills is cut by the code that serves it.
* `Frontend` extends the four pages and `StreamProxy`; `Visit` drops what the
  page that is left has started, and opens the next one anew.
* `StationRefresh` implements `StationCatalogue`, `Favorites` implements
  `FavoritesList`.
* `StationSource` is where `StationRefresh` makes a choice (of a listing and of
  what validation keeps), `GatewaySession` where `Gateway` does (whether the
  session is valid), `Fmd`, `ContactForm` and `RateLimiter` are what `ToolPage`,
  `ContactPage` and every call of the radio see only as answer or failure. Those
  choices allow at least what the detailed module can do, so that each is
  checked by itself.

### StationRefresh

A *task* is one future: a request in `load_stations` (with or without
`forceRefresh`), an `update_stations`, or a spawned background refresh. `pc`
names the await it stands at and `loc` holds its local variables. The variables
and the code:

| variable | code |
|---|---|
| `updated` | `station_state.updated_at`, counted instead of timed. `NOW()` is the start of the transaction; transactions that write it are ordered by the refresh lock and the row lock, so it only grows |
| `current`, `payloads`, `owner` | `station_state.payload_id`, `station_payloads`, the `payload_id` of each row of `stations` |
| `inFlight` | the payload of a transaction whose task was dropped after its `COMMIT` was sent |
| `lockProc`, `lockTask`, `depth`, `leaks`, `unlocking` | the Postgres session holding the advisory lock: the pool it belongs to, the task whose guard owns it, how often it was granted, how many of these grants no guard was made for, and whether the unlock is under way |
| `marker`, `mem`, `processed`, `mutex` | `cache_state_updated_at`, `memory_cache`, `processed_cache`, `refresh_mutex` of each process |
| `spawned` | background refreshes that were spawned and have not run |

How the code's difficult points are rendered:

* `pg_try_advisory_lock` is re-entrant for its session, and sessions belong to
  the pool. `Grantable` allows a grant when nobody holds the lock *or* when the
  pool hands out the very connection that still holds it (after `LeakLock`).
  `LeakLock` is a future dropped between the server's grant and the construction
  of the guard; `Reap` is the pool closing that idle connection. Nothing in the
  code gives a leaked grant back, and the pool is not assumed to close its
  connection ever; `leaks` counts these grants, and `LockReleased` speaks of the
  others (`depth > leaks`).
* A dropped guard does not unlock, it spawns a task that does (`DropGuard`, then
  `Unlock`). A process that dies leaves the unlocking to the server.
* `persist_payload` is one transaction that takes the state row `FOR UPDATE`,
  and is one action. A task dropped in it leaves a rollback or, if its `COMMIT`
  was already sent, a transaction that ends later (`LeaveCommit`, `CommitLands`).
* `load_latest_payload` is two statements and no transaction: two actions.
* `Abort` is an error of any fallible await, or the client leaving, which makes
  the server drop the future at any await; spawned refreshes are never dropped.
* Listings are sets of stations. A payload's `fp` is the listing its fingerprint
  was computed from, its `rows` what validation kept, because that is what the
  code does (`refresh.rs:28`). A stored payload with no station left after
  sanitizing counts as none, as in `sanitize_persisted_payload`.
* `ensure_processed` is a memo of the payload's content: `processed` records
  what it was built from. TTL 0 of the memory cache is an `Expire` at once.

`StationCatalogue` is the abstract promise the run and `StationRefreshProofs`
show it to implement: one refresher at a time; the catalogue is replaced at most
once per refresh, whole, and its version moves.

Left out: an empty refresh-lock key (refused by the configuration), the pool's
connection limit, the loss of the lock's session during a refresh.

### RateLimiter

`buckets` is the map of `RateLimiter` (AS:66): a sequence of admission times per
client. A request arrives, waits for the mutex (`arrived`), and is decided in
one action, `Check`, since `check` holds the mutex from line 82 to its end and
awaits nothing in it; `Instant::now()` is read inside, so the clock at the
decision counts, not the one at the arrival. `Leave` is a client that is gone
before its turn. `Swept` and `Pruned` remove what is older than the window from
every bucket before the decision, as the code does. `admitted` (the history of
admissions), `answer` (what clients were told) and `checked` are not in the
code. Left out: the rounding of the reset time to whole seconds in the headers,
and the replicas, which limit each for itself.

### Favorites

| variable | code |
|---|---|
| `row` | the row of `radio_favorites`; its entries may have been stored by an earlier version (`Stored`): doubled, or without their station |
| `clock` | the database's `NOW()`; `FAVORITES_TTL_SECONDS` is `Lifetime` |
| `req` | the futures of `get_favorites`, `upsert_favorite` and `delete_favorite`: standing at `favorites.read`, at `write` or at `refresh_ttl`, or ended |
| `writes`, `saved`, `solo`, and `seen`, `found` of a request | not in the code: what overlapped, what was put and not given up, and whether this client sends one request at a time |

What follows the read without an await (the position, the insertion,
`dedupe_entries`, `build_favorites_response`) is one action with it, as no other
request can see it. A client that leaves, and an error, may come before or after
the statement's effect; a statement that still runs when its client has left is
a request that has not ended yet. The lists of different keys share nothing, so
one is enough. One instance serves both questions: `Init` chooses whether the
client overlaps its requests (`solo`), and `ImplementsList` speaks of those that
do not; for the others the promise is given up, as the code gives it up.

### ContactForm

| variable | code |
|---|---|
| `limits`, `dedupe` | `gateway_contact_rate_limit`, `gateway_contact_dedupe`; nothing ever removes a row (`spawn_cleanup` of `session.rs` does not name them) |
| `clock` | the database's `NOW()` |
| `burned` | tokens that Turnstile has accepted: it does so once (external) |
| `req` | the future of each `handle_contact`, at one of its four awaits, or ended with a refusal |
| `arrivals`, `hits`, `passes`, `waved`, `sent` | not in the code: the histories the properties speak of |

`NOW()` is the start of the statement's transaction, and a statement that waits
for the row's lock takes effect later, so the time of an upsert is any time from
its sending to its effect (`StatementTimes`). Errors of the store let a request
pass (`CountUnavailable`, `RecordUnavailable`), as in the code. The column
`count` is `INTEGER`; sqlx does not decode it as `i64`, so `CountDecodes` is
`FALSE`: the statement has its effect, and its result is an error.

### GatewaySession

| variable | code |
|---|---|
| `store` | `gateway_sessions`: nonce and expiry. A row may be deleted by the clean-up or a validation and be brought back by another request's upsert |
| `cookie`, `token` | the browser's cookie with its `Max-Age`; the token and its expiry in local storage (`gateway_session.rs`) |
| `call` | `authorized_get`, `authorized_post`, and requests without a token: from `ensure_gateway_session` to the answer, with the handler's future at each of its statements |
| `promised`, `begun`, `failures` | not in the code: the latest expiry a session was answered with, and bounds |

The steps of the handler are those of `validate_session`: `Load`, `Check` (the
comparison of nonce and proof, the new expiry), `Remove` of an expired row,
`Persist`; and of the issue of a session: `BeginIssue`, `Issue`. A refused GET
clears whatever token is stored, its own or one set since, and is sent once
more. A
handler ends in `RequestTimeout` at the latest (`TimeoutLayer`), `Travel` bounds
the way of a message, and `SessionTimes` says how long lives and margin must be
compared with them: the defaults (a month, 10 s, 30 s) satisfy it as long as a
message travels 5 s at most, which the code does not bound.

### Gateway

| variable | code |
|---|---|
| `cache` | `MemoryCache`: entries by key, with their expiry |
| `active` | the gauge of `metrics.rs` |
| `req` | the future of `handle_proxy`: waiting for the session, the body, looking the cache up, fetching, filling |
| `version`, `replaced`, `filled`, `dropped` | not in the code: what the lists contain and since when, when each key was filled, how many handlers were dropped |

Paths are sequences of pieces, each a name with the number of times it is
percent-encoded: `determine_target`, the decoding in three rounds and
`contains_traversal` are operators on them, and `MCGateway` states as an
assumption that TLC evaluates that every way up is refused and that four ways to
ask for one list lead to one key. `Pruned` runs on every `get` and `set`, as in
the code. `Drop` is `TimeoutLayer` or a client that left; nothing completes the
context of a dropped request, so the gauge keeps it, and `ActiveIsOpen` says that
these are the only ones it keeps.

### Fmd

`queue` and `renderQueue` are the waiters of the two semaphores, in order.
A request's `pc` holds its permits: queueing, fetching from address after
address (`fetch_md.rs`), rendering step by step (`render.rs`: connect, open the
page, navigate, read, close, kill). `server` says whose Lightpanda process serves
the one port, `starting` whose process has not bound it yet, `strays` counts the
processes nobody owns. Early returns by `?`, the render's timeout and a dropped
request are `LetGo` and `Drop`: they leave the process, since `Child` has no
`kill_on_drop`. `Intercept` is the task that decides about subrequests beside the
render.

### StationSource

`mirror` and `stream` are the outside world, which changes at `changes`;
`cursor` is `host_cursor`; `refresh` the future of `run_refresh` with its page,
listing and outcomes; `cache` the verdicts in Postgres; `stored` the listing of
the stored catalogue. A page that fails, or a last mirror that fails, is
`NextHost`. Up to `Concurrency` verdicts come in any order; a verdict is stored
under the URL it ended at. `heard` and `refused` are the history the properties
compare with.

### StationsQuery and StreamProxy

Operators on one catalogue, and one player. `CandidateLists`, `Intersect`,
`MatchesFilters` and `Project` follow `processed.rs` and `project_stations`;
`Listing` filters every station by definition and is what `ListIsABeginning`
compares the page's list with. `Index` is said by counting: entry n of a label's
list is the station at which the label is met for the nth time. Letter case is a function over the labels that
occur: `Lower` in full, `AsciiLower` for ASCII letters. In `StreamProxy` a path is a
sequence of segments, the lines of a playlist are resolved, upgraded and
rewritten relative to the segment handler, and the player follows any of them.

### Sandbox and the pages

`Sandbox` is stateless: virtual paths as sequences of segments, `Execute` with
the refusals of each command; `MotdIsRead` says whether the file of the message
of the day is there to read (in the run it is not). `TerminalShell` holds the prompt, the history and
the pending command; what it knows of the directory is what the last answer said.
`RadioPage` holds filters, debounce timer, list, the requests under way, their
timer, and the station that is tuned in; its variables are named for the signals.
`ContactPage` is one record of the page's signals, the state of Turnstile's
script among them, which outlives the page. `ToolPage` is the two converters with
the conversions under way. In all pages, setting a signal and the effects that
read it are one action, since no other event is handled in between.

## Runs

A slot, a client, a station is a model value; those that differ by name only are
symmetric where no liveness is checked.

| run | instance | shows |
|---|---|---|
| `refresh_safety` | two processes, three tasks, a crash, a leaked grant, two retries | `RefreshExclusive`, `DbIntegrity`, `StoredIsMine`, `NoTornPayload`, `WaiterSeesNewer`, `ChangeMovesVersion`; every behaviour is one of `StationCatalogue` |
| `refresh_live` | one process with two tasks, a crash, a leaked grant, an upstream that may never answer | `OnlyUpstreamBlocks`: whoever does not wait for upstream itself ends, also while a leaked grant keeps the lock taken; `LockReleased`: a grant with a guard is given back unless its holder waits for upstream |
| `refresh_timeout` | as `refresh_safety`, without faults | **violated**: `TimeoutMeansNoRefresh` |
| `rate_limiter` | two clients, three requests, limit 2 | `AtMostLimit`, `AnswersAreExact`, `MapHoldsActive` |
| `favorites` | two requests at a time, three in all | `ListIsWhole`, `SavedIsKept`; a client without overlaps sees a `FavoritesList` |
| `contact_form` | two requests at a time, three in all | `CountsTheWindow`, `RecordedOncePerWindow`, `DuplicateIsFresh`, `MailedOnce` |
| `contact_limit` | the same, with two messages | **violated**: `LimitIsEnforced` |
| `gateway_session` | two calls at a time, three in all, two sessions | `SlidingExpiry`, `TokenHasSession`, `SureIsNotRefused`, `DeletedWhenExpired` |
| `gateway` | two requests at a time, three lists, a cache of two | `HitIsRecent`, `CacheBounded`, `HeldUntilExpiry`, `ActiveIsOpen` |
| `fmd` | three requests, two permits, one to render | `StraysAreLost`, `OwnBrowser`, `RefusedIsNotShown`; liveness `Admitted` |
| `frontend` | one visitor, every page | `CdWalksTheTree`, `ListIsABeginning`, `PlaysTheSelected`, `ChallengeIsOffered`, `ConversionIsShown`, `PlayerIsRouted`; liveness `SpinnerStops` |
| `station_source` | two mirrors, three entries, two refreshes | `VerdictsAreFresh`, `KeptIsTheListing` |

Bounds, and why they are enough:

* `StationRefresh`: `p1` with two tasks and `p2` with one, two client requests,
  listings `{a}` and `{a, b}`. Two requests that both find a stored catalogue
  spawn two background refreshes, so that three tasks of two processes are active
  at once: the smallest instance with a race inside a process *and* one between
  processes. Two listings are enough for changed, unchanged and partly failed
  refreshes; two retries let a waiter miss once and succeed then. `MaxLeaks` 1
  bounds the leaked grants a session keeps at a time: below a later guard of the
  same connection, or alone, with another task waiting. `refresh_live` has `p1`
  only: two tasks that want one mutex, and a waiter that the pool gives another
  connection than the one that leaked.
* `RateLimiter`: window 1 in a time of 4, so a window is filled, refuses, ages in
  part and is filled again, with a bucket that goes stale while the other client
  is served.
* `Favorites`: two slots for three stations, so that a list is full and one
  station outside; two catalogues that differ by a lost and a changed station.
  `ContactForm`: windows of 2 in a time of 3, so the third request comes within
  the window, at its end or after it.
* `GatewaySession`: the shortest life and margin that `SessionTimes` allows
  (`Ttl` 6, `RequestTimeout` 2, `Margin` 3), clock to 9, that is a life and a
  half: sessions end while calls are under way. Two calls overlap, the third
  meets what they left; one handler fails. Travel takes no time: it is a
  parameter of the proofs.
* `Gateway`: one list more than the cache holds, entries that live 2 in a time of
  4, requests of at most 1, one change of the lists, one client that leaves.
* `Fmd`: one request more than there are permits, two of them that want the one
  render permit; a host with no, one or two addresses, one of them not public;
  at most one stray that has yet to bind the port.
* `Frontend`: a catalogue of four in pages of two (a list is empty, one page, or
  two pages that end exactly), two fetches at a time of two attempts each, two
  commands a visit. A page is always reached from the start page (`Visit`): it
  starts anew whichever was left.
* `StationSource`: pages of two of three entries, so that the list moves between
  two pages; verdicts that live 2, failures 1, in a time of 3: the second refresh
  finds live and dead ones; one change of a mirror or of the streams.

Deadlock is checked everywhere but in `gateway`, `gateway_session` and
`station_source`, which end with the clock at its bound. Where requests are
numbered, `AtRest` is the one stutter that keeps the check meaningful: any other
state in which nothing can happen is reported.

Fairness:

* `StationRefresh`: weak fairness of each task's steps (the runtime polls what is
  ready), strong fairness of `LockMutex` (tokio's `Mutex` is first come first
  served), weak fairness of the spawned unlock and of a transaction the server
  already has. Upstream is never assumed to answer: neither HTTP client has a
  timeout that covers a body. Both properties leave out the task that waits for it.
  `Reap` has no fairness: when the pool closes an idle connection is the library's
  affair, and `database.rs` sets nothing for it.
* `Fmd`: weak fairness of each request's handler, since an attempt ends by the
  client's timeout and a render by its own, and of a stray's binding of the port.
  Tokio's semaphore is first come first served, which is what `queue` is.
* `Frontend`: weak fairness of the fetch's timer only. That anything is answered
  is not assumed, which is what the timer is for.

## Proofs

Every theorem is proved for all values of the constants under the named
assumptions of its module, which TLC evaluates on each run.

`StationRefreshProofs` proves, for all processes, tasks, listings and bounds,
`TypeOK`, `RefreshExclusive`, `DbIntegrity`, `StoredIsMine`, `NoTornPayload`,
`WaiterSeesNewer` and `ChangeMovesVersion`. The assumptions are those of
`StationRefresh`: `ProcOf` maps tasks to processes, `None` is neither, no listing
is empty, the bounds are naturals. None of the properties is inductive alone:

* `LockInv` ties each locked task to the one session: a task in a locked step
  owns `lockTask`, in its own process's pool, with nothing unlocking. Mutual
  exclusion follows. It also has `GrantsHaveOwners`: the grants that are not
  leaked are one at most, with its guard or its unlock (theorem `GrantsOwned`),
  the safety half of `LockReleased`.
* `StoredInv` adds that while a task is past its persist no transaction is in
  flight that could replace what it stored: this needs `LockInv`, and that
  `Persist` waits for the row lock.
* `ReadInv` says that a task between its two reads has an id which is either
  still current, with the stations it saw, or gone for good, because payload
  ids only grow: then the second read finds nothing instead of a mixture.
* `WaitInv` orders a waiter's versions, `ListingInv` bounds what a payload holds.

The same invariants map every step to a step of `StationCatalogue` or to a
stutter (`Refinement`).

The module also proves the two properties of `StationSource`, for any mirrors,
streams, page sizes and lives of verdicts:

* `VerdictsAreFresh` follows from `VerdictInv`: *every* verdict, in the table, in
  the copy a refresh has loaded and among those it is about to store, is true of
  the URL it stands under. The redirects are why it must be said of the URL a
  verdict is stored under and not of the one that was asked.
* `KeptIsTheListing` needs `PagesInv` (the pages fetched are the beginning of what
  the mirror is to be asked for, unless it changed since the first) and `PlaceInv`
  (one outcome for each place that is done, so the kept stations are the listing
  in some of its places). Order and difference then follow from the lemmas of
  `ListsProofs`.

`ListsProofs` is what makes lists reasonable without induction. A filtered list is
`Pick(list, places)`, with `InOrder` the one increasing function onto a set of
places. That it exists and is unique is proved by least counterexamples
(`LeastNatural`, from the well-foundedness of the subset ordering); the rest is
first-order.

`ClientProofs` proves all three properties of the limiter and the types, for any
limit, window, clients and waiting requests. The invariant says that a bucket is
the tail of its client's admissions that still counted at the last decision: in
order, never longer than the limit, and everything before it too old. Hence an
admission and the one `Limit` before it are more than a window apart, wherever a
window begins. `AnswersAreExact` needs that of an ordered history the admissions
which count are exactly those the bucket holds (`AnswersInv`).

It also proves `ListIsWhole`, `SavedIsKept` and the types of the favourites for
any catalogues, stored lists and overlapping requests, and that they implement
`FavoritesList`. `Ready` says of a request between its two statements that what it
will write can be shown and, if nobody wrote since it read, has all that is not
given up. For the refinement `SoloInv` adds that a client which sends one request
at a time has at most one slot at work, whose read is still the row.

`ContactFormProofs` proves `TypeOK`, `CountsTheWindow`, `RecordedOncePerWindow`,
`DuplicateIsFresh` and `MailedOnce` for any number of requests and any windows,
although `NOW()` of overlapping statements may go back. `Held` says what a request
at each await has (an address when it is counted, a message when it works);
`DedupeInv` that a record ends one window after the last pass of its message,
which is what makes the guard of the upsert enough; `Budget` that the mails of a
message and the requests that may still mail it are together no more than those
that were let through.

`GatewayProofs` proves the run's four properties and the types, for any requests,
keys, limit and lives. `ActiveIsOpen` is inductive with the types.
`HeldUntilExpiry` is not inductive: the invariant `Ledger` says of *every* live
key that is missing that as many keys as the limit live at least as long as it: it had to make
room, and while it lives those do too. `HitIsRecent`
needs for each entry, and for each request that has fetched, how old at most its
version is.

`GatewaySessionProofs` proves its four properties under `SessionTimes`. `Timing`:
what a handler is about to store counts from its beginning at least, so the
writes of overlapping requests differ by at most one timeout. `Trust`: a session
being issued is known to nobody; a call that is sure carries the session its
token was issued with, or one that was set with a later cookie; the cookie in the
jar is backed by a row that lives, in the table or in the hands of a handler that
will write it. Without the margin of 30 s the step from token to cookie fails.

`FmdProofs` proves its three safety properties and the types. The invariant adds
that a queue holds waiting requests only and each once (`Queues`), that a live
connection has a process at the port (`Served`) and that a refused subrequest
leaves the flag by which the page will be rejected (`Sound`). That no more render
than there are permits is the guard of admission itself; what follows from it, a
single render (`Single`) that has the port to itself, is what `OwnBrowser` rests on.

`PageProofs` proves the six safety properties of `Frontend` and the types of all
pages, each with the invariant of one page and the fact that the router touches
that page only by opening and dropping it.

* Contact, tools, player: a form waiting for its challenge is drawn or can still
  be drawn; a conversion shown as under way is; a player's address keeps the shape
  of a routed path at any depth of playlists.
* `PlaysTheSelected` (`TunerOK`): unless a choice overtook another, an address is
  awaited by the selected station only, and only once.
* `ListIsABeginning` has two parts. `FoundIsTheListing`: intersecting the index
  lists from the shortest one finds exactly the stations that fit, in order, if
  the query is `Plain` (no label twice on a station, none with a capital outside
  ASCII; without that it is false, and the listing of the code shows a station
  twice). `ListOK`: at most one call is under way for the current filters, it asks
  for what comes next, and the list is the answer up to there. The assumptions say
  that lower-casing leaves no ASCII capital and that an absent offset is no number.
* `CdWalksTheTree`: `WalkIsNormal`, by a least counterexample over the segments: as
  long as a walk through the directories has not failed, the normalised text stands
  where the walk does. It needs that directories are closed under parents, that no
  directory is named `..`, `.`, or not at all (`SandboxConstants`), and that the page
  only ever believes to be in a directory (`TerminalInv`), as every answer that
  names one names a directory. `TerminalInv` also has that a command is only under
  way when the page is online, which is why `Answered` need not clear the error.

So every safety invariant, action property and refinement that a passing run
checks is also a theorem. Only model-checked are the four liveness properties,
`OnlyUpstreamBlocks`, `LockReleased`, `Admitted` and `SpinnerStops`: fairness needs
ENABLED, which is beyond the prover. The two violated runs are counterexamples and
have nothing to prove.

## What the models brought to light

Two violated runs contradict what the repository itself says:

* **A refresh can be missed by its waiter.** `wait_for_external_refresh` reads
  the version it compares with *after* the try-lock failed (AS:544). If the
  other refresh commits in between, the waiter waits for a version that is
  already there and fails with "timed out waiting for another refresh task to
  complete".
* **No contact request is refused by the rate limit.** The count is stored but
  not decoded, and an error of the store lets the request pass; `docs.rs:160`
  documents the refusal.

Noticed while the modules were written, and modelled as the code is:

* Radio: a request dropped while the reply to its try-lock is on the way leaves the
  lock with its pooled connection. The other processes, and the tasks of its own
  that get another connection, then wait for a refresh nobody makes and time out,
  until the pool closes that connection or its process ends. A refresh whose
  listing is unchanged answers with stations that differ from the stored ones
  when the validation ends differently (`refresh.rs:28`).
  Of two overlapping changes of one list of favourites the later write undoes the
  earlier one, though both were told of success. A redirecting stream's verdict is
  stored under the URL it ended at and not found by the next refresh
  (`stream_validation.rs:151`), and the reading of its body has no timeout. A
  directory that shifts between two pages lists a station twice.
  A station whose tag occurs twice is listed twice; a country with a capital
  outside ASCII finds nothing. Relative lines of a playlist are resolved against
  the station's address and not the one a redirect led to, and segments of a
  foreign domain are offered although they will be refused.
* Gateway: a message whose mail failed cannot be sent again within the window,
  its retry is refused as a duplicate. `trim_start_matches` removes a prefix as
  often as it is repeated. Bodies are buffered whole.
* Terminal: a failed `/info` leaves the page offline until it is opened again; its
  banner's `cd ~` leaves the page offline but is a 404 online. A refused POST does
  not clear the token. The message of the day is written below the sandbox's root
  and read from the real path.
* Radio page: the answers of an earlier filter may replace or extend the list of
  the current one, and a late resolved address plays a station that is no longer
  selected.
* Contact page: a failed session is never asked for again, and what it showed is
  cleared by a failing configuration; a script that an earlier visit was loading
  leaves the challenge undrawn; a used token is sent again after a failed message;
  a blocked script raises no error.
* Tools: Enter starts a conversion while one runs; the file is named for the
  current address and not for the converted one.
* fmd: a stray process keeps the port; a later render's own process exits and
  the render is connected to the stray.

A property that such a case would break excepts it and holds of the rest, so the
case itself is not caught by it:

| property | excepts |
|---|---|
| `LockReleased` | grants leaked before their guard was made (`leaks`), and the task that waits for upstream |
| `ImplementsList` | clients whose requests overlap |
| `ActiveIsOpen` | dropped requests, which the gauge counts for ever (`dropped`) |
| `StraysAreLost`, `OwnBrowser` | the processes of early exits, and renders connected to one of them (`lost`) |
| `ListIsABeginning` | filters changed while a call is under way (`inOrder`); queries that are not `Plain`: a label twice on a station, a capital outside ASCII |
| `PlaysTheSelected` | a station chosen while the address of another is being resolved (`overtaken`) |
| `ChallengeIsOffered` | a visit that met the script an earlier visit was still loading (`late`) |
| `ConversionIsShown` | which result is shown when the conversion was started while another ran (`mixed`) |
| `KeptIsTheListing` | a directory that changes between the first and the last of its pages |
| `CdWalksTheTree` | a walk that meets a directory that does not exist |

## Not modelled

* Pure text: sanitizing and fingerprints of fields, HTML to Markdown, drawing an
  image in characters, header and cookie parsing, CORS, generated documentation.
  They keep no state; what the models need of their results is a choice or an
  identity.
* Rendering and static content: blog, how-to, games, swagger page, cookie banner,
  share dialog, the audio element and what hls.js does inside.
* Configuration, logging, deployment, and two modules nothing uses
  (`src/cache` of the radio service, `redis_client.rs` of the gateway).
* The memory stores that replace Postgres for sessions and the contact form when
  no database is configured.
* Two rare ways of the catalogue: a pool of one connection, which the lock's
  guard holds while its own `persist_payload` waits for another
  (`PG_MAX_CONNECTIONS`, `config.rs:125`), and the loss of the lock's session
  during a refresh (AS:411). No property is stated of how long a process's memory
  may lag behind: a load that read the older catalogue before another task of its
  process synchronised to the newer one puts the older back.
* The radio page's favourites, its midnight station, and a catalogue that changes
  while the page is open.

## Plan

What would add most next, in this order:

1. The pool's limit and the loss of the lock's session in `StationRefresh`, with
   `RefreshExclusive` restated for sessions that live, and re-proved.
2. The radio page's favourites on top of `Favorites`, whose lost updates its
   optimistic list meets; a catalogue that changes between two pages.
3. The memory stores of the sessions, against `GatewaySession` as the promise.
