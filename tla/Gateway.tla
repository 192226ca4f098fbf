------------------------------ MODULE Gateway ------------------------------
(***************************************************************************)
(* A request on its way through one gateway process: app.rs checks it and  *)
(* counts it (metrics.rs, request_context.rs), session.rs validates its    *)
(* session (GatewaySession), and proxy.rs answers it from the cache        *)
(* (cache.rs) or from the service behind, filling the cache on the way.    *)
(* Requests overlap at every await, and TimeoutLayer drops one that lasts  *)
(* longer than RequestTimeout.                                             *)
(*                                                                         *)
(* The content of the radio service's lists is a version that changes from *)
(* time to time.  A path is the sequence of what stands between its        *)
(* slashes, without a slash at its end, each piece a name that is          *)
(* percent-encoded some times over; no name begins with another.           *)
(***************************************************************************)
EXTENDS Naturals, Sequences, FiniteSets, Functions

CONSTANTS
    Requests,        \* requests that may be open together
    Calls,           \* what a browser asks for
    NoKey,           \* no key: a request that is never cached
    FmdToken,        \* whether FMD_TOKEN is configured
    MaxEntries,      \* CACHE_MEMORY_MAX_ENTRIES, at least 10 in the code
    Ttl,             \* CACHE_TTL_SECONDS
    RequestTimeout,  \* UPSTREAM_TIMEOUT_MS
    MaxVersion,      \* bound of the model: versions of the lists
    MaxClock,        \* bound of the model: the last moment
    MaxGone          \* bound of the model: drops after which no client goes away

ASSUME GatewayConstants ==
    /\ IsFiniteSet(Requests)
    /\ FmdToken \in BOOLEAN
    /\ MaxEntries \in Nat \ {0} /\ Ttl \in Nat \ {0}
    /\ RequestTimeout \in Nat /\ MaxVersion \in Nat /\ MaxClock \in Nat
    /\ MaxGone \in Nat

----------------------------------------------------------------------------
\* routing.rs: what a call means.

Services == {"radio", "terminal", "fmd"}

\* A piece of a path once it is decoded until it is stable, three times at most.
Decoded(piece) == [piece EXCEPT !.coded = IF @ > 3 THEN @ - 3 ELSE 0]

\* What leads up the tree is refused, even where one more decoding would show
\* it, and so is an empty piece.
ContainsTraversal(piece) ==
    \/ piece.name = ""
    \/ piece.name \in {"..", "\\"} /\ Decoded(piece).coded <= 1

\* trim_start_matches takes the prefix away as often as it stands there.
Suffix(path) ==
    LET repeated == {n \in 1 .. Len(path) : \A i \in 1 .. n : path[i] = path[1]}
        most == CHOOSE n \in repeated : \A m \in repeated : m <= n
    IN  SubSeq(path, most + 1, Len(path))

\* The service and the decoded path behind its prefix; none for another path,
\* nor for one that parse_uri refuses.
DetermineTarget(call) ==
    {[service |-> service, path |-> [i \in DOMAIN Suffix(call.path) |-> Decoded(Suffix(call.path)[i])]] :
        service \in {s \in Services :
            /\ call.wellFormed /\ call.path # << >>
            /\ call.path[1] = [name |-> s, coded |-> 0]
            /\ \A i \in DOMAIN Suffix(call.path) : ~ContainsTraversal(Suffix(call.path)[i])}}

StartsWith(target, name) ==
    target.path # << >> /\ target.path[1] = [name |-> name, coded |-> 0]

ShouldCache(call, target) ==
    call.method = "GET" /\ target.service = "radio" /\ StartsWith(target, "stations")

\* The parameters are sorted by name, those of one name keep their order.
BuildCacheKey(call, target) ==
    [path |-> target.path,
     query |-> [name \in {call.query[i].name : i \in DOMAIN call.query} |->
                    SelectSeq(call.query, LAMBDA param : param.name = name)]]

RequiresBody(call) == call.method \notin {"GET", "HEAD"}

DocsAccess(target) ==
    target.service \in {"radio", "terminal"} /\ StartsWith(target, "docs")

\* A call that is let through, as far as its way differs.
Route(call, target) ==
    [kind |-> IF DocsAccess(target) THEN "docs"
              ELSE IF target.service = "fmd" THEN "fmd" ELSE "other",
     body |-> RequiresBody(call),
     key |-> IF ShouldCache(call, target) THEN BuildCacheKey(call, target) ELSE NoKey]

Routes == UNION {{Route(call, target) : target \in DetermineTarget(call)} : call \in Calls}
NoRoute == [kind |-> "none", body |-> FALSE, key |-> NoKey]
Keys == {route.key : route \in Routes} \ {NoKey}

VARIABLES
    clock,
    version,   \* the current version of the lists
    replaced,  \* history: when each version was replaced, 0 if it was not
    cache,     \* MemoryCache.store: the entries, by key
    filled,    \* history: when each key was last filled, 0 if never
    active,    \* GatewayMetrics.active_requests
    dropped,   \* history: requests whose handler was dropped
    req        \* the requests

upstreamVars == <<version, replaced>>
cacheVars == <<cache, filled>>
vars == <<clock, version, replaced, cache, filled, active, dropped, req>>

Versions == 0 .. MaxVersion
Entry == [version: Versions, expires: Nat]

\* A request that is not open: hit says whether its answer came from the
\* cache, version which lists it showed, and due when.
Over == [pc |-> "over", route |-> NoRoute, version |-> 0, due |-> 0, hit |-> FALSE]
Open == {"session", "body", "lookup", "fetch", "fetched"}

TypeOK ==
    /\ clock \in Nat /\ version \in Versions
    /\ replaced \in [Versions -> Nat]
    /\ DOMAIN cache \subseteq Keys /\ \A k \in DOMAIN cache : cache[k] \in Entry
    /\ filled \in [Keys -> Nat]
    /\ active \in Nat /\ dropped \in Nat
    /\ req \in [Requests -> [pc: Open \cup {"over"}, route: Routes \cup {NoRoute},
                             version: Versions, due: Nat, hit: BOOLEAN]]

Init ==
    /\ clock = 1 /\ version = 0
    /\ replaced = [v \in Versions |-> 0]
    /\ cache = << >>
    /\ filled = [k \in Keys |-> 0]
    /\ active = 0 /\ dropped = 0
    /\ req = [r \in Requests |-> Over]

----------------------------------------------------------------------------
\* The cache: an entry is kept until it expires, the one nearest to its end
\* makes room.  Every access prunes first, a read as well as a write.

\* Mutant: an entry that expires now is still answered.
AliveAtItsEnd(store) == Restrict(store, {k \in DOMAIN store : store[k].expires >= clock})

Alive(store) == Restrict(store, {k \in DOMAIN store : store[k].expires > clock})

Soonest(store) == {k \in DOMAIN store : \A j \in DOMAIN store : store[k].expires <= store[j].expires}

\* Mutant: an expired entry, or one too many, is dropped, never both.
PrunedOfOne(store) ==
    IF Alive(store) # store \/ Cardinality(DOMAIN store) < MaxEntries + 1
    THEN {Alive(store)}
    ELSE {Restrict(store, DOMAIN store \ {k}) : k \in Soonest(store)}

\* Mutant: room is made one entry too early.
PrunedEarly(store) ==
    IF Cardinality(DOMAIN Alive(store)) + 1 < MaxEntries
    THEN {Alive(store)}
    ELSE {Restrict(store, DOMAIN Alive(store) \ {k}) : k \in DOMAIN Alive(store)}

\* What prune may leave of a store of at most MaxEntries entries.
Pruned(store) ==
    IF Cardinality(DOMAIN Alive(store)) < MaxEntries
    THEN {Alive(store)}
    ELSE {Restrict(store, DOMAIN Alive(store) \ {k}) : k \in Soonest(Alive(store))}

Inserted(store, k, v) ==
    [j \in DOMAIN store \cup {k} |->
        IF j = k THEN [version |-> v, expires |-> clock + Ttl] ELSE store[j]]

----------------------------------------------------------------------------
\* app.rs, proxy.rs

\* RequestContext::complete, with an answer that is not from the cache.
Complete(r) ==
    /\ active' = active - 1
    /\ req' = [req EXCEPT ![r] = Over]

Goto(r, pc) ==
    req' = [req EXCEPT ![r].pc = pc] /\ UNCHANGED active

\* Up to the first await: a preflight is answered 204, a request that cannot
\* be parsed 400, an unknown path 404, a foreign origin 403, and while the
\* last measured lag is too long any other 503; the rest wait for a session.
Arrive(r, route) ==
    /\ req[r].pc = "over"
    /\ clock + RequestTimeout <= MaxClock
    /\ active' = active + 1
    /\ req' = [req EXCEPT ![r] = [Over EXCEPT !.pc = "session", !.route = route,
                                             !.due = clock + RequestTimeout]]
    /\ UNCHANGED <<clock, upstreamVars, cacheVars, dropped>>

\* Behind the session and the body: the fetch service needs its token.
Forward(r) ==
    IF req[r].route.kind = "fmd" /\ ~FmdToken THEN Complete(r)
    ELSE Goto(r, IF req[r].route.key # NoKey THEN "lookup" ELSE "fetch")

\* Mutant: the early return of a refused session forgets the context.
SessionUncounted(r, valid) ==
    /\ req[r].pc = "session"
    /\ IF valid \/ req[r].route.kind = "docs"
       THEN IF req[r].route.body THEN Goto(r, "body") ELSE Forward(r)
       ELSE req' = [req EXCEPT ![r] = Over] /\ UNCHANGED active
    /\ UNCHANGED <<clock, upstreamVars, cacheVars, dropped>>

\* The documentation is shown without a session too; a refusal is 401, 403
\* or 500.
Session(r, valid) ==
    /\ req[r].pc = "session"
    /\ IF valid \/ req[r].route.kind = "docs"
       THEN IF req[r].route.body THEN Goto(r, "body") ELSE Forward(r)
       ELSE Complete(r)
    /\ UNCHANGED <<clock, upstreamVars, cacheVars, dropped>>

\* A body that cannot be read is answered 400, and only then a missing token
\* of the fetch service 503.
Body(r, read) ==
    /\ req[r].pc = "body"
    /\ IF read THEN Forward(r) ELSE Complete(r)
    /\ UNCHANGED <<clock, upstreamVars, cacheVars, dropped>>

Lookup(r) ==
    /\ req[r].pc = "lookup"
    /\ cache' \in Pruned(cache)
    /\ IF req[r].route.key \in DOMAIN cache'
       THEN /\ active' = active - 1
            /\ req' = [req EXCEPT ![r] = [Over EXCEPT !.hit = TRUE, !.due = clock,
                                            !.version = cache'[req[r].route.key].version]]
       ELSE Goto(r, "fetch")
    /\ UNCHANGED <<clock, upstreamVars, filled, dropped>>

\* The service answers with the lists of that moment.
Fetch(r) ==
    /\ req[r].pc = "fetch"
    /\ req' = [req EXCEPT ![r].pc = "fetched", ![r].version = version]
    /\ UNCHANGED <<clock, upstreamVars, cacheVars, active, dropped>>

\* No connection, or half an answer: 502.
FetchFails(r) ==
    /\ req[r].pc \in {"fetch", "fetched"}
    /\ Complete(r)
    /\ UNCHANGED <<clock, upstreamVars, cacheVars, dropped>>

\* Only a successful answer in JSON, and not too long, is kept.
Fill(r, kept) ==
    /\ req[r].pc = "fetched"
    /\ IF kept /\ req[r].route.key # NoKey
       THEN /\ \E store \in Pruned(cache) : cache' = Inserted(store, req[r].route.key, req[r].version)
            /\ filled' = [filled EXCEPT ![req[r].route.key] = clock]
       ELSE UNCHANGED cacheVars
    /\ Complete(r)
    /\ UNCHANGED <<clock, upstreamVars, dropped>>

\* TimeoutLayer drops the handler, or hyper does when the client has gone:
\* nothing completes the context.
Drop(r) ==
    /\ req[r].pc \in Open
    /\ clock = req[r].due \/ dropped < MaxGone
    /\ dropped' = dropped + 1
    /\ req' = [req EXCEPT ![r] = Over]
    /\ UNCHANGED <<clock, upstreamVars, cacheVars, active>>

Update ==
    /\ version < MaxVersion
    /\ version' = version + 1
    /\ replaced' = [replaced EXCEPT ![version] = clock]
    /\ UNCHANGED <<clock, cacheVars, active, dropped, req>>

Tick ==
    /\ clock < MaxClock
    /\ \A r \in Requests : req[r].pc \in Open => clock < req[r].due
    /\ clock' = clock + 1
    /\ UNCHANGED <<upstreamVars, cacheVars, active, dropped, req>>

Handle(r) ==
    \/ \E valid \in BOOLEAN : Session(r, valid)
    \/ \E read \in BOOLEAN : Body(r, read)
    \/ Lookup(r)
    \/ \E kept \in BOOLEAN : Fill(r, kept)

Next ==
    \/ \E r \in Requests :
          \/ \E route \in Routes : Arrive(r, route)
          \/ Handle(r) \/ Fetch(r) \/ FetchFails(r) \/ Drop(r)
    \/ Update \/ Tick

Spec == Init /\ [][Next]_vars

----------------------------------------------------------------------------
\* An answer from the cache was current no longer ago than the life of an
\* entry and the longest request together, though the entry was read long
\* before it was stored (Proxy::forward, MemoryCache::set).
HitIsRecent ==
    \A r \in Requests :
        req[r].hit =>
            \/ replaced[req[r].version] = 0
            \/ replaced[req[r].version] + Ttl + RequestTimeout > req[r].due

\* The cache never exceeds its limit, by however many requests it is filled.
CacheBounded == Cardinality(DOMAIN cache) <= MaxEntries

\* While fewer keys than the limit are filled, each stays in the cache for
\* all its life: a read of another key does not make room (MemoryCache::prune).
Live(k) == filled[k] # 0 /\ filled[k] + Ttl > clock

HeldUntilExpiry ==
    \A k \in Keys :
        Live(k) /\ Cardinality({j \in Keys : Live(j)}) < MaxEntries => k \in DOMAIN cache

\* active_requests counts the open requests, and for ever those that were
\* dropped: no way out of handle_proxy forgets to complete its context.
ActiveIsOpen ==
    active = Cardinality({r \in Requests : req[r].pc \in Open}) + dropped
=============================================================================
