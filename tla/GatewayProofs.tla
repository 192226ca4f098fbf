--------------------------- MODULE GatewayProofs ---------------------------
(***************************************************************************)
(* What holds of a request's way through the gateway for any calls, any    *)
(* number of requests, and any size and lifetimes of the cache.            *)
(***************************************************************************)
EXTENDS Gateway, FiniteSetTheorems, TLAPS

-----------------------------------------------------------------------------
(* Operators *)

\* What prune leaves: entries that live on, unchanged, and room for one more.
\* An entry that lives and is not left is the one nearest to its end in a full
\* cache.
LEMMA PrunedKeeps ==
  ASSUME NEW store, IsFiniteSet(DOMAIN store), Cardinality(DOMAIN store) <= MaxEntries,
         NEW left \in Pruned(store)
  PROVE  /\ DOMAIN left \subseteq DOMAIN Alive(store)
         /\ \A k \in DOMAIN left : left[k] = store[k]
         /\ IsFiniteSet(DOMAIN left) /\ Cardinality(DOMAIN left) <= MaxEntries - 1
         /\ \A k \in DOMAIN Alive(store) \ DOMAIN left :
               /\ Cardinality(DOMAIN Alive(store)) >= MaxEntries
               /\ \A j \in DOMAIN Alive(store) : store[k].expires <= store[j].expires
<1> DEFINE Living == {k \in DOMAIN store : store[k].expires > clock}
<1>1. /\ DOMAIN Alive(store) = Living
      /\ \A k \in Living : Alive(store)[k] = store[k]
  BY DEF Alive, Restrict
<1>2. Living \subseteq DOMAIN store
  OBVIOUS
<1> HIDE DEF Living
<1>3. /\ IsFiniteSet(Living) /\ Cardinality(Living) \in Nat
      /\ Cardinality(Living) <= MaxEntries
  <2>1. IsFiniteSet(Living) /\ Cardinality(Living) <= Cardinality(DOMAIN store)
    BY <1>2, FS_Subset
  <2>2. Cardinality(Living) \in Nat /\ Cardinality(DOMAIN store) \in Nat
    BY <2>1, FS_CardinalityType
  <2> QED BY <2>1, <2>2, GatewayConstants
<1>4. CASE Cardinality(Living) < MaxEntries
  <2>1. left = Alive(store)
    BY <1>1, <1>4 DEF Pruned
  <2> QED BY <1>1, <1>3, <1>4, <2>1, GatewayConstants
<1>5. CASE ~(Cardinality(Living) < MaxEntries)
  <2>1. PICK k \in Soonest(Alive(store)) : left = Restrict(store, Living \ {k})
    BY <1>1, <1>5 DEF Pruned
  <2>2. k \in Living /\ \A j \in Living : store[k].expires <= store[j].expires
    BY <1>1 DEF Soonest
  <2>3. DOMAIN left = Living \ {k} /\ \A j \in Living \ {k} : left[j] = store[j]
    BY <2>1 DEF Restrict
  <2>4. /\ IsFiniteSet(Living \ {k})
        /\ Cardinality(Living \ {k}) = Cardinality(Living) - 1
    BY <1>3, <2>2, FS_RemoveElement
  <2>5. Cardinality(Living) >= MaxEntries /\ Cardinality(Living) - 1 <= MaxEntries - 1
    BY <1>3, <1>5, GatewayConstants
  <2> QED BY <1>1, <2>2, <2>3, <2>4, <2>5
<1> QED BY <1>4, <1>5

\* A request that is cached has one of the keys.
LEMMA RouteHasKey ==
  ASSUME NEW route \in Routes \cup {NoRoute}, route.key # NoKey
  PROVE  route.key \in Keys
BY DEF Keys, NoRoute

-----------------------------------------------------------------------------
(* Types *)

LEMMA InitTypes == Init => TypeOK
BY GatewayConstants DEF Init, TypeOK, Versions, Over, Entry

\* The cache keeps its type: what prune leaves, and what is inserted.
LEMMA CacheTypes ==
  ASSUME TypeOK, NEW left \in Pruned(cache)
  PROVE  DOMAIN left \subseteq Keys /\ \A k \in DOMAIN left : left[k] \in Entry
<1>1. DOMAIN left \subseteq DOMAIN cache /\ \A k \in DOMAIN left : left[k] = cache[k]
  <2>1. CASE left = Alive(cache)
    BY <2>1 DEF Alive, Restrict
  <2>2. CASE left # Alive(cache)
    <3>1. PICK k \in Soonest(Alive(cache)) : left = Restrict(cache, DOMAIN Alive(cache) \ {k})
      BY <2>2 DEF Pruned
    <3> QED BY <3>1 DEF Alive, Restrict
  <2> QED BY <2>1, <2>2
<1> QED BY <1>1 DEF TypeOK

LEMMA InsertedTypes ==
  ASSUME TypeOK, NEW left, DOMAIN left \subseteq Keys, \A k \in DOMAIN left : left[k] \in Entry,
         NEW key \in Keys, NEW v \in Versions
  PROVE  /\ DOMAIN Inserted(left, key, v) \subseteq Keys
         /\ \A k \in DOMAIN Inserted(left, key, v) : Inserted(left, key, v)[k] \in Entry
BY GatewayConstants DEF TypeOK, Inserted, Entry

\* A step that is neither a call's arrival nor its answer from the cache or
\* the service: the call is completed or goes on.
LEMMA PassOrEnd ==
  ASSUME NEW r \in Requests,
         \/ \E valid \in BOOLEAN : Session(r, valid)
         \/ \E read \in BOOLEAN : Body(r, read)
         \/ FetchFails(r)
  PROVE  /\ req[r].pc \in Open
         /\ Complete(r) \/ \E pc \in Open \ {"fetched"} : Goto(r, pc)
         /\ UNCHANGED <<clock, version, replaced, cache, filled, dropped>>
<1>1. Forward(r) => Complete(r) \/ \E pc \in {"lookup", "fetch"} : Goto(r, pc)
  BY DEF Forward
<1>2. CASE \E valid \in BOOLEAN : Session(r, valid)
  BY <1>1, <1>2 DEF Session, Open, upstreamVars, cacheVars
<1>3. CASE \E read \in BOOLEAN : Body(r, read)
  BY <1>1, <1>3 DEF Body, Open, upstreamVars, cacheVars
<1>4. CASE FetchFails(r)
  BY <1>4 DEF FetchFails, Open, upstreamVars, cacheVars
<1> QED BY <1>2, <1>3, <1>4

-----------------------------------------------------------------------------
(* The gauge of active requests *)

OpenRequests == {r \in Requests : req[r].pc \in Open}

LEMMA OpenIsFinite == IsFiniteSet(OpenRequests) /\ Cardinality(OpenRequests) \in Nat
BY GatewayConstants, FS_Subset, FS_CardinalityType DEF OpenRequests

\* A request that is over no longer counts, and one that goes on still does.
LEMMA Closes ==
  ASSUME TypeOK, NEW r \in Requests, req[r].pc \in Open,
         NEW over, over.pc = "over", req' = [req EXCEPT ![r] = over]
  PROVE  /\ Cardinality(OpenRequests') = Cardinality(OpenRequests) - 1
         /\ Cardinality(OpenRequests) \in Nat \ {0}
<1>1. OpenRequests' = OpenRequests \ {r} /\ r \in OpenRequests
  BY DEF OpenRequests, Open, TypeOK
<1>2. Cardinality(OpenRequests') = Cardinality(OpenRequests) - 1
  BY <1>1, OpenIsFinite, FS_RemoveElement
<1>3. Cardinality(OpenRequests) # 0
  BY <1>1, OpenIsFinite, FS_EmptySet
<1> QED BY <1>2, <1>3, OpenIsFinite

LEMMA GoesOn ==
  ASSUME TypeOK, NEW r \in Requests, req[r].pc \in Open,
         NEW pc \in Open, Goto(r, pc)
  PROVE  OpenRequests' = OpenRequests
BY DEF OpenRequests, TypeOK, Goto

LEMMA Opens ==
  ASSUME TypeOK, NEW r \in Requests, NEW route \in Routes, Arrive(r, route)
  PROVE  Cardinality(OpenRequests') = Cardinality(OpenRequests) + 1
<1>1. OpenRequests' = OpenRequests \cup {r} /\ r \notin OpenRequests
  BY DEF OpenRequests, Open, TypeOK, Arrive, Over
<1> QED BY <1>1, OpenIsFinite, FS_AddElement

\* The gauge is a number too: a request that is completed was counted.
LEMMA GaugeStep ==
  ASSUME TypeOK, ActiveIsOpen, [Next]_vars
  PROVE  ActiveIsOpen' /\ active' \in Nat
<1> DEFINE Count == Cardinality(OpenRequests)
<1>1. Count \in Nat /\ active = Count + dropped /\ dropped \in Nat
  BY OpenIsFinite DEF ActiveIsOpen, OpenRequests, TypeOK
<1>2. SUFFICES /\ active' = Count' + dropped'
               /\ Count' \in Nat /\ dropped' \in Nat
  BY DEF ActiveIsOpen, OpenRequests
<1>3. ASSUME OpenRequests' = OpenRequests, active' = active, dropped' = dropped
      PROVE  active' = Count' + dropped' /\ Count' \in Nat /\ dropped' \in Nat
  BY <1>1, <1>3
<1>4. ASSUME NEW r \in Requests, Complete(r), req[r].pc \in Open, dropped' = dropped
      PROVE  active' = Count' + dropped' /\ Count' \in Nat /\ dropped' \in Nat
  <2>1. Count' = Count - 1 /\ Count \in Nat \ {0}
    BY <1>4, Closes DEF Complete, Over
  <2> QED BY <1>1, <1>4, <2>1 DEF Complete
<1>5. ASSUME NEW r \in Requests, NEW route \in Routes, Arrive(r, route)
      PROVE  active' = Count' + dropped' /\ Count' \in Nat /\ dropped' \in Nat
  <2>1. Count' = Count + 1
    BY <1>5, Opens
  <2>2. active' = active + 1 /\ dropped' = dropped
    BY <1>5 DEF Arrive
  <2> QED BY <1>1, <2>1, <2>2
<1>6. ASSUME NEW r \in Requests,
             \/ \E valid \in BOOLEAN : Session(r, valid)
             \/ \E read \in BOOLEAN : Body(r, read)
             \/ FetchFails(r)
      PROVE  active' = Count' + dropped' /\ Count' \in Nat /\ dropped' \in Nat
  <2>1. CASE Complete(r)
    BY <1>4, <1>6, <2>1, PassOrEnd
  <2>2. CASE \E pc \in Open : Goto(r, pc)
    BY <1>3, <1>6, <2>2, PassOrEnd, GoesOn DEF Goto
  <2> QED BY <1>6, <2>1, <2>2, PassOrEnd
<1>7. ASSUME NEW r \in Requests, Lookup(r)
      PROVE  active' = Count' + dropped' /\ Count' \in Nat /\ dropped' \in Nat
  <2>1. CASE Goto(r, "fetch")
    BY <1>3, <1>7, <2>1, GoesOn DEF Lookup, Goto, Open
  <2>2. CASE ~Goto(r, "fetch")
    <3>1. PICK over : over.pc = "over" /\ req' = [req EXCEPT ![r] = over]
      <4>1. req' = [req EXCEPT ![r] = [Over EXCEPT !.hit = TRUE, !.due = clock,
                                          !.version = cache'[req[r].route.key].version]]
        BY <1>7, <2>2 DEF Lookup
      <4>2. [Over EXCEPT !.hit = TRUE, !.due = clock,
                         !.version = cache'[req[r].route.key].version].pc = "over"
        BY DEF Over
      <4> QED BY <4>1, <4>2
    <3>2. Count' = Count - 1 /\ Count \in Nat \ {0}
      BY <1>7, <3>1, Closes DEF Lookup, Open
    <3> QED BY <1>1, <1>7, <2>2, <3>2 DEF Lookup
  <2> QED BY <2>1, <2>2
<1>8. ASSUME NEW r \in Requests, NEW kept \in BOOLEAN, Fill(r, kept)
      PROVE  active' = Count' + dropped' /\ Count' \in Nat /\ dropped' \in Nat
  BY <1>4, <1>8 DEF Fill, Open
<1>9. ASSUME NEW r \in Requests, Fetch(r)
      PROVE  active' = Count' + dropped' /\ Count' \in Nat /\ dropped' \in Nat
  <2>1. OpenRequests' = OpenRequests
    BY <1>9 DEF Fetch, OpenRequests, Open, TypeOK
  <2> QED BY <1>3, <1>9, <2>1 DEF Fetch
<1>10. ASSUME NEW r \in Requests, Drop(r)
       PROVE  active' = Count' + dropped' /\ Count' \in Nat /\ dropped' \in Nat
  <2>1. Count' = Count - 1 /\ Count \in Nat \ {0}
    BY <1>10, Closes DEF Drop, Over
  <2> QED BY <1>1, <1>10, <2>1 DEF Drop
<1>11. CASE Update \/ Tick \/ UNCHANGED vars
  BY <1>3, <1>11 DEF Update, Tick, vars, OpenRequests
<1> QED BY <1>5, <1>6, <1>7, <1>8, <1>9, <1>10, <1>11 DEF Next, Handle

LEMMA TypeStep ==
  ASSUME TypeOK, ActiveIsOpen, [Next]_vars
  PROVE  TypeOK'
<1> USE GatewayConstants
<1> DEFINE Request == [pc: Open \cup {"over"}, route: Routes \cup {NoRoute},
                       version: Versions, due: Nat, hit: BOOLEAN]
           Others == /\ clock' \in Nat /\ version' \in Versions /\ replaced' \in [Versions -> Nat]
                     /\ DOMAIN cache' \subseteq Keys /\ \A k \in DOMAIN cache' : cache'[k] \in Entry
                     /\ filled' \in [Keys -> Nat] /\ dropped' \in Nat
<1>1. SUFFICES Others /\ req' \in [Requests -> Request]
  BY GaugeStep DEF TypeOK
<1>2. Over \in Request /\ req \in [Requests -> Request]
  BY DEF Over, TypeOK, Versions
<1>3. UNCHANGED <<clock, version, replaced, cache, filled, dropped>> => Others
  BY DEF TypeOK, Entry, Versions
<1>4. ASSUME NEW r \in Requests, Complete(r)
      PROVE  req' \in [Requests -> Request]
  BY <1>2, <1>4 DEF Complete
<1>5. ASSUME NEW r \in Requests, NEW pc \in Open, Goto(r, pc)
      PROVE  req' \in [Requests -> Request]
  BY <1>2, <1>5 DEF Goto
<1>6. ASSUME NEW r \in Requests, NEW route \in Routes, Arrive(r, route)
      PROVE  Others /\ req' \in [Requests -> Request]
  <2>1. [Over EXCEPT !.pc = "session", !.route = route, !.due = clock + RequestTimeout] \in Request
    <3>1. "session" \in Open /\ clock + RequestTimeout \in Nat
      BY DEF Open, TypeOK
    <3> QED BY <1>2, <3>1
  <2>2. req' \in [Requests -> Request]
    BY <1>2, <1>6, <2>1 DEF Arrive
  <2> QED BY <1>3, <1>6, <2>2 DEF Arrive, upstreamVars, cacheVars
<1>7. ASSUME NEW r \in Requests,
             \/ \E valid \in BOOLEAN : Session(r, valid)
             \/ \E read \in BOOLEAN : Body(r, read)
             \/ FetchFails(r)
      PROVE  Others /\ req' \in [Requests -> Request]
  BY <1>3, <1>4, <1>5, <1>7, PassOrEnd
<1>8. ASSUME NEW r \in Requests, Lookup(r)
      PROVE  Others /\ req' \in [Requests -> Request]
  <2>1. DOMAIN cache' \subseteq Keys /\ \A k \in DOMAIN cache' : cache'[k] \in Entry
    BY <1>8, CacheTypes DEF Lookup
  <2>2. CASE req[r].route.key \in DOMAIN cache'
    <3>1. cache'[req[r].route.key].version \in Versions
      BY <2>1, <2>2 DEF Entry
    <3>2. [Over EXCEPT !.hit = TRUE, !.due = clock,
                       !.version = cache'[req[r].route.key].version] \in Request
      BY <1>2, <3>1 DEF Over, TypeOK
    <3>3. req' \in [Requests -> Request]
      BY <1>2, <1>8, <2>2, <3>2 DEF Lookup
    <3> QED BY <1>8, <2>1, <3>3 DEF Lookup, TypeOK, upstreamVars
  <2>3. CASE req[r].route.key \notin DOMAIN cache'
    BY <1>5, <1>8, <2>1, <2>3 DEF Lookup, TypeOK, Open, upstreamVars
  <2> QED BY <2>2, <2>3
<1>9. ASSUME NEW r \in Requests, NEW kept \in BOOLEAN, Fill(r, kept)
      PROVE  Others /\ req' \in [Requests -> Request]
  <2>1. CASE kept /\ req[r].route.key # NoKey
    <3>1. req[r].route.key \in Keys /\ req[r].version \in Versions
      BY <2>1, RouteHasKey DEF TypeOK
    <3>2. DOMAIN cache' \subseteq Keys /\ \A k \in DOMAIN cache' : cache'[k] \in Entry
      <4>1. PICK left \in Pruned(cache) :
               cache' = Inserted(left, req[r].route.key, req[r].version)
        BY <1>9, <2>1 DEF Fill
      <4>2. DOMAIN left \subseteq Keys /\ \A k \in DOMAIN left : left[k] \in Entry
        BY CacheTypes
      <4> QED BY <3>1, <4>1, <4>2, InsertedTypes
    <3> QED BY <1>4, <1>9, <2>1, <3>1, <3>2 DEF Fill, TypeOK, upstreamVars
  <2>2. CASE ~(kept /\ req[r].route.key # NoKey)
    BY <1>3, <1>4, <1>9, <2>2 DEF Fill, upstreamVars, cacheVars
  <2> QED BY <2>1, <2>2
<1>10. ASSUME NEW r \in Requests, Fetch(r)
       PROVE  Others /\ req' \in [Requests -> Request]
  BY <1>2, <1>3, <1>10 DEF Fetch, Open, TypeOK, upstreamVars, cacheVars
<1>11. ASSUME NEW r \in Requests, Drop(r)
       PROVE  Others /\ req' \in [Requests -> Request]
  BY <1>2, <1>11 DEF Drop, TypeOK, upstreamVars, cacheVars
<1>12. CASE Update
  BY <1>2, <1>12 DEF Update, TypeOK, cacheVars, Versions
<1>13. CASE Tick
  BY <1>2, <1>13 DEF Tick, TypeOK, upstreamVars, cacheVars
<1>14. CASE UNCHANGED vars
  BY <1>2, <1>3, <1>14 DEF vars
<1> HIDE DEF Others, Request
<1> QED BY <1>6, <1>7, <1>8, <1>9, <1>10, <1>11, <1>12, <1>13, <1>14 DEF Next, Handle

-----------------------------------------------------------------------------
(* The cache *)

\* The cache is never fuller than it may be, what it holds was filled when its
\* entry says, and a key that is missing though its life is not over had to
\* make room for as many that live at least as long.
CacheFits == IsFiniteSet(DOMAIN cache) /\ Cardinality(DOMAIN cache) <= MaxEntries

Outlives(k) == {j \in Keys : filled[j] # 0 /\ filled[j] >= filled[k]}

Ledger ==
  /\ clock # 0
  /\ IsFiniteSet({k \in Keys : filled[k] # 0})
  /\ \A k \in Keys : filled[k] <= clock
  /\ \A k \in DOMAIN cache : filled[k] # 0 /\ cache[k].expires = filled[k] + Ttl
  /\ \A k \in Keys \ DOMAIN cache : Live(k) => Cardinality(Outlives(k)) >= MaxEntries

LEMMA OutlivesIsFinite ==
  ASSUME Ledger, NEW k \in Keys
  PROVE  IsFiniteSet(Outlives(k)) /\ Cardinality(Outlives(k)) \in Nat
<1>1. Outlives(k) \in SUBSET {j \in Keys : filled[j] # 0}
  BY DEF Outlives
<1> QED BY <1>1, FS_Subset, FS_CardinalityType DEF Ledger

\* After prune the same holds of what it leaves.
LEMMA PrunedLedger ==
  ASSUME TypeOK, CacheFits, Ledger, NEW left \in Pruned(cache)
  PROVE  /\ IsFiniteSet(DOMAIN left) /\ Cardinality(DOMAIN left) <= MaxEntries - 1
         /\ DOMAIN left \subseteq Keys
         /\ \A k \in DOMAIN left : filled[k] # 0 /\ left[k].expires = filled[k] + Ttl
         /\ \A k \in Keys \ DOMAIN left : Live(k) => Cardinality(Outlives(k)) >= MaxEntries
<1>1. /\ DOMAIN left \subseteq DOMAIN Alive(cache)
      /\ \A k \in DOMAIN left : left[k] = cache[k]
      /\ IsFiniteSet(DOMAIN left) /\ Cardinality(DOMAIN left) <= MaxEntries - 1
      /\ \A k \in DOMAIN Alive(cache) \ DOMAIN left :
            /\ Cardinality(DOMAIN Alive(cache)) >= MaxEntries
            /\ \A j \in DOMAIN Alive(cache) : cache[k].expires <= cache[j].expires
  BY PrunedKeeps DEF CacheFits
<1>2. DOMAIN Alive(cache) = {k \in DOMAIN cache : cache[k].expires > clock}
  BY DEF Alive, Restrict
<1>3. ASSUME NEW k \in Keys \ DOMAIN left, Live(k)
      PROVE  Cardinality(Outlives(k)) >= MaxEntries
  <2>1. CASE k \notin DOMAIN cache
    BY <1>3, <2>1 DEF Ledger
  <2>2. CASE k \in DOMAIN cache
    <3>1. k \in DOMAIN Alive(cache)
      BY <1>2, <1>3, <2>2 DEF Ledger, Live
    <3>2. DOMAIN Alive(cache) \subseteq Outlives(k)
      <4> SUFFICES ASSUME NEW j \in DOMAIN Alive(cache) PROVE j \in Outlives(k)
        OBVIOUS
      <4>1. cache[k].expires <= cache[j].expires /\ j \in DOMAIN cache /\ j \in Keys
        BY <1>1, <1>2, <1>3, <3>1 DEF TypeOK
      <4>2. /\ cache[k].expires = filled[k] + Ttl /\ cache[j].expires = filled[j] + Ttl
            /\ filled[j] # 0
        BY <2>2, <4>1 DEF Ledger
      <4>3. filled[k] \in Nat /\ filled[j] \in Nat /\ Ttl \in Nat
        BY <4>1, GatewayConstants DEF TypeOK
      <4> QED BY <4>1, <4>2, <4>3 DEF Outlives
    <3>3. Cardinality(DOMAIN Alive(cache)) <= Cardinality(Outlives(k))
      BY <3>2, OutlivesIsFinite, FS_Subset
    <3>4. Cardinality(DOMAIN Alive(cache)) \in Nat
      BY <1>2, FS_Subset, FS_CardinalityType DEF CacheFits
    <3>5. Cardinality(DOMAIN Alive(cache)) >= MaxEntries
      BY <1>1, <1>3, <3>1
    <3> QED BY <3>3, <3>4, <3>5, OutlivesIsFinite, GatewayConstants
  <2> QED BY <2>1, <2>2
<1>4. DOMAIN left \subseteq DOMAIN cache
  BY <1>1, <1>2
<1> QED BY <1>1, <1>3, <1>4 DEF Ledger, TypeOK

LEMMA InitLedger == Init => CacheFits /\ Ledger
<1> SUFFICES ASSUME Init PROVE CacheFits /\ Ledger
  OBVIOUS
<1>1. DOMAIN cache = {} /\ \A k \in Keys : filled[k] = 0
  BY DEF Init
<1>2. {k \in Keys : filled[k] # 0} = {}
  BY <1>1
<1>3. CacheFits
  <2>1. IsFiniteSet(DOMAIN cache) /\ Cardinality(DOMAIN cache) = 0
    BY <1>1, FS_EmptySet
  <2> QED BY <2>1, GatewayConstants DEF CacheFits
<1>4. Ledger
  <2>1. clock = 1
    BY DEF Init
  <2>2. IsFiniteSet({k \in Keys : filled[k] # 0})
    BY <1>2, FS_EmptySet
  <2> QED BY <1>1, <2>1, <2>2 DEF Ledger, Live
<1> QED BY <1>3, <1>4

LEMMA FillLedger ==
  ASSUME TypeOK, CacheFits, Ledger, NEW key \in Keys, NEW v \in Versions,
         NEW left \in Pruned(cache), cache' = Inserted(left, key, v),
         filled' = [filled EXCEPT ![key] = clock], clock' = clock
  PROVE  CacheFits' /\ Ledger'
<1>1. /\ IsFiniteSet(DOMAIN left) /\ Cardinality(DOMAIN left) <= MaxEntries - 1
      /\ DOMAIN left \subseteq Keys
      /\ \A k \in DOMAIN left : filled[k] # 0 /\ left[k].expires = filled[k] + Ttl
      /\ \A k \in Keys \ DOMAIN left : Live(k) => Cardinality(Outlives(k)) >= MaxEntries
  BY PrunedLedger
<1>2. /\ DOMAIN cache' = DOMAIN left \cup {key}
      /\ \A k \in DOMAIN cache' :
            cache'[k] = IF k = key THEN [version |-> v, expires |-> clock + Ttl] ELSE left[k]
  BY DEF Inserted
<1>3. CacheFits'
  <2>1. /\ IsFiniteSet(DOMAIN cache')
        /\ Cardinality(DOMAIN cache') <= Cardinality(DOMAIN left) + 1
    <3>1. Cardinality(DOMAIN left) \in Nat
      BY <1>1, FS_CardinalityType
    <3>2. /\ IsFiniteSet(DOMAIN left \cup {key})
          /\ \/ Cardinality(DOMAIN left \cup {key}) = Cardinality(DOMAIN left)
             \/ Cardinality(DOMAIN left \cup {key}) = Cardinality(DOMAIN left) + 1
      BY <1>1, FS_AddElement
    <3> QED BY <1>2, <3>1, <3>2
  <2>2. Cardinality(DOMAIN cache') \in Nat /\ Cardinality(DOMAIN left) \in Nat
    BY <1>1, <2>1, FS_CardinalityType
  <2> QED BY <1>1, <2>1, <2>2, GatewayConstants DEF CacheFits
<1>4. /\ filled \in [Keys -> Nat] /\ clock \in Nat /\ Ttl \in Nat
      /\ filled' \in [Keys -> Nat]
      /\ filled'[key] = clock /\ \A k \in Keys \ {key} : filled'[k] = filled[k]
      /\ clock # 0
  BY GatewayConstants DEF TypeOK, Ledger
<1>5. IsFiniteSet({k \in Keys : filled'[k] # 0})
  <2>1. {k \in Keys : filled'[k] # 0} = {k \in Keys : filled[k] # 0} \cup {key}
    BY <1>4
  <2> QED BY <2>1, FS_AddElement DEF Ledger
<1>6. \A k \in Keys : filled'[k] <= clock'
  BY <1>4 DEF Ledger
<1>7. \A k \in DOMAIN cache' : filled'[k] # 0 /\ cache'[k].expires = filled'[k] + Ttl
  <2> SUFFICES ASSUME NEW k \in DOMAIN cache'
               PROVE filled'[k] # 0 /\ cache'[k].expires = filled'[k] + Ttl
    OBVIOUS
  <2>1. CASE k = key
    BY <1>2, <1>4, <2>1
  <2>2. CASE k # key
    BY <1>1, <1>2, <1>4, <2>2
  <2> QED BY <2>1, <2>2
<1>8. ASSUME NEW k \in Keys \ DOMAIN cache', Live(k)'
      PROVE  Cardinality(Outlives(k)') >= MaxEntries
  <2>1. k # key /\ k \in Keys \ DOMAIN left /\ filled'[k] = filled[k]
    BY <1>2, <1>4, <1>8
  <2>2. Live(k)
    BY <1>8, <2>1 DEF Live
  <2>3. Outlives(k)' = Outlives(k) \cup {key}
    <3>1. filled[k] <= clock
      BY <2>1 DEF Ledger
    <3> QED BY <1>4, <2>1, <3>1 DEF Outlives
  <2>4. Cardinality(Outlives(k)') >= Cardinality(Outlives(k))
    <3>1. IsFiniteSet(Outlives(k)) /\ Cardinality(Outlives(k)) \in Nat
      BY <2>1, OutlivesIsFinite
    <3>2. \/ Cardinality(Outlives(k) \cup {key}) = Cardinality(Outlives(k))
          \/ Cardinality(Outlives(k) \cup {key}) = Cardinality(Outlives(k)) + 1
      BY <3>1, FS_AddElement
    <3> QED BY <2>3, <3>1, <3>2
  <2>5. Cardinality(Outlives(k)) \in Nat /\ Cardinality(Outlives(k)') \in Nat
    BY <2>1, <2>3, OutlivesIsFinite, FS_AddElement, FS_CardinalityType
  <2> QED BY <1>1, <2>1, <2>2, <2>4, <2>5, GatewayConstants
<1> QED BY <1>3, <1>5, <1>6, <1>7, <1>8 DEF Ledger

LEMMA LedgerStep ==
  ASSUME TypeOK, CacheFits, Ledger, [Next]_vars
  PROVE  CacheFits' /\ Ledger'
<1>1. ASSUME UNCHANGED <<clock, cache, filled>>
      PROVE  CacheFits' /\ Ledger'
  BY <1>1 DEF CacheFits, Ledger, Live, Outlives
<1>2. ASSUME NEW r \in Requests,
             \/ \E valid \in BOOLEAN : Session(r, valid)
             \/ \E read \in BOOLEAN : Body(r, read)
             \/ FetchFails(r)
      PROVE  CacheFits' /\ Ledger'
  BY <1>1, <1>2, PassOrEnd
<1>3. ASSUME NEW r \in Requests, Lookup(r)
      PROVE  CacheFits' /\ Ledger'
  <2>1. cache' \in Pruned(cache) /\ clock' = clock /\ filled' = filled
    BY <1>3 DEF Lookup
  <2>2. /\ IsFiniteSet(DOMAIN cache') /\ Cardinality(DOMAIN cache') <= MaxEntries - 1
        /\ \A k \in DOMAIN cache' : filled[k] # 0 /\ cache'[k].expires = filled[k] + Ttl
        /\ \A k \in Keys \ DOMAIN cache' : Live(k) => Cardinality(Outlives(k)) >= MaxEntries
    BY <2>1, PrunedLedger
  <2>3. CacheFits'
    <3>1. Cardinality(DOMAIN cache') \in Nat
      BY <2>2, FS_CardinalityType
    <3> QED BY <2>2, <3>1, GatewayConstants DEF CacheFits
  <2>4. Ledger'
    BY <2>1, <2>2 DEF Ledger, Live, Outlives
  <2> QED BY <2>3, <2>4
<1>4. ASSUME NEW r \in Requests, NEW kept \in BOOLEAN, Fill(r, kept)
      PROVE  CacheFits' /\ Ledger'
  <2>1. CASE kept /\ req[r].route.key # NoKey
    <3>1. req[r].route.key \in Keys /\ req[r].version \in Versions
      BY <2>1, RouteHasKey DEF TypeOK
    <3> QED BY <1>4, <2>1, <3>1, FillLedger DEF Fill
  <2>2. CASE ~(kept /\ req[r].route.key # NoKey)
    BY <1>1, <1>4, <2>2 DEF Fill, cacheVars
  <2> QED BY <2>1, <2>2
<1>5. CASE Tick
  <2>1. cache' = cache /\ filled' = filled /\ clock' = clock + 1
    BY <1>5 DEF Tick, cacheVars
  <2>2. \A k \in Keys : Live(k)' => Live(k)
    BY <2>1, GatewayConstants DEF Live, TypeOK
  <2>3. clock' # 0 /\ \A k \in Keys : filled'[k] <= clock'
    BY <2>1 DEF Ledger, TypeOK
  <2>4. CacheFits'
    BY <2>1 DEF CacheFits
  <2>5. \A k \in Keys : Outlives(k)' = Outlives(k)
    BY <2>1 DEF Outlives
  <2> QED BY <2>1, <2>2, <2>3, <2>4, <2>5 DEF Ledger
<1>6. CASE Update
  BY <1>1, <1>6 DEF Update, cacheVars
<1>7. CASE UNCHANGED vars
  BY <1>1, <1>7 DEF vars
<1>8. ASSUME NEW r \in Requests,
             (\E route \in Routes : Arrive(r, route)) \/ Fetch(r) \/ Drop(r)
      PROVE  CacheFits' /\ Ledger'
  BY <1>1, <1>8 DEF Arrive, Fetch, Drop, cacheVars
<1> QED BY <1>2, <1>3, <1>4, <1>5, <1>6, <1>7, <1>8 DEF Next, Handle

\* What the ledger says of the keys that are live, were there room for all.
LEMMA LedgerHolds ==
  ASSUME TypeOK, CacheFits, Ledger
  PROVE  HeldUntilExpiry
<1> SUFFICES ASSUME NEW k \in Keys, Live(k), k \notin DOMAIN cache,
                    Cardinality({j \in Keys : Live(j)}) < MaxEntries
             PROVE  FALSE
  BY DEF HeldUntilExpiry
<1> DEFINE Living == {j \in Keys : Live(j)}
<1>1. IsFiniteSet(Living)
  <2>1. Living \in SUBSET {j \in Keys : filled[j] # 0}
    BY DEF Live
  <2> QED BY <2>1, FS_Subset DEF Ledger
<1>2. Outlives(k) \subseteq Living
  BY GatewayConstants DEF Outlives, Live, TypeOK
<1>3. Cardinality(Outlives(k)) <= Cardinality(Living)
  <2> HIDE DEF Living
  <2> QED BY <1>1, <1>2, FS_Subset
<1>4. Cardinality(Outlives(k)) >= MaxEntries
  BY DEF Ledger
<1>5. Cardinality(Outlives(k)) \in Nat /\ Cardinality(Living) \in Nat
  BY <1>1, OutlivesIsFinite, FS_CardinalityType
<1> QED BY <1>3, <1>4, <1>5, GatewayConstants

-----------------------------------------------------------------------------
(* How old an answer may be *)

\* Lists that were fetched were current when their request began or later, and
\* an entry was filled by such a request no longer ago than its life.
Since(v, span, end) == replaced[v] = 0 \/ replaced[v] + span >= end

RequestRecent(r) ==
  /\ req[r].pc \in Open =>
        clock <= req[r].due /\ req[r].due <= clock + RequestTimeout /\ ~req[r].hit
  /\ req[r].pc = "fetched" => Since(req[r].version, RequestTimeout, req[r].due)
  /\ req[r].hit =>
        req[r].due <= clock /\ Since(req[r].version, Ttl + RequestTimeout, req[r].due + 1)

EntryRecent(k) ==
  /\ cache[k].expires <= clock + Ttl
  /\ Since(cache[k].version, Ttl + RequestTimeout, cache[k].expires)

Recency ==
  /\ \A v \in Versions : v >= version => replaced[v] = 0
  /\ \A r \in Requests : RequestRecent(r)
  /\ \A k \in DOMAIN cache : EntryRecent(k)

LEMMA InitRecency == Init => Recency
BY DEF Init, Recency, RequestRecent, EntryRecent, Over, Open, Since

\* A request that changes neither the clock nor the lists nor another request.
LEMMA OwnRecency ==
  ASSUME TypeOK, Recency, NEW r \in Requests, NEW x, req' = [req EXCEPT ![r] = x],
         UNCHANGED <<clock, version, replaced, cache>>, RequestRecent(r)'
  PROVE  Recency'
<1>1. ASSUME NEW q \in Requests, q # r
      PROVE  RequestRecent(q)'
  <2>1. req'[q] = req[q] /\ RequestRecent(q)
    BY <1>1 DEF TypeOK, Recency
  <2> QED BY <2>1 DEF RequestRecent, Since
<1>2. \A k \in DOMAIN cache' : EntryRecent(k)'
  BY DEF Recency, EntryRecent, Since
<1> QED BY <1>1, <1>2 DEF Recency

LEMMA OverIsRecent ==
  ASSUME TypeOK, NEW r \in Requests, req' = [req EXCEPT ![r] = Over]
  PROVE  RequestRecent(r)'
BY DEF TypeOK, RequestRecent, Over, Open

LEMMA GoesOnRecent ==
  ASSUME TypeOK, Recency, NEW r \in Requests, req[r].pc \in Open,
         NEW pc \in Open \ {"fetched"}, Goto(r, pc), UNCHANGED <<clock, replaced>>
  PROVE  RequestRecent(r)'
BY DEF TypeOK, Recency, RequestRecent, Goto, Open

LEMMA LookupRecency ==
  ASSUME TypeOK, Recency, NEW r \in Requests, Lookup(r)
  PROVE  Recency'
<1> USE GatewayConstants
<1>1. DOMAIN cache' \subseteq DOMAIN cache /\ \A k \in DOMAIN cache' : cache'[k] = cache[k]
  <2>1. CASE cache' = Alive(cache)
    BY <2>1 DEF Alive, Restrict
  <2>2. CASE cache' # Alive(cache)
    <3>1. PICK k \in Soonest(Alive(cache)) : cache' = Restrict(cache, DOMAIN Alive(cache) \ {k})
      BY <2>2 DEF Lookup, Pruned
    <3> QED BY <3>1 DEF Alive, Restrict
  <2> QED BY <2>1, <2>2
<1>2. \A k \in DOMAIN cache' : cache'[k].expires > clock
  <2>1. CASE cache' = Alive(cache)
    BY <2>1 DEF Alive, Restrict
  <2>2. CASE cache' # Alive(cache)
    <3>1. PICK k \in Soonest(Alive(cache)) : cache' = Restrict(cache, DOMAIN Alive(cache) \ {k})
      BY <2>2 DEF Lookup, Pruned
    <3> QED BY <3>1 DEF Alive, Restrict
  <2> QED BY <2>1, <2>2
<1>3. UNCHANGED <<clock, version, replaced>>
  BY DEF Lookup, upstreamVars
<1>4. \A k \in DOMAIN cache' : EntryRecent(k)'
  BY <1>1, <1>3 DEF Recency, EntryRecent, Since
<1>5. ASSUME NEW q \in Requests, q # r
      PROVE  RequestRecent(q)'
  <2>1. req'[q] = req[q] /\ RequestRecent(q)
    BY <1>5 DEF TypeOK, Recency, Lookup, Goto
  <2> QED BY <1>3, <2>1 DEF RequestRecent, Since
<1>6. RequestRecent(r)'
  <2>1. CASE req[r].route.key \in DOMAIN cache'
    <3> DEFINE entry == cache'[req[r].route.key]
    <3>1. req'[r].hit = TRUE /\ req'[r].due = clock /\ req'[r].version = entry.version
          /\ req'[r].pc = "over"
      BY <2>1 DEF Lookup, TypeOK, Over
    <3>2. entry = cache[req[r].route.key] /\ entry \in Entry /\ entry.expires > clock
      BY <1>1, <1>2, <2>1 DEF TypeOK
    <3>3. Since(entry.version, Ttl + RequestTimeout, entry.expires)
      BY <1>1, <2>1, <3>2 DEF Recency, EntryRecent
    <3>4. replaced[entry.version] \in Nat /\ clock \in Nat /\ entry.expires \in Nat
      BY <3>2 DEF TypeOK, Entry
    <3>5. Since(entry.version, Ttl + RequestTimeout, clock + 1)
      BY <3>2, <3>3, <3>4 DEF Since
    <3> HIDE DEF entry
    <3> QED BY <1>3, <3>1, <3>4, <3>5 DEF RequestRecent, Since, Open
  <2>2. CASE req[r].route.key \notin DOMAIN cache'
    BY <1>3, <2>2, GoesOnRecent DEF Lookup, Open
  <2> QED BY <2>1, <2>2
<1>7. \A v \in Versions : v >= version' => replaced'[v] = 0
  BY <1>3 DEF Recency
<1> QED BY <1>4, <1>5, <1>6, <1>7 DEF Recency

LEMMA FetchRecency ==
  ASSUME TypeOK, Recency, NEW r \in Requests, Fetch(r)
  PROVE  Recency'
<1>1. /\ req' = [req EXCEPT ![r].pc = "fetched", ![r].version = version]
      /\ UNCHANGED <<clock, version, replaced, cache>> /\ req[r].pc = "fetch"
  BY DEF Fetch, upstreamVars, cacheVars
<1>2. replaced[version] = 0 /\ RequestRecent(r)
  BY DEF TypeOK, Recency, Versions
<1>3. /\ req'[r].pc = "fetched" /\ req'[r].version = version
      /\ req'[r].due = req[r].due /\ req'[r].hit = req[r].hit
  BY <1>1 DEF TypeOK
<1>4. RequestRecent(r)'
  BY <1>1, <1>2, <1>3 DEF RequestRecent, Since, Open
<1>5. req' = [req EXCEPT ![r] = [req[r] EXCEPT !.pc = "fetched", !.version = version]]
  BY <1>1 DEF TypeOK
<1> QED BY <1>1, <1>4, <1>5, OwnRecency

\* What a request fetched is stored no later than it is due.
LEMMA FillRecency ==
  ASSUME TypeOK, CacheFits, Recency, NEW r \in Requests, NEW kept \in BOOLEAN, Fill(r, kept)
  PROVE  Recency'
<1> USE GatewayConstants
<1>1. UNCHANGED <<clock, version, replaced>> /\ req' = [req EXCEPT ![r] = Over]
      /\ req[r].pc = "fetched"
  BY DEF Fill, Complete, upstreamVars
<1>2. CASE kept /\ req[r].route.key # NoKey
  <2>0. PICK key, v : key = req[r].route.key /\ v = req[r].version
    OBVIOUS
  <2>1. PICK left \in Pruned(cache) : cache' = Inserted(left, key, v)
    BY <1>2, <2>0 DEF Fill
  <2>2. /\ DOMAIN left \subseteq DOMAIN cache
        /\ \A k \in DOMAIN left : left[k] = cache[k]
    <3>1. DOMAIN Alive(cache) \subseteq DOMAIN cache
      BY DEF Alive, Restrict
    <3> QED BY <3>1, PrunedKeeps DEF CacheFits
  <2>3. EntryRecent(key)' /\ key \in DOMAIN cache'
    <3>1. cache'[key].version = v /\ cache'[key].expires = clock + Ttl /\ key \in DOMAIN cache'
      BY <2>1 DEF Inserted
    <3>2. /\ clock <= req[r].due /\ Since(v, RequestTimeout, req[r].due)
          /\ v \in Versions /\ req[r].due \in Nat /\ clock \in Nat /\ replaced[v] \in Nat
      BY <1>1, <2>0 DEF Recency, RequestRecent, Open, TypeOK
    <3>3. Since(v, Ttl + RequestTimeout, clock + Ttl)
      BY <3>2 DEF Since
    <3> QED BY <1>1, <3>1, <3>2, <3>3 DEF EntryRecent, Since
  <2>4. ASSUME NEW k \in DOMAIN cache', k # key
        PROVE  EntryRecent(k)'
    <3>1. k \in DOMAIN cache /\ cache'[k] = cache[k]
      BY <2>1, <2>2, <2>4 DEF Inserted
    <3> QED BY <1>1, <3>1 DEF Recency, EntryRecent, Since
  <2>5. ASSUME NEW q \in Requests
        PROVE  RequestRecent(q)'
    <3>1. CASE q = r
      BY <1>1, <3>1, OverIsRecent
    <3>2. CASE q # r
      <4>1. req'[q] = req[q] /\ RequestRecent(q)
        BY <1>1, <3>2 DEF TypeOK, Recency
      <4> QED BY <1>1, <4>1 DEF RequestRecent, Since
    <3> QED BY <3>1, <3>2
  <2> QED BY <1>1, <2>3, <2>4, <2>5 DEF Recency
<1>3. CASE ~(kept /\ req[r].route.key # NoKey)
  BY <1>1, <1>3, OwnRecency, OverIsRecent DEF Fill, cacheVars
<1> QED BY <1>2, <1>3

\* What was current is replaced now, which is soon enough for all who have it.
LEMMA UpdateRecency ==
  ASSUME TypeOK, Recency, Update
  PROVE  Recency'
<1> USE GatewayConstants
<1>1. /\ version' = version + 1 /\ version \in Versions /\ version' \in Versions
      /\ replaced'[version] = clock
      /\ \A v \in Versions \ {version} : replaced'[v] = replaced[v]
      /\ UNCHANGED <<clock, req, cache>>
  BY DEF Update, cacheVars, TypeOK, Versions
<1>2. clock \in Nat /\ \A v \in Versions : replaced[v] \in Nat
  BY DEF TypeOK
<1>3. ASSUME NEW r \in Requests
      PROVE  RequestRecent(r)'
  <2>1. RequestRecent(r) /\ req[r].version \in Versions /\ req[r].due \in Nat
    BY DEF Recency, TypeOK
  <2>2. CASE req[r].version = version
    BY <1>1, <1>2, <2>1, <2>2 DEF RequestRecent, Since, Open
  <2>3. CASE req[r].version # version
    BY <1>1, <1>2, <2>1, <2>3 DEF RequestRecent, Since, Open
  <2> QED BY <2>2, <2>3
<1>4. ASSUME NEW k \in DOMAIN cache'
      PROVE  EntryRecent(k)'
  <2>1. EntryRecent(k) /\ cache[k].version \in Versions /\ cache[k].expires \in Nat
    BY <1>1 DEF Recency, TypeOK, Entry
  <2>2. CASE cache[k].version = version
    BY <1>1, <1>2, <2>1, <2>2 DEF EntryRecent, Since
  <2>3. CASE cache[k].version # version
    BY <1>1, <1>2, <2>1, <2>3 DEF EntryRecent, Since
  <2> QED BY <2>2, <2>3
<1>5. \A v \in Versions : v >= version' => replaced'[v] = 0
  BY <1>1 DEF Recency, Versions
<1> QED BY <1>3, <1>4, <1>5 DEF Recency

LEMMA TickRecency ==
  ASSUME TypeOK, Recency, Tick
  PROVE  Recency'
<1> USE GatewayConstants
<1>1. clock' = clock + 1 /\ clock \in Nat /\ UNCHANGED <<version, replaced, cache, req>>
  BY DEF Tick, TypeOK, upstreamVars, cacheVars
<1>2. ASSUME NEW r \in Requests
      PROVE  RequestRecent(r)'
  <2>1. RequestRecent(r) /\ req[r].due \in Nat /\ (req[r].pc \in Open => clock < req[r].due)
    BY DEF Recency, TypeOK, Tick
  <2> QED BY <1>1, <2>1 DEF RequestRecent, Since
<1>3. ASSUME NEW k \in DOMAIN cache'
      PROVE  EntryRecent(k)'
  <2>1. EntryRecent(k) /\ cache[k].expires \in Nat
    BY <1>1 DEF Recency, TypeOK, Entry
  <2> QED BY <1>1, <2>1 DEF EntryRecent, Since
<1> QED BY <1>1, <1>2, <1>3 DEF Recency

LEMMA RecencyStep ==
  ASSUME TypeOK, CacheFits, Recency, [Next]_vars
  PROVE  Recency'
<1>1. ASSUME NEW r \in Requests, NEW route \in Routes, Arrive(r, route)
      PROVE  Recency'
  <2> DEFINE new == [Over EXCEPT !.pc = "session", !.route = route,
                                 !.due = clock + RequestTimeout]
  <2>1. req' = [req EXCEPT ![r] = new] /\ UNCHANGED <<clock, version, replaced, cache>>
    BY <1>1 DEF Arrive, upstreamVars, cacheVars
  <2>2. new.pc = "session" /\ ~new.hit /\ new.due = clock + RequestTimeout
    BY DEF Over
  <2>3. req'[r] = new
    BY <2>1 DEF TypeOK
  <2> HIDE DEF new
  <2>4. RequestRecent(r)'
    BY <2>1, <2>2, <2>3, GatewayConstants DEF RequestRecent, TypeOK
  <2> QED BY <2>1, <2>4, OwnRecency
<1>2. ASSUME NEW r \in Requests,
             \/ \E valid \in BOOLEAN : Session(r, valid)
             \/ \E read \in BOOLEAN : Body(r, read)
             \/ FetchFails(r)
      PROVE  Recency'
  <2>1. /\ req[r].pc \in Open /\ UNCHANGED <<clock, version, replaced, cache>>
        /\ Complete(r) \/ \E pc \in Open \ {"fetched"} : Goto(r, pc)
    BY <1>2, PassOrEnd
  <2>2. CASE Complete(r)
    BY <2>1, <2>2, OwnRecency, OverIsRecent DEF Complete
  <2>3. ASSUME NEW pc \in Open \ {"fetched"}, Goto(r, pc)
        PROVE  Recency'
    <3>1. RequestRecent(r)'
      BY <2>1, <2>3, GoesOnRecent
    <3>2. req' = [req EXCEPT ![r] = [req[r] EXCEPT !.pc = pc]]
      BY <2>3 DEF Goto, TypeOK
    <3> QED BY <2>1, <3>1, <3>2, OwnRecency
  <2> QED BY <2>1, <2>2, <2>3
<1>3. ASSUME NEW r \in Requests, Drop(r)
      PROVE  Recency'
  BY <1>3, OwnRecency, OverIsRecent DEF Drop, upstreamVars, cacheVars
<1>4. CASE UNCHANGED vars
  BY <1>4 DEF vars, Recency, RequestRecent, EntryRecent, Since
<1> QED BY <1>1, <1>2, <1>3, <1>4, LookupRecency, FetchRecency, FillRecency,
           UpdateRecency, TickRecency DEF Next, Handle

-----------------------------------------------------------------------------
(* Theorems *)

Inv == TypeOK /\ ActiveIsOpen /\ CacheFits /\ Ledger /\ Recency

LEMMA InvHolds == Spec => []Inv
<1>1. Init => Inv
  <2> SUFFICES ASSUME Init PROVE Inv
    OBVIOUS
  <2>1. {r \in Requests : req[r].pc \in Open} = {}
    BY DEF Init, Over, Open
  <2>2. ActiveIsOpen
    BY <2>1, FS_EmptySet DEF ActiveIsOpen, Init
  <2> QED BY <2>2, InitTypes, InitLedger, InitRecency DEF Inv
<1>2. Inv /\ [Next]_vars => Inv'
  BY TypeStep, GaugeStep, LedgerStep, RecencyStep DEF Inv
<1> QED BY <1>1, <1>2, PTL DEF Spec

\* Every variable keeps its type, active_requests too: it never wraps below 0.
THEOREM TypeCorrect == Spec => []TypeOK
BY InvHolds, PTL DEF Inv

\* The gauge counts the requests under way and those whose handler was dropped.
THEOREM GaugeIsExact == Spec => []ActiveIsOpen
BY InvHolds, PTL DEF Inv

\* However many requests fill the cache at once, it keeps to its limit.
THEOREM CacheIsBounded == Spec => []CacheBounded
<1>1. Inv => CacheBounded
  BY DEF Inv, CacheFits, CacheBounded
<1> QED BY <1>1, InvHolds, PTL

\* A key leaves the cache before its time only when as many as fit were filled
\* at the same time or after it.
THEOREM KeptWhileRoom == Spec => []HeldUntilExpiry
<1>1. Inv => HeldUntilExpiry
  BY LedgerHolds DEF Inv
<1> QED BY <1>1, InvHolds, PTL

\* An answer from the cache shows lists that were current no longer ago than
\* the life of an entry and the longest request.
THEOREM AnswersAreRecent == Spec => []HitIsRecent
<1>1. Inv => HitIsRecent
  <2> SUFFICES ASSUME Inv, NEW r \in Requests, req[r].hit
               PROVE  \/ replaced[req[r].version] = 0
                      \/ replaced[req[r].version] + Ttl + RequestTimeout > req[r].due
    BY DEF HitIsRecent
  <2>1. /\ Since(req[r].version, Ttl + RequestTimeout, req[r].due + 1)
        /\ replaced[req[r].version] \in Nat /\ req[r].due \in Nat
    BY DEF Inv, Recency, RequestRecent, TypeOK
  <2> QED BY <2>1, GatewayConstants DEF Since
<1> QED BY <1>1, InvHolds, PTL
=============================================================================
