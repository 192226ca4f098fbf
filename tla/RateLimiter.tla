---------------------------- MODULE RateLimiter ----------------------------
(***************************************************************************)
(* The sliding-window rate limiter of radio-service-rs (RateLimiter in     *)
(* app_state.rs), which every handler asks first.  A request waits for the *)
(* mutex, and is then decided in one step: `check` awaits nothing else.    *)
(***************************************************************************)
EXTENDS Integers, Sequences, FiniteSets

CONSTANTS
    Clients,        \* client keys: addresses
    Requests,       \* request slots of the process
    ClientOf,       \* the client of a slot
    MaxRequests,    \* max_requests
    Window,         \* window
    Never,          \* no request in the slot
    MaxTime         \* bound: the time at which the clock stops

ASSUME ClientOfAssumption == ClientOf \in [Requests -> Clients]
ASSUME NeverAssumption == Never \notin Nat
ASSUME NumbersAssumption ==
    /\ MaxRequests \in Nat
    /\ Window \in Nat
    /\ MaxTime \in Nat

VARIABLES
    instant,    \* Instant::now()
    buckets,    \* the map, from clients to the times of their admissions
    arrived,    \* when the request of each slot came to wait for the mutex
    \* not in the code
    admitted,   \* all admissions of each client
    answer,     \* the last decision taken, per client
    checked     \* when the last decision was taken

limiterVars == <<instant, buckets, arrived, admitted, answer, checked>>

-----------------------------------------------------------------------------

\* RateLimiter::new
Limit == IF MaxRequests = 0 THEN 1 ELSE MaxRequests

Decisions == [allowed : BOOLEAN, at : Nat, remaining : Nat, reset : Nat]

LimiterInit ==
    /\ instant = 0
    /\ buckets = [c \in {} |-> <<>>]
    /\ arrived = [r \in Requests |-> Never]
    /\ admitted = [c \in Clients |-> <<>>]
    /\ answer = [c \in {} |-> <<>>]
    /\ checked = 0

\* Mutant: an entry of exactly the window's age is dropped.
ExpiredAtWindow(bucket, now) ==
    CHOOSE n \in 0 .. Len(bucket) :
        /\ \A i \in 1 .. n : now - bucket[i] >= Window
        /\ n < Len(bucket) => now - bucket[n + 1] < Window

\* How many entries the loop pops: those before the first that is not too old.
Expired(bucket, now) ==
    CHOOSE n \in 0 .. Len(bucket) :
        /\ \A i \in 1 .. n : now - bucket[i] > Window
        /\ n < Len(bucket) => now - bucket[n + 1] <= Window

Pruned(bucket, now) == SubSeq(bucket, Expired(bucket, now) + 1, Len(bucket))

\* Mutant: only the buckets that were empty before are removed.
SweptLate(now) ==
    [c \in {c \in DOMAIN buckets : buckets[c] # <<>>} |-> Pruned(buckets[c], now)]

\* The map without its stale entries and empty buckets.
Swept(now) ==
    [c \in {c \in DOMAIN buckets : Pruned(buckets[c], now) # <<>>} |->
        Pruned(buckets[c], now)]

\* The entries of c, after or_insert_with.
Entries(map, c) == IF c \in DOMAIN map THEN map[c] ELSE <<>>

WithEntries(map, c, entries) ==
    [d \in DOMAIN map \cup {c} |-> IF d = c THEN entries ELSE map[d]]

Await(r) ==
    /\ arrived[r] = Never
    /\ arrived' = [arrived EXCEPT ![r] = instant]
    /\ UNCHANGED <<instant, buckets, admitted, answer, checked>>

\* The answer to c, with the entries it has once it is decided.
Answer(c, allowed, entries, now) ==
    answer' = [d \in DOMAIN answer \cup {c} |->
        IF d # c THEN answer[d]
        ELSE [allowed   |-> allowed,
              at        |-> now,
              remaining |-> IF allowed THEN Limit - Len(entries) ELSE 0,
              reset     |-> entries[1] + Window]]

Refuse(c, map, now) ==
    /\ buckets' = WithEntries(map, c, Entries(map, c))
    /\ Answer(c, FALSE, Entries(map, c), now)
    /\ UNCHANGED admitted

Admit(c, map, now) ==
    /\ buckets' = WithEntries(map, c, Append(Entries(map, c), now))
    /\ admitted' = [admitted EXCEPT ![c] = Append(@, now)]
    /\ Answer(c, TRUE, Append(Entries(map, c), now), now)

\* The decision on a request of c at time `now`.
Decide(c, now) ==
    LET map == Swept(now) IN
        IF Len(Entries(map, c)) >= Limit THEN Refuse(c, map, now)
                                         ELSE Admit(c, map, now)

\* Mutant: the time is read before the mutex is taken.
CheckAtArrival(r) ==
    /\ arrived[r] # Never
    /\ Decide(ClientOf[r], arrived[r])
    /\ arrived' = [arrived EXCEPT ![r] = Never]
    /\ checked' = instant
    /\ UNCHANGED instant

\* RateLimiter::check, once it has the mutex.
Check(r) ==
    /\ arrived[r] # Never
    /\ Decide(ClientOf[r], instant)
    /\ arrived' = [arrived EXCEPT ![r] = Never]
    /\ checked' = instant
    /\ UNCHANGED instant

\* The client leaves while the request waits for the mutex.
Leave(r) ==
    /\ arrived[r] # Never
    /\ arrived' = [arrived EXCEPT ![r] = Never]
    /\ UNCHANGED <<instant, buckets, admitted, answer, checked>>

LimiterTick ==
    /\ instant < MaxTime
    /\ instant' = instant + 1
    /\ UNCHANGED <<buckets, arrived, admitted, answer, checked>>

LimiterNext ==
    \/ \E r \in Requests : Await(r) \/ Check(r) \/ Leave(r)
    \/ LimiterTick

LimiterSpec == LimiterInit /\ [][LimiterNext]_limiterVars

-----------------------------------------------------------------------------
(* Properties *)

LimiterTypeOK ==
    /\ instant \in Nat
    /\ DOMAIN buckets \subseteq Clients
    /\ \A c \in DOMAIN buckets : buckets[c] \in Seq(Nat)
    /\ arrived \in [Requests -> Nat \cup {Never}]
    /\ admitted \in [Clients -> Seq(Nat)]
    /\ DOMAIN answer \subseteq Clients
    /\ \A c \in DOMAIN answer : answer[c] \in Decisions
    /\ checked \in Nat

\* No client is admitted more than Limit times within any span of a window's
\* length, wherever it begins: of Limit + 1 admissions in a row the last comes
\* more than a window after the first.
AtMostLimit ==
    \A c \in Clients : \A i \in 1 .. Len(admitted[c]) - Limit :
        admitted[c][i + Limit] - admitted[c][i] > Window

\* The admissions of c that count against it at the given time.
Counted(c, time) == {i \in DOMAIN admitted[c] : time - admitted[c][i] <= Window}

\* Each answer tells the client the truth, concurrent requests or not: what
\* remains is what it could still send now, none if it was refused, and the
\* reset is when the first of the admissions that count stops counting.
AnswersAreExact ==
    \A c \in DOMAIN answer :
        LET counted == Counted(c, answer[c].at) IN
            /\ answer[c].remaining = Limit - Cardinality(counted)
            /\ ~answer[c].allowed => Cardinality(counted) = Limit
            /\ \E i \in counted :
                  /\ \A j \in counted : admitted[c][i] <= admitted[c][j]
                  /\ answer[c].reset = admitted[c][i] + Window

\* "so the map does not grow without bound": it holds the clients with an
\* admission that still counted when it was last used, and no others.
MapHoldsActive ==
    DOMAIN buckets = {c \in Clients : Counted(c, checked) # {}}

=============================================================================
