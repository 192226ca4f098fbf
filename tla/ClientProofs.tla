---------------------------- MODULE ClientProofs ----------------------------
(***************************************************************************)
(* What the radio service keeps of its clients.  The rate limiter never    *)
(* admits more than its limit within a window, tells them the truth, and   *)
(* its map holds the active clients only; what is stored of a client's     *)
(* favourites can be shown, and implements FavoritesList: for any clients, *)
(* limits, lifetimes and number of requests at a time.                     *)
(***************************************************************************)
EXTENDS RateLimiter, Favorites, ListsProofs

-----------------------------------------------------------------------------
(* The rate limiter: operators *)

\* The loop pops the entries that are too old up to the first that is not.
LEMMA ExpiredPops ==
  ASSUME NEW bucket \in Seq(Nat), NEW now \in Nat
  PROVE  /\ Expired(bucket, now) \in 0 .. Len(bucket)
         /\ \A i \in 1 .. Expired(bucket, now) : now - bucket[i] > Window
         /\ Expired(bucket, now) < Len(bucket) =>
               now - bucket[Expired(bucket, now) + 1] <= Window
<1> USE NumbersAssumption
<1> DEFINE Stops == {n \in 0 .. Len(bucket) :
                        n < Len(bucket) => now - bucket[n + 1] <= Window}
<1>1. Stops \subseteq Nat /\ Len(bucket) \in Stops /\ Len(bucket) \in Nat
  BY LenProperties
<1>2. PICK m \in Stops : \A n \in Stops : m <= n
  <2> HIDE DEF Stops
  <2> QED BY <1>1, LeastNatural
<1>3. \A i \in 1 .. m : now - bucket[i] > Window
  <2> SUFFICES ASSUME NEW i \in 1 .. m PROVE now - bucket[i] > Window
    OBVIOUS
  <2>1. i - 1 \notin Stops
    <3> HIDE DEF Stops
    <3> QED BY <1>1, <1>2
  <2>2. i - 1 \in 0 .. Len(bucket) /\ i - 1 < Len(bucket) /\ bucket[i] \in Nat
    BY <1>1
  <2> QED BY <2>1, <2>2
<1>4. \E n \in 0 .. Len(bucket) :
         /\ \A i \in 1 .. n : now - bucket[i] > Window
         /\ n < Len(bucket) => now - bucket[n + 1] <= Window
  BY <1>3
<1> HIDE DEF Stops
<1> QED BY <1>4, Zenon DEF Expired

\* What is left of a bucket: a final part of it that starts with an entry that
\* is not too old.
LEMMA PrunedKeeps ==
  ASSUME NEW bucket \in Seq(Nat), NEW now \in Nat
  PROVE  /\ Pruned(bucket, now) \in Seq(Nat)
         /\ Len(Pruned(bucket, now)) = Len(bucket) - Expired(bucket, now)
         /\ \A i \in 1 .. Len(Pruned(bucket, now)) :
               Pruned(bucket, now)[i] = bucket[Expired(bucket, now) + i]
         /\ Pruned(bucket, now) # <<>> => now - Pruned(bucket, now)[1] <= Window
<1> DEFINE n == Expired(bucket, now)
<1>1. n \in 0 .. Len(bucket) /\ Len(bucket) \in Nat
  BY ExpiredPops, LenProperties
<1>2. \A i \in n + 1 .. Len(bucket) : bucket[i] \in Nat
  BY <1>1
<1>3. /\ Pruned(bucket, now) \in Seq(Nat)
      /\ Len(Pruned(bucket, now)) = IF n + 1 <= Len(bucket) THEN Len(bucket) - (n + 1) + 1 ELSE 0
      /\ \A i \in 1 .. Len(bucket) - (n + 1) + 1 : Pruned(bucket, now)[i] = bucket[n + 1 + i - 1]
  <2> HIDE DEF n
  <2>1. n + 1 \in Int /\ Len(bucket) \in Int
    BY <1>1
  <2>2. Pruned(bucket, now) = SubSeq(bucket, n + 1, Len(bucket))
    BY DEF Pruned, n
  <2> QED BY <2>1, <2>2, <1>2, SubSeqProperties
<1>4. Len(Pruned(bucket, now)) = Len(bucket) - n
  <2> HIDE DEF n
  <2> QED BY <1>1, <1>3
<1>5. \A i \in 1 .. Len(Pruned(bucket, now)) : Pruned(bucket, now)[i] = bucket[n + i]
  <2> HIDE DEF n
  <2>1. SUFFICES ASSUME NEW i \in 1 .. Len(bucket) - n
                 PROVE  Pruned(bucket, now)[i] = bucket[n + i]
    BY <1>4
  <2>2. i \in 1 .. Len(bucket) - (n + 1) + 1 /\ n + 1 + i - 1 = n + i
    BY <1>1
  <2> QED BY <1>3, <2>2
<1>6. ASSUME Pruned(bucket, now) # <<>> PROVE now - Pruned(bucket, now)[1] <= Window
  <2>1. Len(Pruned(bucket, now)) > 0
    BY <1>3, <1>6, EmptySeq
  <2>2. n < Len(bucket) /\ Pruned(bucket, now)[1] = bucket[n + 1]
    BY <1>1, <1>4, <1>5, <2>1
  <2> QED BY <2>2, ExpiredPops
<1> QED BY <1>3, <1>4, <1>5, <1>6

-----------------------------------------------------------------------------
(* The rate limiter: entries and admissions *)

\* The entries a bucket has are the last admissions of its client; there are no
\* more than Limit, and every other admission is too old to count.
Tracks(entries, all, time) ==
    /\ Len(entries) <= Len(all)
    /\ Len(entries) <= Limit
    /\ \A i \in 1 .. Len(entries) : entries[i] = all[Len(all) - Len(entries) + i]
    /\ \A i \in 1 .. Len(all) - Len(entries) : time - all[i] > Window

\* Of Limit + 1 admissions in a row the last comes a window after the first.
Spaced(all) ==
    \A i \in 1 .. Len(all) - Limit : all[i + Limit] - all[i] > Window

\* max_requests is at least one.
LEMMA LimitPositive == Limit \in Nat \ {0}
BY NumbersAssumption DEF Limit

\* Pruning a bucket forgets only admissions that are too old.
LEMMA PrunedTracks ==
  ASSUME NEW entries \in Seq(Nat), NEW all \in Seq(Nat),
         NEW time \in Nat, NEW now \in Nat, time <= now,
         Tracks(entries, all, time)
  PROVE  Tracks(Pruned(entries, now), all, now)
<1> DEFINE n == Expired(entries, now)
           left == Pruned(entries, now)
           gone == Len(all) - Len(entries)
<1>1. /\ Len(entries) \in Nat /\ Len(all) \in Nat
      /\ \A i \in 1 .. Len(all) : all[i] \in Nat
  BY LenProperties, ElementOfSeq
<1>2. n \in 0 .. Len(entries) /\ \A i \in 1 .. n : now - entries[i] > Window
  BY ExpiredPops
<1>3. /\ Len(left) = Len(entries) - n
      /\ \A i \in 1 .. Len(left) : left[i] = entries[n + i]
  BY PrunedKeeps
<1>4. /\ gone \in Nat /\ Len(entries) <= Limit
      /\ \A i \in 1 .. Len(entries) : entries[i] = all[gone + i]
      /\ \A i \in 1 .. gone : time - all[i] > Window
  BY <1>1 DEF Tracks
<1> HIDE DEF n, left
<1>5. Len(left) \in Nat /\ Len(left) <= Len(entries) /\ Len(all) - Len(left) = gone + n
  BY <1>1, <1>2, <1>3
<1>6. ASSUME NEW i \in 1 .. Len(left)
      PROVE  left[i] = all[Len(all) - Len(left) + i]
  <2>1. n + i \in 1 .. Len(entries) /\ gone + (n + i) = Len(all) - Len(left) + i
    BY <1>1, <1>2, <1>3, <1>4, <1>5
  <2> QED BY <1>3, <1>4, <2>1
<1>7. ASSUME NEW i \in 1 .. gone + n PROVE now - all[i] > Window
  <2>1. CASE i <= gone
    <3>1. time - all[i] > Window /\ all[i] \in Nat
      BY <1>1, <1>4, <2>1
    <3> QED BY <3>1, NumbersAssumption
  <2>2. CASE i > gone
    <3>1. i - gone \in 1 .. n /\ i - gone \in 1 .. Len(entries) /\ gone + (i - gone) = i
      BY <1>2, <1>4, <2>2
    <3> QED BY <1>2, <1>4, <3>1
  <2> QED BY <2>1, <2>2, <1>4
<1> QED
  BY <1>1, <1>4, <1>5, <1>6, <1>7, LimitPositive DEF Tracks, left

\* Without entries every admission is too old, and stays so.
LEMMA EmptyTracks ==
  ASSUME NEW all \in Seq(Nat), NEW time \in Nat, NEW now \in Nat, time <= now,
         Tracks(<<>>, all, time)
  PROVE  Tracks(<<>>, all, now)
<1>1. /\ Len(all) \in Nat /\ \A i \in 1 .. Len(all) : all[i] \in Nat
      /\ Len(<<>>) = 0
  BY LenProperties, ElementOfSeq
<1>2. \A i \in 1 .. Len(all) : time - all[i] > Window
  BY <1>1 DEF Tracks
<1>3. \A i \in 1 .. Len(all) : now - all[i] > Window
  BY <1>1, <1>2, NumbersAssumption
<1> QED BY <1>1, <1>3, LimitPositive DEF Tracks

\* An admission is pushed to the bucket and to the history.
LEMMA AppendTracks ==
  ASSUME NEW entries \in Seq(Nat), NEW all \in Seq(Nat), NEW now \in Nat,
         Tracks(entries, all, now), Len(entries) < Limit
  PROVE  Tracks(Append(entries, now), Append(all, now), now)
<1> DEFINE e == Append(entries, now)  a == Append(all, now)
<1>1. Len(entries) \in Nat /\ Len(all) \in Nat
  BY LenProperties
<1>2. /\ Len(e) = Len(entries) + 1
      /\ \A i \in 1 .. Len(entries) : e[i] = entries[i]
      /\ e[Len(entries) + 1] = now
      /\ Len(a) = Len(all) + 1
      /\ \A i \in 1 .. Len(all) : a[i] = all[i]
      /\ a[Len(all) + 1] = now
  BY AppendProperties
<1> HIDE DEF e, a
<1>3. Len(a) - Len(e) = Len(all) - Len(entries)
  BY <1>1, <1>2
<1>4. ASSUME NEW i \in 1 .. Len(e) PROVE e[i] = a[Len(a) - Len(e) + i]
  <2>1. CASE i = Len(entries) + 1
    BY <1>1, <1>2, <1>3, <2>1
  <2>2. CASE i \in 1 .. Len(entries)
    <3>1. Len(all) - Len(entries) + i \in 1 .. Len(all)
      BY <1>1, <2>2 DEF Tracks
    <3> QED BY <1>2, <1>3, <2>2, <3>1 DEF Tracks
  <2> QED BY <1>1, <1>2, <2>1, <2>2
<1>5. ASSUME NEW i \in 1 .. Len(a) - Len(e) PROVE now - a[i] > Window
  <2>1. i \in 1 .. Len(all) /\ i \in 1 .. Len(all) - Len(entries)
    BY <1>1, <1>3
  <2> QED BY <1>2, <2>1 DEF Tracks
<1>6. Len(e) <= Len(a) /\ Len(e) <= Limit
  BY <1>1, <1>2, LimitPositive DEF Tracks
<1> QED BY <1>4, <1>5, <1>6 DEF Tracks, e, a

\* A client admitted with fewer than Limit entries has its Limit-th last
\* admission out of the window.
LEMMA AppendSpaced ==
  ASSUME NEW entries \in Seq(Nat), NEW all \in Seq(Nat), NEW now \in Nat,
         Tracks(entries, all, now), Len(entries) < Limit, Spaced(all)
  PROVE  Spaced(Append(all, now))
<1> DEFINE a == Append(all, now)
<1>1. Len(entries) \in Nat /\ Len(all) \in Nat /\ Limit \in Nat \ {0}
  BY LenProperties, LimitPositive
<1>2. /\ Len(a) = Len(all) + 1
      /\ \A i \in 1 .. Len(all) : a[i] = all[i]
      /\ a[Len(all) + 1] = now
  BY AppendProperties
<1> HIDE DEF a
<1>3. ASSUME NEW i \in 1 .. Len(a) - Limit PROVE a[i + Limit] - a[i] > Window
  <2>1. CASE i + Limit = Len(all) + 1
    <3>1. i \in 1 .. Len(all) - Len(entries) /\ i \in 1 .. Len(all)
      BY <1>1, <2>1
    <3> QED BY <1>2, <2>1, <3>1 DEF Tracks
  <2>2. CASE i + Limit # Len(all) + 1
    <3> DEFINE k == Len(all) - Limit
               m == Len(a) - Limit
    <3>1. k \in Int /\ k <= Len(all) /\ m = k + 1 /\ i # k + 1
      BY <1>1, <1>2, <2>2
    <3>2. i \in 1 .. k /\ i \in 1 .. Len(all)
      <4> HIDE DEF k, m
      <4>1. i \in 1 .. m
        BY DEF m
      <4> QED BY <1>1, <3>1, <4>1
    <3>3. i + Limit \in 1 .. Len(all)
      BY <1>1, <3>2
    <3> QED BY <1>2, <3>2, <3>3 DEF Spaced
  <2> QED BY <2>1, <2>2
<1> QED BY <1>3 DEF Spaced, a

\* An entry pushed to a bucket whose first entry counts.
LEMMA AppendedFirst ==
  ASSUME NEW entries \in Seq(Nat), NEW now \in Nat,
         entries # <<>> => now - entries[1] <= Window
  PROVE  /\ Append(entries, now) \in Seq(Nat)
         /\ Append(entries, now) # <<>>
         /\ now - Append(entries, now)[1] <= Window
<1>1. entries # <<>> => 1 \in 1 .. Len(entries)
  BY LenProperties, EmptySeq
<1>2. entries = <<>> => Len(entries) = 0
  OBVIOUS
<1>3. /\ Append(entries, now) \in Seq(Nat) /\ Len(entries) \in Nat
      /\ Len(Append(entries, now)) = Len(entries) + 1
      /\ \A i \in 1 .. Len(entries) : Append(entries, now)[i] = entries[i]
      /\ Append(entries, now)[Len(entries) + 1] = now
  BY AppendProperties, LenProperties
<1>4. Append(entries, now) # <<>>
  BY <1>3, EmptySeq
<1>5. Append(entries, now)[1] = IF entries = <<>> THEN now ELSE entries[1]
  BY <1>1, <1>2, <1>3
<1> QED BY <1>3, <1>4, <1>5, NumbersAssumption

-----------------------------------------------------------------------------
(* The rate limiter: the invariant *)

\* The bucket of c against the history of its admissions.
BucketInv(c) ==
    /\ Tracks(Entries(buckets, c), admitted[c], checked)
    /\ Spaced(admitted[c])
    /\ c \in DOMAIN buckets =>
          buckets[c] # <<>> /\ checked - buckets[c][1] <= Window

LimiterInv ==
    /\ LimiterTypeOK
    /\ checked <= instant
    /\ \A c \in Clients : BucketInv(c)

\* The entries of a client are a sequence of times, in the map or not.
LEMMA EntriesType ==
  ASSUME NEW map, NEW c, c \in DOMAIN map => map[c] \in Seq(Nat)
  PROVE  Entries(map, c) \in Seq(Nat)
BY DEF Entries

\* What the sweep leaves of a client's entries.
LEMMA SweptEntries ==
  ASSUME LimiterInv, NEW c \in Clients, NEW now \in Nat, checked <= now
  PROVE  /\ DOMAIN Swept(now) \subseteq Clients
         /\ Entries(Swept(now), c) \in Seq(Nat)
         /\ Tracks(Entries(Swept(now), c), admitted[c], now)
         /\ c \in DOMAIN Swept(now) =>
               /\ Swept(now)[c] \in Seq(Nat)
               /\ Swept(now)[c] # <<>>
               /\ now - Swept(now)[c][1] <= Window
<1>1. /\ DOMAIN buckets \subseteq Clients /\ checked \in Nat
      /\ Entries(buckets, c) \in Seq(Nat) /\ admitted[c] \in Seq(Nat)
      /\ Tracks(Entries(buckets, c), admitted[c], checked)
  BY EntriesType DEF LimiterInv, LimiterTypeOK, BucketInv
<1>2. DOMAIN Swept(now) =
        {d \in DOMAIN buckets : Pruned(buckets[d], now) # <<>>}
  BY DEF Swept
<1>3. \A d \in DOMAIN Swept(now) : Swept(now)[d] = Pruned(buckets[d], now)
  BY DEF Swept
<1>4. CASE c \in DOMAIN Swept(now)
  <2>1. c \in DOMAIN buckets /\ Swept(now)[c] # <<>>
    BY <1>2, <1>3, <1>4
  <2>2. Entries(buckets, c) = buckets[c] /\ Entries(Swept(now), c) = Pruned(buckets[c], now)
    BY <1>3, <1>4, <2>1 DEF Entries
  <2>3. Tracks(Pruned(buckets[c], now), admitted[c], now)
    BY <1>1, <2>2, PrunedTracks
  <2>4. /\ Pruned(buckets[c], now) \in Seq(Nat)
        /\ Pruned(buckets[c], now) # <<>> => now - Pruned(buckets[c], now)[1] <= Window
    BY <1>1, <2>2, PrunedKeeps
  <2> QED BY <1>1, <1>2, <1>3, <1>4, <2>1, <2>2, <2>3, <2>4
<1>5. CASE c \notin DOMAIN Swept(now)
  <2>1. Entries(Swept(now), c) = <<>>
    BY <1>5 DEF Entries
  <2>2. Tracks(<<>>, admitted[c], now)
    <3>1. CASE c \in DOMAIN buckets
      <4>1. Pruned(buckets[c], now) = <<>> /\ Entries(buckets, c) = buckets[c]
        BY <1>2, <1>5, <3>1 DEF Entries
      <4> QED BY <1>1, <4>1, PrunedTracks
    <3>2. CASE c \notin DOMAIN buckets
      <4>1. Entries(buckets, c) = <<>>
        BY <3>2 DEF Entries
      <4> QED BY <1>1, <4>1, EmptyTracks
    <3> QED BY <3>1, <3>2
  <2> QED BY <1>1, <1>2, <1>5, <2>1, <2>2
<1> QED BY <1>4, <1>5

\* The map with the entries of c replaced.
LEMMA WithEntriesIs ==
  ASSUME NEW map, NEW c, NEW entries
  PROVE  /\ DOMAIN WithEntries(map, c, entries) = DOMAIN map \cup {c}
         /\ WithEntries(map, c, entries)[c] = entries
         /\ \A d \in DOMAIN map \ {c} : WithEntries(map, c, entries)[d] = map[d]
         /\ \A d : d # c => Entries(WithEntries(map, c, entries), d) = Entries(map, d)
         /\ Entries(WithEntries(map, c, entries), c) = entries
BY DEF WithEntries, Entries

\* The types of the limiter's parts, one by one.
LEMMA TypesOf ==
  ASSUME LimiterTypeOK
  PROVE  /\ instant \in Nat /\ checked \in Nat
         /\ \A r \in Requests : arrived[r] \in Nat \cup {Never}
         /\ \A c \in Clients : admitted[c] \in Seq(Nat)
BY DEF LimiterTypeOK

\* The invariant survives a step that changes neither the map nor the history.
LEMMA Untouched ==
  ASSUME LimiterInv, UNCHANGED <<buckets, admitted, answer, checked>>,
         instant' \in Nat, instant <= instant',
         arrived' \in [Requests -> Nat \cup {Never}]
  PROVE  LimiterInv'
<1>1. LimiterTypeOK'
  BY DEF LimiterInv, LimiterTypeOK
<1>2. checked' <= instant'
  BY DEF LimiterInv, LimiterTypeOK
<1>3. ASSUME NEW c \in Clients PROVE BucketInv(c)'
  <2>1. BucketInv(c)
    BY DEF LimiterInv
  <2>2. Entries(buckets, c)' = Entries(buckets, c)
    BY DEF Entries
  <2> QED BY <2>1, <2>2 DEF BucketInv, Tracks, Spaced
<1> QED BY <1>1, <1>2, <1>3 DEF LimiterInv

LEMMA InitLimiterInv == LimiterInit => LimiterInv
<1> SUFFICES ASSUME LimiterInit PROVE LimiterInv
  OBVIOUS
<1>1. <<>> \in Seq(Nat) /\ Len(<<>>) = 0 /\ DOMAIN buckets = {} /\ DOMAIN answer = {}
  BY DEF LimiterInit
<1>2. LimiterTypeOK
  BY <1>1 DEF LimiterInit, LimiterTypeOK
<1>3. checked <= instant
  BY DEF LimiterInit
<1>4. ASSUME NEW c \in Clients PROVE BucketInv(c)
  <2>1. Entries(buckets, c) = <<>> /\ admitted[c] = <<>>
    BY <1>1 DEF Entries, LimiterInit
  <2>2. Tracks(<<>>, <<>>, checked)
    BY <1>1, LimitPositive DEF Tracks
  <2>3. Spaced(<<>>)
    BY <1>1, LimitPositive DEF Spaced
  <2> QED BY <1>1, <2>1, <2>2, <2>3 DEF BucketInv
<1> QED BY <1>2, <1>3, <1>4 DEF LimiterInv

\* What both answers leave: the map swept, with the new entries of the client
\* that asked, and the history of that client.
LEMMA DecidedKeepsLimiterInv ==
  ASSUME LimiterInv, NEW r \in Requests, arrived[r] # Never,
         NEW c \in Clients, NEW entries \in Seq(Nat), NEW all \in Seq(Nat),
         NEW allowed \in BOOLEAN,
         arrived' = [arrived EXCEPT ![r] = Never],
         checked' = instant, instant' = instant,
         buckets' = WithEntries(Swept(instant), c, entries),
         admitted' = [admitted EXCEPT ![c] = all],
         Answer(c, allowed, entries, instant),
         Tracks(entries, all, instant), Spaced(all),
         entries # <<>>, instant - entries[1] <= Window
  PROVE  LimiterInv'
<1>0. instant \in Nat /\ checked <= instant
  BY DEF LimiterInv, LimiterTypeOK
<1>1. \A d \in Clients :
        /\ DOMAIN Swept(instant) \subseteq Clients
        /\ Entries(Swept(instant), d) \in Seq(Nat)
        /\ Tracks(Entries(Swept(instant), d), admitted[d], instant)
        /\ d \in DOMAIN Swept(instant) =>
              /\ Swept(instant)[d] \in Seq(Nat)
              /\ Swept(instant)[d] # <<>>
              /\ instant - Swept(instant)[d][1] <= Window
  BY <1>0, SweptEntries
<1>2. /\ DOMAIN buckets' = DOMAIN Swept(instant) \cup {c}
      /\ buckets'[c] = entries
      /\ \A d \in DOMAIN Swept(instant) \ {c} : buckets'[d] = Swept(instant)[d]
      /\ \A d : d # c => Entries(buckets', d) = Entries(Swept(instant), d)
      /\ Entries(buckets', c) = entries
  <2> DEFINE new == WithEntries(Swept(instant), c, entries)
  <2>1. /\ DOMAIN new = DOMAIN Swept(instant) \cup {c}
        /\ new[c] = entries
        /\ \A d \in DOMAIN Swept(instant) \ {c} : new[d] = Swept(instant)[d]
        /\ \A d : d # c => Entries(new, d) = Entries(Swept(instant), d)
        /\ Entries(new, c) = entries
    BY Zenon DEF WithEntries, Entries
  <2> HIDE DEF new
  <2>2. buckets' = new
    BY DEF new
  <2> QED BY <2>1, <2>2, Zenon
<1>3. DOMAIN buckets' \subseteq Clients
  BY <1>1, <1>2
<1>4. \A d \in DOMAIN buckets' : buckets'[d] \in Seq(Nat)
  BY <1>1, <1>2, <1>3
<1>5. arrived' \in [Requests -> Nat \cup {Never}] /\ admitted' \in [Clients -> Seq(Nat)]
  BY DEF LimiterInv, LimiterTypeOK
<1>6. DOMAIN answer' \subseteq Clients /\ \A d \in DOMAIN answer' : answer'[d] \in Decisions
  <2>1. Len(entries) \in Nat /\ Len(entries) > 0 /\ Len(entries) <= Limit
    BY EmptySeq, LenProperties DEF Tracks
  <2>2. entries[1] \in Nat /\ Limit \in Nat /\ Window \in Nat
    BY <2>1, LimitPositive, NumbersAssumption
  <2>3. entries[1] + Window \in Nat /\ Limit - Len(entries) \in Nat
    BY <2>1, <2>2
  <2>4. [allowed   |-> allowed,
         at        |-> instant,
         remaining |-> IF allowed THEN Limit - Len(entries) ELSE 0,
         reset     |-> entries[1] + Window] \in Decisions
    BY <1>0, <2>3 DEF Decisions
  <2>5. DOMAIN answer' = DOMAIN answer \cup {c}
    BY DEF Answer
  <2>6. ASSUME NEW d \in DOMAIN answer' PROVE answer'[d] \in Decisions
    <3>1. CASE d = c
      BY <2>4, <2>5, <3>1 DEF Answer
    <3>2. CASE d # c
      BY <2>5, <2>6, <3>2 DEF Answer, LimiterInv, LimiterTypeOK
    <3> QED BY <3>1, <3>2
  <2> QED BY <2>5, <2>6 DEF LimiterInv, LimiterTypeOK
<1>7. LimiterTypeOK'
  BY <1>0, <1>3, <1>4, <1>5, <1>6 DEF LimiterTypeOK
<1>8. ASSUME NEW d \in Clients PROVE BucketInv(d)'
  <2>1. CASE d = c
    <3>1. admitted'[d] = all
      BY <2>1 DEF LimiterInv, LimiterTypeOK
    <3> QED BY <1>2, <2>1, <3>1 DEF BucketInv, Tracks, Spaced
  <2>2. CASE d # c
    <3>1. admitted'[d] = admitted[d] /\ Spaced(admitted[d])
      BY <2>2 DEF LimiterInv, LimiterTypeOK, BucketInv
    <3>2. d \in DOMAIN buckets' => d \in DOMAIN Swept(instant) /\ buckets'[d] = Swept(instant)[d]
      BY <1>2, <2>2
    <3>3. Entries(buckets', d) = Entries(Swept(instant), d)
      BY <1>2, <2>2
    <3> QED BY <1>1, <3>1, <3>2, <3>3 DEF BucketInv, Tracks, Spaced
  <2> QED BY <2>1, <2>2
<1>9. checked' <= instant'
  BY <1>0
<1> QED BY <1>7, <1>8, <1>9 DEF LimiterInv

LEMMA CheckKeepsLimiterInv ==
  ASSUME LimiterInv, NEW r \in Requests, Check(r)
  PROVE  LimiterInv'
<1> DEFINE c == ClientOf[r]
           map == Swept(instant)
           entries == Entries(map, c)
<1>0. /\ instant \in Nat /\ checked <= instant /\ c \in Clients
      /\ arrived[r] # Never /\ arrived' = [arrived EXCEPT ![r] = Never]
      /\ checked' = instant /\ instant' = instant
      /\ admitted \in [Clients -> Seq(Nat)] /\ admitted[c] \in Seq(Nat)
      /\ Spaced(admitted[c])
  BY ClientOfAssumption DEF LimiterInv, LimiterTypeOK, Check, BucketInv
<1>1. /\ entries \in Seq(Nat)
      /\ Tracks(entries, admitted[c], instant)
      /\ c \in DOMAIN map => map[c] # <<>> /\ instant - map[c][1] <= Window
  BY <1>0, SweptEntries
<1>2. Len(entries) \in Nat /\ Len(entries) <= Limit /\ Limit \in Nat \ {0}
  BY <1>1, LimitPositive, LenProperties DEF Tracks
<1>3. entries # <<>> => instant - entries[1] <= Window
  BY <1>1 DEF Entries
<1>4. CASE Len(entries) >= Limit
  <2>1. Refuse(c, map, instant)
    BY <1>4 DEF Check, Decide
  <2>2. /\ buckets' = WithEntries(Swept(instant), c, entries)
        /\ Answer(c, FALSE, entries, instant)
        /\ admitted' = [admitted EXCEPT ![c] = admitted[c]]
    BY <1>0, <2>1 DEF Refuse
  <2>3. entries # <<>>
    BY <1>2, <1>4
  <2> HIDE DEF entries, map, c
  <2> QED BY <1>0, <1>1, <1>3, <2>2, <2>3, DecidedKeepsLimiterInv
<1>5. CASE ~(Len(entries) >= Limit)
  <2>1. Admit(c, map, instant)
    BY <1>5 DEF Check, Decide
  <2>2. /\ buckets' = WithEntries(Swept(instant), c, Append(entries, instant))
        /\ Answer(c, TRUE, Append(entries, instant), instant)
        /\ admitted' = [admitted EXCEPT ![c] = Append(admitted[c], instant)]
    BY <1>0, <2>1 DEF Admit
  <2> HIDE DEF entries, map, c
  <2>3. Len(entries) < Limit
    BY <1>2, <1>5
  <2>4. /\ Tracks(Append(entries, instant), Append(admitted[c], instant), instant)
        /\ Spaced(Append(admitted[c], instant))
    BY <1>0, <1>1, <2>3, AppendTracks, AppendSpaced
  <2>5. /\ Append(entries, instant) \in Seq(Nat) /\ Append(admitted[c], instant) \in Seq(Nat)
        /\ Append(entries, instant) # <<>> /\ instant - Append(entries, instant)[1] <= Window
    BY <1>0, <1>1, <1>3, AppendedFirst
  <2> QED BY <1>0, <2>2, <2>4, <2>5, DecidedKeepsLimiterInv
<1> QED BY <1>4, <1>5

LEMMA StepLimiterInv == LimiterInv /\ [LimiterNext]_limiterVars => LimiterInv'
<1> SUFFICES ASSUME LimiterInv, [LimiterNext]_limiterVars PROVE LimiterInv'
  OBVIOUS
<1>0. instant \in Nat /\ arrived \in [Requests -> Nat \cup {Never}]
  BY DEF LimiterInv, LimiterTypeOK
<1>1. ASSUME NEW r \in Requests, Await(r) PROVE LimiterInv'
  <2>1. UNCHANGED <<buckets, admitted, answer, checked>> /\ instant' = instant
    BY <1>1 DEF Await
  <2>2. arrived' \in [Requests -> Nat \cup {Never}]
    BY <1>0, <1>1 DEF Await
  <2> QED BY <1>0, <2>1, <2>2, Untouched
<1>2. ASSUME NEW r \in Requests, Check(r) PROVE LimiterInv'
  BY <1>2, CheckKeepsLimiterInv
<1>3. ASSUME NEW r \in Requests, Leave(r) PROVE LimiterInv'
  <2>1. UNCHANGED <<buckets, admitted, answer, checked>> /\ instant' = instant
    BY <1>3 DEF Leave
  <2>2. arrived' \in [Requests -> Nat \cup {Never}]
    BY <1>0, <1>3 DEF Leave
  <2> QED BY <1>0, <2>1, <2>2, Untouched
<1>4. CASE LimiterTick
  <2>1. UNCHANGED <<buckets, admitted, answer, checked>> /\ arrived' = arrived
    BY <1>4 DEF LimiterTick
  <2>2. instant' \in Nat /\ instant <= instant'
    BY <1>0, <1>4 DEF LimiterTick
  <2> QED BY <1>0, <2>1, <2>2, Untouched
<1>5. CASE UNCHANGED limiterVars
  <2>1. UNCHANGED <<buckets, admitted, answer, checked>> /\ instant' = instant /\ arrived' = arrived
    BY <1>5 DEF limiterVars
  <2> QED BY <1>0, <2>1, Untouched
<1> QED BY <1>1, <1>2, <1>3, <1>4, <1>5 DEF LimiterNext

\* Every state of the limiter satisfies the invariant.
LEMMA LimiterInvariant == LimiterSpec => []LimiterInv
BY InitLimiterInv, StepLimiterInv, PTL DEF LimiterSpec

-----------------------------------------------------------------------------
(* The rate limiter: answers *)

\* Admissions are recorded in the order of their times, none in the future.
Ordered(all, time) ==
    /\ \A i, j \in 1 .. Len(all) : i <= j => all[i] <= all[j]
    /\ \A i \in 1 .. Len(all) : all[i] <= time

AnswersInv ==
    /\ \A c \in Clients : Ordered(admitted[c], checked)
    /\ AnswersAreExact

\* The admissions that count are those the bucket holds: of an ordered history
\* none after the bucket's first entry is older than it.
LEMMA CountedIsTracked ==
  ASSUME NEW entries \in Seq(Nat), NEW all \in Seq(Nat), NEW now \in Nat,
         Tracks(entries, all, now), Ordered(all, now),
         entries # <<>>, now - entries[1] <= Window
  PROVE  LET first == Len(all) - Len(entries) + 1
             counted == {i \in DOMAIN all : now - all[i] <= Window}
         IN  /\ first \in counted
             /\ all[first] = entries[1]
             /\ \A i \in counted : all[first] <= all[i]
             /\ Cardinality(counted) = Len(entries)
<1> DEFINE n == Len(all)
           k == Len(entries)
           first == n - k + 1
           counted == {i \in DOMAIN all : now - all[i] <= Window}
<1>1. /\ n \in Nat /\ k \in Nat /\ k >= 1 /\ k <= n /\ first \in 1 .. n
      /\ DOMAIN all = 1 .. n /\ \A i \in 1 .. n : all[i] \in Nat
  <2>1. n \in Nat /\ k \in Nat /\ k >= 1 /\ k <= n
    BY LenProperties, EmptySeq DEF Tracks
  <2> QED BY <2>1, LenProperties, ElementOfSeq
<1>2. /\ all[first] = entries[1]
      /\ \A i \in 1 .. n - k : now - all[i] > Window
  BY <1>1 DEF Tracks
<1>3. ASSUME NEW i \in first .. n PROVE all[first] <= all[i]
  <2> HIDE DEF first
  <2>1. i \in 1 .. n /\ first <= i
    BY <1>1
  <2> QED BY <1>1, <2>1 DEF Ordered
<1> HIDE DEF n, k
<1>4. counted = first .. n
  <2>1. ASSUME NEW i \in first .. n PROVE i \in counted
    <3>1. i \in 1 .. n /\ all[first] <= all[i] /\ all[i] \in Nat /\ all[first] \in Nat
      BY <1>1, <1>3
    <3>2. now - all[i] <= Window
      BY <1>2, <3>1, NumbersAssumption
    <3> QED BY <1>1, <3>1, <3>2
  <2>2. ASSUME NEW i \in counted PROVE i \in first .. n
    <3>1. i \in 1 .. n /\ now - all[i] <= Window /\ all[i] \in Nat
      BY <1>1
    <3>2. ~(i \in 1 .. n - k)
      BY <1>2, <3>1, NumbersAssumption
    <3> QED BY <1>1, <3>1, <3>2
  <2> QED BY <2>1, <2>2
<1>5. Cardinality(counted) = k
  <2>1. first \in Int /\ n \in Int
    BY <1>1
  <2>2. Cardinality(first .. n) = IF first > n THEN 0 ELSE n - first + 1
    <3> HIDE DEF first
    <3> QED BY <2>1, FS_Interval
  <2>3. Cardinality(first .. n) = k
    BY <1>1, <2>2
  <2> QED BY <1>4, <2>3
<1>6. first \in counted /\ \A i \in counted : all[first] <= all[i]
  <2> HIDE DEF first, counted
  <2>1. first \in first .. n
    BY <1>1
  <2> QED BY <1>3, <1>4, <2>1
<1> QED BY <1>2, <1>5, <1>6 DEF n, k

LEMMA AppendOrdered ==
  ASSUME NEW all \in Seq(Nat), NEW now \in Nat, Ordered(all, now)
  PROVE  Ordered(Append(all, now), now)
<1> DEFINE a == Append(all, now)
<1>1. /\ Len(all) \in Nat /\ Len(a) = Len(all) + 1
      /\ \A i \in 1 .. Len(all) : a[i] = all[i] /\ all[i] <= now /\ all[i] \in Nat
      /\ a[Len(all) + 1] = now
  BY AppendProperties, LenProperties, ElementOfSeq DEF Ordered
<1>2. \A i \in 1 .. Len(a) : i \in 1 .. Len(all) \/ i = Len(all) + 1
  BY <1>1
<1> HIDE DEF a
<1>3. ASSUME NEW i \in 1 .. Len(a), NEW j \in 1 .. Len(a), i <= j PROVE a[i] <= a[j]
  <2>1. CASE i \in 1 .. Len(all) /\ j \in 1 .. Len(all)
    BY <1>1, <1>3, <2>1 DEF Ordered
  <2>2. CASE j = Len(all) + 1
    BY <1>1, <1>2, <2>2
  <2>3. CASE i = Len(all) + 1 /\ j \in 1 .. Len(all)
    BY <1>1, <1>3, <2>3
  <2> QED BY <1>2, <2>1, <2>2, <2>3
<1>4. \A i \in 1 .. Len(a) : a[i] <= now
  BY <1>1, <1>2
<1> QED BY <1>3, <1>4 DEF Ordered, a

\* An answer given from the entries the client has once it is decided.
LEMMA DecidedKeepsAnswers ==
  ASSUME LimiterInv, AnswersInv, NEW c \in Clients, NEW entries \in Seq(Nat),
         NEW all \in Seq(Nat), NEW allowed \in BOOLEAN,
         checked' = instant,
         admitted' = [admitted EXCEPT ![c] = all],
         Answer(c, allowed, entries, instant),
         Tracks(entries, all, instant), Ordered(all, instant),
         entries # <<>>, instant - entries[1] <= Window,
         ~allowed => Len(entries) = Limit
  PROVE  AnswersInv'
<1>0. /\ instant \in Nat /\ checked \in Nat /\ checked <= instant
      /\ admitted \in [Clients -> Seq(Nat)] /\ Limit \in Nat /\ Len(entries) \in Nat
      /\ DOMAIN answer \subseteq Clients
  BY LimitPositive, LenProperties DEF LimiterInv, LimiterTypeOK
<1>1. ASSUME NEW d \in Clients PROVE Ordered(admitted[d], checked)'
  <2>1. CASE d = c
    BY <1>0, <2>1
  <2>2. CASE d # c
    <3>1. admitted'[d] = admitted[d] /\ admitted[d] \in Seq(Nat) /\ Ordered(admitted[d], checked)
      BY <1>0, <2>2 DEF AnswersInv
    <3>2. \A i \in 1 .. Len(admitted[d]) : admitted[d][i] \in Nat
      BY <3>1, ElementOfSeq
    <3>3. Ordered(admitted[d], instant)
      BY <1>0, <3>1, <3>2 DEF Ordered
    <3> QED BY <3>1, <3>3
  <2> QED BY <2>1, <2>2
<1>2. ASSUME NEW d \in DOMAIN answer'
      PROVE  LET counted == Counted(d, answer[d].at)' IN
               /\ answer'[d].remaining = Limit - Cardinality(counted)
               /\ ~answer'[d].allowed => Cardinality(counted) = Limit
               /\ \E i \in counted :
                     /\ \A j \in counted : admitted'[d][i] <= admitted'[d][j]
                     /\ answer'[d].reset = admitted'[d][i] + Window
  <2>1. DOMAIN answer' = DOMAIN answer \cup {c}
    BY DEF Answer
  <2>2. CASE d # c
    <3>1. d \in DOMAIN answer /\ answer'[d] = answer[d] /\ admitted'[d] = admitted[d]
      BY <1>0, <1>2, <2>1, <2>2 DEF Answer
    <3>2. Counted(d, answer[d].at)' = Counted(d, answer[d].at)
      BY <3>1 DEF Counted
    <3> QED BY <3>1, <3>2 DEF AnswersInv, AnswersAreExact
  <2>3. CASE d = c
    <3> DEFINE first == Len(all) - Len(entries) + 1
               counted == {i \in DOMAIN all : instant - all[i] <= Window}
    <3>1. answer'[d] = [allowed   |-> allowed,
                        at        |-> instant,
                        remaining |-> IF allowed THEN Limit - Len(entries) ELSE 0,
                        reset     |-> entries[1] + Window]
      BY <2>1, <2>3 DEF Answer
    <3>2. /\ answer'[d].allowed = allowed /\ answer'[d].at = instant
          /\ answer'[d].remaining = IF allowed THEN Limit - Len(entries) ELSE 0
          /\ answer'[d].reset = entries[1] + Window
      BY <3>1
    <3>3. admitted'[d] = all
      BY <1>0, <2>3
    <3>4. Counted(d, answer[d].at)' = counted
      BY <3>2, <3>3 DEF Counted
    <3>5. /\ first \in counted
          /\ all[first] = entries[1]
          /\ \A i \in counted : all[first] <= all[i]
          /\ Cardinality(counted) = Len(entries)
      BY <1>0, CountedIsTracked
    <3> HIDE DEF first, counted
    <3>6. /\ answer'[d].remaining = Limit - Cardinality(counted)
          /\ ~answer'[d].allowed => Cardinality(counted) = Limit
      BY <1>0, <3>2, <3>5
    <3> QED BY <3>2, <3>3, <3>4, <3>5, <3>6
  <2> QED BY <2>2, <2>3
<1> QED BY <1>1, <1>2 DEF AnswersInv, AnswersAreExact

LEMMA CheckKeepsAnswers ==
  ASSUME LimiterInv, AnswersInv, NEW r \in Requests, Check(r)
  PROVE  AnswersInv'
<1> DEFINE c == ClientOf[r]
           map == Swept(instant)
           entries == Entries(map, c)
<1>0. /\ instant \in Nat /\ checked \in Nat /\ checked <= instant /\ c \in Clients
      /\ checked' = instant
      /\ admitted \in [Clients -> Seq(Nat)] /\ admitted[c] \in Seq(Nat)
  BY ClientOfAssumption DEF LimiterInv, LimiterTypeOK, Check
<1>1. /\ entries \in Seq(Nat)
      /\ Tracks(entries, admitted[c], instant)
      /\ c \in DOMAIN map => map[c] # <<>> /\ instant - map[c][1] <= Window
  BY <1>0, SweptEntries
<1>2. Len(entries) \in Nat /\ Len(entries) <= Limit /\ Limit \in Nat \ {0}
  BY <1>1, LimitPositive, LenProperties DEF Tracks
<1>3. entries # <<>> => instant - entries[1] <= Window
  BY <1>1 DEF Entries
<1>4. Ordered(admitted[c], instant)
  <2>1. Ordered(admitted[c], checked) /\ \A i \in 1 .. Len(admitted[c]) : admitted[c][i] \in Nat
    BY <1>0, ElementOfSeq DEF AnswersInv
  <2> QED BY <1>0, <2>1 DEF Ordered
<1>5. CASE Len(entries) >= Limit
  <2>1. Refuse(c, map, instant)
    BY <1>5 DEF Check, Decide
  <2>2. /\ Answer(c, FALSE, entries, instant)
        /\ admitted' = [admitted EXCEPT ![c] = admitted[c]]
    BY <1>0, <2>1 DEF Refuse
  <2>3. entries # <<>> /\ Len(entries) = Limit
    BY <1>2, <1>5
  <2> HIDE DEF entries, map, c
  <2> QED BY <1>0, <1>1, <1>3, <1>4, <2>2, <2>3, DecidedKeepsAnswers
<1>6. CASE ~(Len(entries) >= Limit)
  <2>1. Admit(c, map, instant)
    BY <1>6 DEF Check, Decide
  <2>2. /\ Answer(c, TRUE, Append(entries, instant), instant)
        /\ admitted' = [admitted EXCEPT ![c] = Append(admitted[c], instant)]
    BY <1>0, <2>1 DEF Admit
  <2> HIDE DEF entries, map, c
  <2>3. Len(entries) < Limit
    BY <1>2, <1>6
  <2>4. /\ Tracks(Append(entries, instant), Append(admitted[c], instant), instant)
        /\ Ordered(Append(admitted[c], instant), instant)
    BY <1>0, <1>1, <1>4, <2>3, AppendTracks, AppendOrdered
  <2>5. /\ Append(entries, instant) \in Seq(Nat) /\ Append(admitted[c], instant) \in Seq(Nat)
        /\ Append(entries, instant) # <<>> /\ instant - Append(entries, instant)[1] <= Window
    BY <1>0, <1>1, <1>3, AppendedFirst
  <2> QED BY <1>0, <2>2, <2>4, <2>5, DecidedKeepsAnswers
<1> QED BY <1>5, <1>6

LEMMA StepAnswers == LimiterInv /\ AnswersInv /\ [LimiterNext]_limiterVars => AnswersInv'
<1> SUFFICES ASSUME LimiterInv, AnswersInv, [LimiterNext]_limiterVars PROVE AnswersInv'
  OBVIOUS
<1>1. ASSUME UNCHANGED <<admitted, answer, checked>> PROVE AnswersInv'
  BY <1>1 DEF AnswersInv, AnswersAreExact, Ordered, Counted
<1>2. ASSUME NEW r \in Requests, Await(r) \/ Leave(r) PROVE AnswersInv'
  BY <1>1, <1>2 DEF Await, Leave
<1>3. ASSUME NEW r \in Requests, Check(r) PROVE AnswersInv'
  BY <1>3, CheckKeepsAnswers
<1>4. CASE LimiterTick \/ UNCHANGED limiterVars
  BY <1>1, <1>4 DEF LimiterTick, limiterVars
<1> QED BY <1>2, <1>3, <1>4 DEF LimiterNext

LEMMA InitAnswers == LimiterInit => AnswersInv
<1> SUFFICES ASSUME LimiterInit PROVE AnswersInv
  OBVIOUS
<1>1. DOMAIN answer = {} /\ \A c \in Clients : admitted[c] = <<>> /\ Len(admitted[c]) = 0
  BY DEF LimiterInit
<1> QED BY <1>1 DEF AnswersInv, AnswersAreExact, Ordered

-----------------------------------------------------------------------------
(* The rate limiter: what follows *)

\* The limiter's state has its type: in particular no answer has a negative
\* number of requests remaining.
THEOREM LimiterTypes == LimiterSpec => []LimiterTypeOK
<1>1. LimiterInv => LimiterTypeOK
  BY DEF LimiterInv
<1> QED BY LimiterInvariant, <1>1, PTL

\* No client is admitted more than Limit times within a window, wherever the
\* window begins and however its requests wait for the mutex.
THEOREM NeverAboveLimit == LimiterSpec => []AtMostLimit
<1>1. LimiterInv => AtMostLimit
  BY DEF LimiterInv, BucketInv, Spaced, AtMostLimit
<1> QED BY LimiterInvariant, <1>1, PTL

\* The map holds exactly the clients with an admission in the window that ended
\* with the last decision.
THEOREM MapIsPruned == LimiterSpec => []MapHoldsActive
<1>1. LimiterInv => MapHoldsActive
  <2> SUFFICES ASSUME LimiterInv, NEW c \in Clients
               PROVE  c \in DOMAIN buckets <=> Counted(c, checked) # {}
    BY DEF MapHoldsActive, LimiterInv, LimiterTypeOK
  <2> DEFINE all == admitted[c]
             entries == Entries(buckets, c)
  <2>1. /\ BucketInv(c) /\ checked \in Nat /\ all \in Seq(Nat)
        /\ c \in DOMAIN buckets => buckets[c] \in Seq(Nat)
    BY DEF LimiterInv, LimiterTypeOK
  <2>2. /\ entries \in Seq(Nat) /\ Len(entries) \in Nat /\ Len(all) \in Nat
        /\ DOMAIN all = 1 .. Len(all)
    BY <2>1, EntriesType, LenProperties
  <2>3. ASSUME c \in DOMAIN buckets PROVE Counted(c, checked) # {}
    <3>1. entries = buckets[c] /\ entries # <<>> /\ checked - entries[1] <= Window
      BY <2>1, <2>3 DEF BucketInv, Entries
    <3>2. Len(entries) >= 1 /\ Len(entries) <= Len(all)
      BY <2>1, <2>2, <3>1, EmptySeq DEF BucketInv, Tracks
    <3>3. entries[1] = all[Len(all) - Len(entries) + 1]
      BY <2>1, <2>2, <3>2 DEF BucketInv, Tracks
    <3>4. Len(all) - Len(entries) + 1 \in DOMAIN all
      BY <2>2, <3>2
    <3>5. Len(all) - Len(entries) + 1 \in Counted(c, checked)
      BY <3>1, <3>3, <3>4 DEF Counted
    <3> QED BY <3>5
  <2>4. ASSUME c \notin DOMAIN buckets PROVE Counted(c, checked) = {}
    <3>1. entries = <<>> /\ Len(entries) = 0
      BY <2>4 DEF Entries
    <3>2. \A i \in 1 .. Len(all) : checked - all[i] > Window
      BY <2>1, <2>2, <3>1 DEF BucketInv, Tracks
    <3>3. \A i \in 1 .. Len(all) : all[i] \in Nat
      BY <2>1
    <3> QED BY <2>1, <2>2, <3>2, <3>3, NumbersAssumption DEF Counted
  <2> QED BY <2>3, <2>4
<1> QED BY LimiterInvariant, <1>1, PTL

\* Every answer is right about what the client may still send and when the first
\* of its admissions stops counting, whatever was decided for it since.
THEOREM AnswersAreTrue == LimiterSpec => []AnswersAreExact
<1>1. AnswersInv => AnswersAreExact
  BY DEF AnswersInv
<1> QED BY LimiterInvariant, InitAnswers, StepAnswers, <1>1, PTL DEF LimiterSpec

-----------------------------------------------------------------------------
(* Favourites: the operators on lists of entries *)

\* No id twice.
Distinct(entries) == \A i, j \in DOMAIN entries : i # j => entries[i].id # entries[j].id

\* Every entry has a station.
Complete(entries) == \A i \in DOMAIN entries : entries[i].station # None

\* ListIsWhole, of any list.
Whole(entries) == Len(entries) <= MaxFavorites /\ Distinct(entries) /\ Complete(entries)

LEMMA EntriesAre ==
  ASSUME NEW e \in Seq(Entry)
  PROVE  /\ Len(e) \in Nat /\ DOMAIN e = 1 .. Len(e)
         /\ \A i \in DOMAIN e : e[i] \in Entry /\ e[i].id \in Stations
<1>1. Len(e) \in Nat /\ DOMAIN e = 1 .. Len(e) /\ \A i \in DOMAIN e : e[i] \in Entry
  <2> HIDE DEF Entry
  <2> QED BY LenProperties, ElementOfSeq
<1> QED BY <1>1 DEF Entry

LEMMA PickEntries ==
  ASSUME NEW e \in Seq(Entry), NEW P, P \subseteq DOMAIN e
  PROVE  LET k == Pick(e, P)
         IN  /\ k \in Seq(Entry) /\ Len(k) <= Len(e)
             /\ \A i \in DOMAIN k : \E p \in P : k[i] = e[p]
             /\ \A p \in P : \E i \in DOMAIN k : k[i] = e[p]
             /\ (\A i, j \in P : i # j => e[i].id # e[j].id) => Distinct(k)
<1> DEFINE k == Pick(e, P)
           n == Cardinality(P)
           f == InOrder(P)
<1>1. /\ n \in Nat /\ n <= Len(e)
      /\ f \in [1 .. n -> P]
      /\ \A i, j \in 1 .. n : i < j => f[i] < f[j]
      /\ \A p \in P : \E i \in 1 .. n : f[i] = p
      /\ k \in Seq(Entry) /\ Len(k) = n /\ DOMAIN k = 1 .. n
      /\ \A i \in 1 .. n : k[i] = e[f[i]]
  <2> HIDE DEF Entry
  <2> QED BY PickIs
<1>2. P \subseteq Nat
  BY EntriesAre
<1> HIDE DEF k, n, f
<1>3. ASSUME \A i, j \in P : i # j => e[i].id # e[j].id PROVE Distinct(k)
  <2> SUFFICES ASSUME NEW i \in 1 .. n, NEW j \in 1 .. n, i # j PROVE k[i].id # k[j].id
    BY <1>1 DEF Distinct
  <2>1. f[i] \in P /\ f[j] \in P /\ f[i] # f[j]
    BY <1>1, <1>2
  <2> QED BY <1>1, <1>3, <2>1
<1>4. \A i \in DOMAIN k : \E p \in P : k[i] = e[p]
  BY <1>1
<1>5. \A p \in P : \E i \in DOMAIN k : k[i] = e[p]
  BY <1>1
<1> QED BY <1>1, <1>3, <1>4, <1>5 DEF k

\* take(MAX_FAVORITES).
LEMMA TakenIs ==
  ASSUME NEW e \in Seq(Entry)
  PROVE  LET t == Taken(e)
         IN  /\ t \in Seq(Entry)
             /\ Len(t) = IF Len(e) < MaxFavorites THEN Len(e) ELSE MaxFavorites
             /\ \A i \in DOMAIN t : i \in DOMAIN e /\ t[i] = e[i]
             /\ Distinct(e) => Distinct(t)
             /\ Complete(e) => Complete(t)
             /\ Len(e) <= MaxFavorites => t = e
<1> DEFINE n == IF Len(e) < MaxFavorites THEN Len(e) ELSE MaxFavorites
           t == Taken(e)
<1>1. MaxFavorites \in Nat /\ n \in Nat /\ n <= Len(e) /\ n <= MaxFavorites
  BY EntriesAre, SizesAssumption
<1>2. t \in Seq(Entry) /\ Len(t) = n /\ \A i \in 1 .. n : t[i] = e[i]
  <2>1. t = SubSeq(e, 1, n)
    BY DEF Taken
  <2>2. \A i \in 1 .. n : e[i] \in Entry
    BY <1>1, EntriesAre
  <2> HIDE DEF t, n, Entry
  <2>3. /\ SubSeq(e, 1, n) \in Seq(Entry)
        /\ Len(SubSeq(e, 1, n)) = IF 1 <= n THEN n - 1 + 1 ELSE 0
        /\ \A i \in 1 .. n - 1 + 1 : SubSeq(e, 1, n)[i] = e[1 + i - 1]
    <3>1. 1 \in Int /\ n \in Int
      BY <1>1
    <3> QED BY <2>2, <3>1, SubSeqProperties
  <2> QED BY <1>1, <2>1, <2>3
<1> HIDE DEF t
<1>3. \A i \in DOMAIN t : i \in DOMAIN e /\ t[i] = e[i]
  BY <1>1, <1>2, EntriesAre
<1>4. Len(e) <= MaxFavorites => t = e
  <2> SUFFICES ASSUME Len(e) <= MaxFavorites PROVE t = e
    OBVIOUS
  <2>1. Len(e) = n /\ \A i \in 1 .. Len(t) : t[i] = e[i]
    BY <1>1, <1>2, EntriesAre
  <2> HIDE DEF Entry
  <2> QED BY <1>2, <2>1, SeqEqual
<1> QED BY <1>2, <1>3, <1>4 DEF Distinct, Complete, t

\* dedupe_entries: no station twice, and nothing new; a list that has none
\* twice is only cut.
LEMMA DedupedIs ==
  ASSUME NEW e \in Seq(Entry)
  PROVE  LET d == Deduped(e)
         IN  /\ d \in Seq(Entry) /\ Len(d) <= MaxFavorites /\ Distinct(d)
             /\ Distinct(e) => d = Taken(e)
<1> DEFINE P == {i \in DOMAIN e : \A j \in 1 .. i - 1 : e[j].id # e[i].id}
           k == Pick(e, P)
<1>1. Deduped(e) = Taken(k)
  BY DEF Deduped
<1>2. \A i, j \in P : i # j => e[i].id # e[j].id
  <2>1. \A i, j \in P : i < j => e[i].id # e[j].id
    BY EntriesAre
  <2> QED BY <2>1, EntriesAre
<1>3. P \subseteq DOMAIN e
  OBVIOUS
<1>4. k \in Seq(Entry) /\ Distinct(k)
  <2> HIDE DEF P
  <2> QED BY <1>2, <1>3, PickEntries
<1>5. Distinct(e) => k = e
  <2> SUFFICES ASSUME Distinct(e) PROVE k = e
    OBVIOUS
  <2>1. P = DOMAIN e
    <3> SUFFICES ASSUME NEW i \in DOMAIN e, NEW j \in 1 .. i - 1 PROVE e[j].id # e[i].id
      OBVIOUS
    <3>1. j \in DOMAIN e /\ j # i
      BY EntriesAre
    <3> QED BY <3>1 DEF Distinct
  <2> HIDE DEF P, Entry
  <2> QED BY <2>1, PickAll
<1>6. Taken(k) \in Seq(Entry) /\ Len(Taken(k)) <= MaxFavorites /\ Distinct(Taken(k))
  <2> HIDE DEF k
  <2>1. Taken(k) \in Seq(Entry) /\ Distinct(Taken(k))
        /\ Len(Taken(k)) = IF Len(k) < MaxFavorites THEN Len(k) ELSE MaxFavorites
    BY <1>4, TakenIs
  <2> QED BY <1>4, <2>1, EntriesAre, SizesAssumption
<1> QED BY <1>1, <1>5, <1>6

\* retain: the entries of the other stations.
LEMMA WithoutIs ==
  ASSUME NEW e \in Seq(Entry), NEW id
  PROVE  LET w == Without(e, id)
         IN  /\ w \in Seq(Entry) /\ Len(w) <= Len(e)
             /\ Ids(w) = Ids(e) \ {id}
             /\ Distinct(e) => Distinct(w)
             /\ Complete(e) => Complete(w)
             /\ id \notin Ids(e) => w = e
<1> DEFINE P == {i \in DOMAIN e : e[i].id # id}
           w == Without(e, id)
<1>1. w = Pick(e, P) /\ P \subseteq DOMAIN e
  BY DEF Without
<1>2. /\ w \in Seq(Entry) /\ Len(w) <= Len(e)
      /\ \A i \in DOMAIN w : \E p \in P : w[i] = e[p]
      /\ \A p \in P : \E i \in DOMAIN w : w[i] = e[p]
      /\ (\A i, j \in P : i # j => e[i].id # e[j].id) => Distinct(w)
  <2> HIDE DEF w, P
  <2> QED BY <1>1, PickEntries
<1>3. id \notin Ids(e) => w = e
  <2> SUFFICES ASSUME id \notin Ids(e) PROVE w = e
    OBVIOUS
  <2>1. P = DOMAIN e
    BY DEF Ids
  <2> HIDE DEF w, P, Entry
  <2> QED BY <1>1, <2>1, PickAll
<1> HIDE DEF w
<1>4. Ids(w) = Ids(e) \ {id}
  BY <1>2 DEF Ids
<1>5. Distinct(e) => Distinct(w)
  <2> SUFFICES ASSUME Distinct(e) PROVE Distinct(w)
    OBVIOUS
  <2>1. \A i, j \in P : i # j => e[i].id # e[j].id
    BY DEF Distinct
  <2> HIDE DEF P
  <2> QED BY <1>2, <2>1
<1>6. Complete(e) => Complete(w)
  BY <1>2 DEF Complete
<1> QED BY <1>2, <1>3, <1>4, <1>5, <1>6 DEF w

\* build_favorites_response: what can be shown, in its order; of a list that can
\* be shown, all.
LEMMA BuiltIs ==
  ASSUME NEW e \in Seq(Entry), NEW catalogue \in Catalogues
  PROVE  LET b == Built(e, catalogue)
         IN  /\ b \in Seq(Entry) /\ Len(b) <= MaxFavorites
             /\ Complete(b)
             /\ Distinct(e) => Distinct(b)
             /\ \A i \in DOMAIN e :
                   i <= MaxFavorites /\ (e[i].id \in DOMAIN catalogue \/ e[i].station # None)
                       => e[i].id \in Ids(b)
             /\ Len(e) <= MaxFavorites /\ Complete(e) =>
                    Len(b) = Len(e) /\ \A i \in DOMAIN e : b[i].id = e[i].id
<1> DEFINE t == Taken(e)
           P == {i \in DOMAIN t : t[i].id \in DOMAIN catalogue \/ t[i].station # None}
           k == Pick(t, P)
           b == Built(e, catalogue)
<1>1. b = [i \in DOMAIN k |-> Updated(k[i], catalogue)]
  BY DEF Built
<1>2. /\ t \in Seq(Entry)
      /\ Len(t) = IF Len(e) < MaxFavorites THEN Len(e) ELSE MaxFavorites
      /\ \A i \in DOMAIN t : i \in DOMAIN e /\ t[i] = e[i]
      /\ Distinct(e) => Distinct(t)
      /\ Complete(e) => Complete(t)
      /\ Len(e) <= MaxFavorites => t = e
  BY TakenIs
<1>3. Len(e) \in Nat /\ DOMAIN e = 1 .. Len(e) /\ DOMAIN t = 1 .. Len(t) /\ Len(t) <= MaxFavorites
  BY <1>2, EntriesAre, SizesAssumption
<1>4. /\ k \in Seq(Entry) /\ Len(k) <= Len(t)
      /\ \A i \in DOMAIN k : \E p \in P : k[i] = t[p]
      /\ \A p \in P : \E i \in DOMAIN k : k[i] = t[p]
      /\ (\A i, j \in P : i # j => t[i].id # t[j].id) => Distinct(k)
  <2>1. P \subseteq DOMAIN t
    OBVIOUS
  <2> HIDE DEF t, P
  <2> QED BY <1>2, <2>1, PickEntries
<1>5. P = DOMAIN t => k = t
  <2> SUFFICES ASSUME P = DOMAIN t PROVE k = t
    OBVIOUS
  <2> HIDE DEF t, P, Entry
  <2> QED BY <1>2, PickAll
<1> HIDE DEF t, k, b
<1>6. Len(k) \in Nat /\ DOMAIN k = 1 .. Len(k) /\ \A i \in DOMAIN k : k[i] \in Entry /\ k[i].id \in Stations
  BY <1>4, EntriesAre
<1>7. \A i \in DOMAIN k :
         LET u == Updated(k[i], catalogue)
         IN  u \in Entry /\ u.id = k[i].id /\ u.station # None
  <2> SUFFICES ASSUME NEW i \in DOMAIN k
               PROVE  LET u == Updated(k[i], catalogue)
                      IN  u \in Entry /\ u.id = k[i].id /\ u.station # None
    OBVIOUS
  <2>1. CASE k[i].id \in DOMAIN catalogue
    <3> DEFINE s == catalogue[k[i].id]
    <3>1. s \in Range(catalogue)
      BY <2>1 DEF Range
    <3>2. s \in Snapshots /\ s # None
      BY <3>1, CataloguesAssumption DEF Snapshots
    <3>3. Updated(k[i], catalogue) = [k[i] EXCEPT !.station = s]
      BY <2>1 DEF Updated
    <3> HIDE DEF s
    <3> QED BY <1>6, <3>2, <3>3 DEF Entry
  <2>2. CASE k[i].id \notin DOMAIN catalogue
    <3>1. k[i].station # None
      BY <1>4, <2>2
    <3>2. Updated(k[i], catalogue) = k[i]
      BY <2>2 DEF Updated
    <3> QED BY <1>6, <3>1, <3>2
  <2> QED BY <2>1, <2>2
<1>8. /\ b \in Seq(Entry) /\ Len(b) = Len(k) /\ DOMAIN b = DOMAIN k
      /\ \A i \in DOMAIN k : b[i].id = k[i].id /\ b[i].station # None
  <2>1. b \in [1 .. Len(k) -> Entry]
    BY <1>1, <1>6, <1>7
  <2>2. b \in Seq(Entry)
    BY <1>6, <2>1, SeqDef
  <2>3. Len(b) = Len(k)
    BY <1>6, <2>1, <2>2, LenProperties
  <2> QED BY <1>1, <1>6, <1>7, <2>2, <2>3
<1>9. Distinct(e) => Distinct(b)
  <2> SUFFICES ASSUME Distinct(e) PROVE Distinct(b)
    OBVIOUS
  <2>1. \A i, j \in P : i # j => t[i].id # t[j].id
    BY <1>2 DEF Distinct
  <2>2. Distinct(k)
    <3> HIDE DEF P
    <3> QED BY <1>4, <2>1
  <2> QED BY <1>8, <2>2 DEF Distinct
<1>10. ASSUME NEW i \in DOMAIN e, i <= MaxFavorites,
              e[i].id \in DOMAIN catalogue \/ e[i].station # None
       PROVE  e[i].id \in Ids(b)
  <2>1. i \in DOMAIN t
    BY <1>2, <1>3, <1>10, SizesAssumption
  <2>2. i \in P
    BY <1>2, <1>10, <2>1
  <2>3. PICK j \in DOMAIN k : k[j] = t[i]
    <3> HIDE DEF P
    <3> QED BY <1>4, <2>2
  <2> QED BY <1>2, <1>8, <2>1, <2>3 DEF Ids
<1>11. ASSUME Len(e) <= MaxFavorites, Complete(e)
       PROVE  Len(b) = Len(e) /\ \A i \in DOMAIN e : b[i].id = e[i].id
  <2>1. P = DOMAIN t /\ t = e
    BY <1>2, <1>11 DEF Complete
  <2>2. k = e
    <3> HIDE DEF P
    <3> QED BY <1>5, <2>1
  <2> QED BY <1>8, <2>2
<1>12. Len(b) <= MaxFavorites /\ Complete(b)
  BY <1>3, <1>4, <1>6, <1>8, EntriesAre, SizesAssumption DEF Complete
<1> QED BY <1>8, <1>9, <1>10, <1>11, <1>12 DEF b

\* The place an insertion takes.
PlaceOf(q, size) == IF q.slot # None /\ q.slot < size THEN q.slot + 1 ELSE size + 1

\* What a request inserts.
EntryOf(q) == [id |-> q.id, station |-> q.catalogue[q.id]]

LEMMA InsertedIs ==
  ASSUME NEW w \in Seq(Entry), NEW q, q.catalogue \in Catalogues, q.id \in DOMAIN q.catalogue,
         q.slot \in 0 .. MaxFavorites - 1 \cup {None}
  PROVE  LET s  == Inserted(w, q)
             at == PlaceOf(q, Len(w))
         IN  /\ EntryOf(q) \in Entry /\ EntryOf(q).station # None
             /\ at \in 1 .. Len(w) + 1
             /\ s \in Seq(Entry) /\ Len(s) = Len(w) + 1
             /\ \A i \in 1 .. Len(w) + 1 :
                   s[i] = IF i < at THEN w[i] ELSE IF i = at THEN EntryOf(q) ELSE w[i - 1]
             /\ Distinct(w) /\ q.id \notin Ids(w) => Distinct(s)
<1> DEFINE s  == Inserted(w, q)
           at == PlaceOf(q, Len(w))
           n  == Len(w)
           e  == EntryOf(q)
<1>1. e \in Entry /\ e.station # None /\ e.id = q.id
  <2>1. q.catalogue[q.id] \in Range(q.catalogue)
    BY DEF Range
  <2>2. q.catalogue[q.id] \in Snapshots /\ q.catalogue[q.id] # None /\ q.id \in Stations
    BY <2>1, CataloguesAssumption DEF Snapshots
  <2> QED BY <2>2 DEF EntryOf, Entry
<1>2. n \in Nat /\ DOMAIN w = 1 .. n /\ (q.slot # None => q.slot \in 0 .. MaxFavorites - 1)
  BY EntriesAre
<1>3. at \in 1 .. n + 1
  BY <1>2, SizesAssumption DEF PlaceOf
<1>4. /\ s \in Seq(Entry) /\ Len(s) = n + 1
      /\ \A i \in 1 .. n + 1 : s[i] = IF i < at THEN w[i] ELSE IF i = at THEN e ELSE w[i - 1]
  <2>1. CASE q.slot # None /\ q.slot < n
    <3> DEFINE before == SubSeq(w, 1, at - 1)
               after  == SubSeq(w, at, n)
    <3>1. at = q.slot + 1 /\ at \in 1 .. n
      BY <1>2, <2>1, SizesAssumption DEF PlaceOf
    <3>2. s = (before \o <<e>>) \o after
      BY <2>1, <3>1 DEF Inserted, InsertAt, EntryOf
    <3>3. before \in Seq(Entry) /\ Len(before) = at - 1 /\ \A i \in 1 .. at - 1 : before[i] = w[i]
      <4>1. 1 \in Int /\ at - 1 \in Int /\ \A i \in 1 .. at - 1 : w[i] \in Entry
        BY <1>2, <3>1, EntriesAre
      <4> HIDE DEF at, Entry
      <4>2. /\ SubSeq(w, 1, at - 1) \in Seq(Entry)
            /\ Len(SubSeq(w, 1, at - 1)) = IF 1 <= at - 1 THEN at - 1 - 1 + 1 ELSE 0
            /\ \A i \in 1 .. at - 1 - 1 + 1 : SubSeq(w, 1, at - 1)[i] = w[1 + i - 1]
        BY <4>1, SubSeqProperties
      <4> QED BY <1>2, <3>1, <4>2
    <3>4. after \in Seq(Entry) /\ Len(after) = n - at + 1 /\ \A i \in 1 .. n - at + 1 : after[i] = w[at + i - 1]
      <4>1. at \in Int /\ n \in Int /\ \A i \in at .. n : w[i] \in Entry
        BY <1>2, <3>1, EntriesAre
      <4> HIDE DEF at, Entry, n
      <4>2. /\ SubSeq(w, at, n) \in Seq(Entry)
            /\ Len(SubSeq(w, at, n)) = IF at <= n THEN n - at + 1 ELSE 0
            /\ \A i \in 1 .. n - at + 1 : SubSeq(w, at, n)[i] = w[at + i - 1]
        BY <4>1, SubSeqProperties
      <4> QED BY <1>2, <3>1, <4>2
    <3> HIDE DEF before, after, e, at, s, n
    <3>5. <<e>> \in Seq(Entry) /\ Len(<<e>>) = 1 /\ <<e>>[1] = e
      BY <1>1
    <3>6. /\ before \o <<e>> \in Seq(Entry)
          /\ Len(before \o <<e>>) = at
          /\ \A i \in 1 .. at : (before \o <<e>>)[i] = IF i <= at - 1 THEN before[i] ELSE <<e>>[i - (at - 1)]
      <4> HIDE DEF Entry
      <4>1. /\ before \o <<e>> \in Seq(Entry)
            /\ Len(before \o <<e>>) = Len(before) + Len(<<e>>)
            /\ \A i \in 1 .. Len(before) + Len(<<e>>) :
                  (before \o <<e>>)[i] = IF i <= Len(before) THEN before[i] ELSE <<e>>[i - Len(before)]
        BY <3>3, <3>5, ConcatProperties
      <4>2. at - 1 + 1 = at
        BY <3>1, <1>2
      <4> QED BY <3>3, <3>5, <4>1, <4>2
    <3>7. \A i \in 1 .. at : (before \o <<e>>)[i] = IF i < at THEN w[i] ELSE e
      BY <1>2, <3>1, <3>3, <3>5, <3>6
    <3>8. /\ s \in Seq(Entry)
          /\ Len(s) = at + (n - at + 1)
          /\ \A i \in 1 .. at + (n - at + 1) : s[i] = IF i <= at THEN (before \o <<e>>)[i] ELSE after[i - at]
      <4> DEFINE left == before \o <<e>>
      <4>0. left \in Seq(Entry) /\ Len(left) = at /\ s = left \o after
        BY <3>2, <3>6
      <4> HIDE DEF Entry, left
      <4>1. /\ left \o after \in Seq(Entry)
            /\ Len(left \o after) = Len(left) + Len(after)
            /\ \A i \in 1 .. Len(left) + Len(after) :
                  (left \o after)[i] = IF i <= Len(left) THEN left[i] ELSE after[i - Len(left)]
        BY <3>4, <4>0, ConcatProperties
      <4> QED BY <3>4, <4>0, <4>1 DEF left
    <3>9. at + (n - at + 1) = n + 1
      BY <1>2, <3>1
    <3>10. ASSUME NEW i \in 1 .. n + 1
           PROVE  s[i] = IF i < at THEN w[i] ELSE IF i = at THEN e ELSE w[i - 1]
      <4>0. s[i] = IF i <= at THEN (before \o <<e>>)[i] ELSE after[i - at]
        <5>1. i \in 1 .. at + (n - at + 1)
          BY <3>9
        <5> QED BY <3>8, <5>1
      <4>1. CASE i <= at
        <5>1. i \in 1 .. at
          BY <1>2, <3>1, <4>1
        <5>2. s[i] = IF i < at THEN w[i] ELSE e
          BY <3>7, <4>0, <4>1, <5>1
        <5> QED BY <1>2, <3>1, <4>1, <5>2
      <4>2. CASE i > at
        <5>1. i - at \in 1 .. n - at + 1 /\ at + (i - at) - 1 = i - 1
          BY <1>2, <3>1, <4>2
        <5>2. s[i] = after[i - at]
          BY <1>2, <3>1, <4>0, <4>2
        <5>3. after[i - at] = w[i - 1]
          BY <3>4, <5>1
        <5> QED BY <1>2, <3>1, <4>2, <5>2, <5>3
      <4> QED BY <1>2, <3>1, <4>1, <4>2
    <3> QED BY <3>8, <3>9, <3>10
  <2>2. CASE ~(q.slot # None /\ q.slot < n)
    <3>1. at = n + 1 /\ s = Append(w, e)
      BY <2>2 DEF PlaceOf, Inserted, EntryOf
    <3> HIDE DEF at, s, e, Entry
    <3>2. Append(w, e) \in Seq(Entry) /\ Len(Append(w, e)) = n + 1
          /\ (\A i \in 1 .. n : Append(w, e)[i] = w[i]) /\ Append(w, e)[n + 1] = e
      BY <1>1, AppendProperties
    <3> QED BY <1>2, <3>1, <3>2
  <2> QED BY <2>1, <2>2
<1> HIDE DEF s, e, at
<1>5. ASSUME Distinct(w), q.id \notin Ids(w) PROVE Distinct(s)
  <2> DEFINE from(i) == IF i < at THEN i ELSE i - 1
  <2>1. DOMAIN s = 1 .. n + 1
    BY <1>4, EntriesAre
  <2>2. \A i \in 1 .. n + 1 : i # at => from(i) \in 1 .. n /\ s[i] = w[from(i)]
    BY <1>2, <1>3, <1>4
  <2>3. \A i, j \in 1 .. n + 1 : i # at /\ j # at /\ i # j => from(i) # from(j)
    BY <1>2, <1>3
  <2> HIDE DEF from
  <2>4. \A i \in 1 .. n + 1 : i # at => s[i].id # q.id
    BY <1>2, <1>5, <2>2 DEF Ids
  <2>5. s[at].id = q.id
    BY <1>1, <1>2, <1>3, <1>4
  <2> SUFFICES ASSUME NEW i \in 1 .. n + 1, NEW j \in 1 .. n + 1, i # j PROVE s[i].id # s[j].id
    BY <2>1 DEF Distinct
  <2>6. CASE i # at /\ j # at
    BY <1>2, <1>5, <2>2, <2>3, <2>6 DEF Distinct
  <2>7. CASE i = at \/ j = at
    BY <2>4, <2>5, <2>7
  <2> QED BY <2>6, <2>7
<1> QED BY <1>1, <1>3, <1>4, <1>5 DEF s, at, e

-----------------------------------------------------------------------------
(* Favourites: the invariant *)

Request == [pc : {"idle", "answered", "refused", "failed"} \cup Working,
            op : {"get", "put", "delete", None}, id : Stations \cup {None},
            slot : 0 .. MaxFavorites - 1 \cup {None}, catalogue : Catalogues \cup {<<>>},
            entries : Seq(Entry), seen : Nat, found : BOOLEAN]

\* A request at work has asked for something, and its catalogue was loaded.
Asks(q) ==
    /\ q.op \in {"get", "put", "delete"}
    /\ q.catalogue \in Catalogues
    /\ q.op = "get" <=> q.id = None
    /\ q.op = "put" => q.id \in DOMAIN q.catalogue

Typed ==
    /\ clock \in Nat
    /\ row \in [entries : Seq(Entry), expires : Nat]
    /\ req \in [Slots -> Request]
    /\ arrivals \in Nat
    /\ writes \in Nat
    /\ saved \subseteq Stations
    /\ solo \in BOOLEAN
    /\ \A r \in Slots : req[r].pc \in Working => Asks(req[r])

\* What a request is about to write: a list that can be shown, with what it
\* puts, and, if nobody wrote since it read, with all that it does not give up.
Ready(r) ==
    /\ Whole(req[r].entries)
    /\ req[r].op = "put" => req[r].id \in Ids(req[r].entries)
    /\ req[r].seen <= writes
    /\ req[r].seen = writes /\ req[r].found => saved \ GivenUp(r) \subseteq Ids(req[r].entries)

StoredInv ==
    /\ Typed
    /\ writes > 0 \/ solo => Whole(row.entries)
    /\ writes = 0 => saved = {}
    /\ SavedIsKept
    /\ \A r \in Slots : req[r].pc = "write" => Ready(r)

-----------------------------------------------------------------------------
(* Favourites: one request at a time *)

IdList(entries) == [i \in DOMAIN entries |-> entries[i].id]

\* The list a request has read, and what it makes of it.
OldList(q) == IF q.found THEN IdList(row.entries) ELSE <<>>

NewList(q, old) ==
    CASE q.op = "get"    -> old
      [] q.op = "delete" -> Promise!Others(old, q.id)
      [] q.op = "put"    -> Promise!Placed(old, q.id, q.slot)

\* A request at its second statement: it has read the list that is stored.
Second(q) ==
    /\ q.found \/ ~Live
    /\ q.pc = "write" =>
          /\ IdList(q.entries) = NewList(q, OldList(q))
          /\ q.op = "put" => ~Promise!NoPlace(OldList(q), q.id, q.slot)
    /\ q.pc = "touch" => q.op # "put" /\ NewList(q, OldList(q)) = OldList(q)

SoloInv ==
    solo => /\ \A r, s \in Slots : r = s \/ req[r] = Idle \/ req[s] = Idle
            /\ \A r \in Slots : req[r].pc \in {"write", "touch"} => Second(req[r])

\* Promise!Others, of the ids of a list.
LEMMA OthersAre ==
  ASSUME NEW e \in Seq(Entry), NEW id
  PROVE  Promise!Others(IdList(e), id) = IdList(Without(e, id))
<1> DEFINE P == {i \in DOMAIN e : e[i].id # id}
           n == Cardinality(P)
           f == InOrder(P)
<1>1. Promise!Others(IdList(e), id) = [k \in 1 .. n |-> IdList(e)[f[k]]]
  <2>1. {i \in DOMAIN IdList(e) : IdList(e)[i] # id} = P
    BY DEF IdList
  <2>2. Promise!Others(IdList(e), id) = Promise!Pick(IdList(e), P)
    BY <2>1 DEF Promise!Others
  <2> QED BY <2>2 DEF Promise!Pick, Promise!InOrder, InOrder, Promise!Cardinality, Cardinality
<1>2. Without(e, id) = [k \in 1 .. n |-> e[f[k]]]
  BY DEF Without, Pick
<1>3. \A k \in 1 .. n : f[k] \in DOMAIN e
  <2>1. P \subseteq DOMAIN e
    OBVIOUS
  <2>2. f \in [1 .. n -> P]
    <3> HIDE DEF P, Entry
    <3> QED BY <2>1, PickIs
  <2> QED BY <2>1, <2>2
<1> QED BY <1>1, <1>2, <1>3 DEF IdList

LEMMA IdListIs ==
  ASSUME NEW e \in Seq(Entry)
  PROVE  /\ DOMAIN IdList(e) = 1 .. Len(e)
         /\ IdList(e) \in Seq(Stations) /\ Len(IdList(e)) = Len(e)
<1>1. Len(e) \in Nat /\ IdList(e) \in [1 .. Len(e) -> Stations]
  BY EntriesAre DEF IdList
<1>2. IdList(e) \in Seq(Stations)
  BY <1>1, SeqDef
<1> QED BY <1>1, <1>2, LenProperties

\* upsert_favorite, of a list that has no station twice.
LEMMA PutIs ==
  ASSUME NEW d \in Seq(Entry), Distinct(d),
         NEW q, q.catalogue \in Catalogues, q.id \in DOMAIN q.catalogue,
         q.slot \in 0 .. MaxFavorites - 1 \cup {None},
         LET others == Without(d, q.id)
         IN  Len(others) < MaxFavorites \/ (q.slot # None /\ q.slot < Len(others))
  PROVE  LET others == Without(d, q.id)
             b      == Built(Deduped(Inserted(others, q)), q.catalogue)
             last   == IF Len(others) >= MaxFavorites THEN {Last(others).id} ELSE {}
         IN  /\ b \in Seq(Entry) /\ Whole(b) /\ q.id \in Ids(b)
             /\ Whole(d) => Ids(d) \ last \subseteq Ids(b)
             /\ Whole(d) => /\ IdList(b) = Promise!Placed(IdList(d), q.id, q.slot)
                            /\ ~Promise!NoPlace(IdList(d), q.id, q.slot)
<1> DEFINE w == Without(d, q.id)
           s == Inserted(w, q)
           t == Taken(s)
           at == PlaceOf(q, Len(w))
           b == Built(Deduped(s), q.catalogue)
           last == IF Len(w) >= MaxFavorites THEN {Last(w).id} ELSE {}
<1>1. w \in Seq(Entry) /\ Len(w) <= Len(d) /\ Ids(w) = Ids(d) \ {q.id} /\ Distinct(w)
      /\ (Complete(d) => Complete(w))
  BY WithoutIs
<1>2. Len(w) < MaxFavorites \/ (q.slot # None /\ q.slot < Len(w))
  OBVIOUS
<1> HIDE DEF w
<1>3. /\ EntryOf(q) \in Entry /\ EntryOf(q).station # None
      /\ at \in 1 .. Len(w) + 1
      /\ s \in Seq(Entry) /\ Len(s) = Len(w) + 1
      /\ \A i \in 1 .. Len(w) + 1 :
            s[i] = IF i < at THEN w[i] ELSE IF i = at THEN EntryOf(q) ELSE w[i - 1]
      /\ Distinct(s)
  <2>1. q.id \notin Ids(w)
    BY <1>1
  <2> HIDE DEF s, at
  <2>2. LET s1 == Inserted(w, q)
            at1 == PlaceOf(q, Len(w))
        IN  /\ EntryOf(q) \in Entry /\ EntryOf(q).station # None
            /\ at1 \in 1 .. Len(w) + 1
            /\ s1 \in Seq(Entry) /\ Len(s1) = Len(w) + 1
            /\ \A i \in 1 .. Len(w) + 1 :
                  s1[i] = IF i < at1 THEN w[i] ELSE IF i = at1 THEN EntryOf(q) ELSE w[i - 1]
            /\ Distinct(w) /\ q.id \notin Ids(w) => Distinct(s1)
    BY <1>1, InsertedIs
  <2> QED BY <1>1, <2>1, <2>2 DEF s, at
<1>4. EntryOf(q).id = q.id
  BY DEF EntryOf
<1>5. MaxFavorites \in Nat \ {0} /\ Len(w) \in Nat /\ DOMAIN w = 1 .. Len(w) /\ Len(d) \in Nat
      /\ DOMAIN s = 1 .. Len(s)
  BY <1>1, <1>3, EntriesAre, SizesAssumption
<1>6. at <= MaxFavorites
  BY <1>2, <1>5, NoneAssumption DEF PlaceOf
<1> HIDE DEF at, s
<1>7. /\ t \in Seq(Entry)
      /\ Len(t) = IF Len(s) < MaxFavorites THEN Len(s) ELSE MaxFavorites
      /\ \A i \in DOMAIN t : i \in DOMAIN s /\ t[i] = s[i]
      /\ Distinct(t)
      /\ b = Built(t, q.catalogue)
  <2>1. Deduped(s) = t
    BY <1>3, DedupedIs
  <2> QED BY <1>3, <2>1, TakenIs
<1> HIDE DEF b, t
<1>8. /\ b \in Seq(Entry) /\ Len(b) <= MaxFavorites
      /\ Complete(b) /\ Distinct(b)
      /\ \A i \in DOMAIN t :
            i <= MaxFavorites /\ (t[i].id \in DOMAIN q.catalogue \/ t[i].station # None)
                => t[i].id \in Ids(b)
      /\ Len(t) <= MaxFavorites /\ Complete(t) =>
             Len(b) = Len(t) /\ \A i \in DOMAIN t : b[i].id = t[i].id
  BY <1>7, BuiltIs
<1>9. DOMAIN t = 1 .. Len(t) /\ Len(t) \in Nat
  BY <1>7, EntriesAre
<1>10. q.id \in Ids(b)
  <2>1. at \in DOMAIN t /\ t[at].id = q.id
    BY <1>3, <1>4, <1>5, <1>6, <1>7, <1>9
  <2> QED BY <1>6, <1>8, <2>1
<1>11. ASSUME Whole(d)
       PROVE  Len(b) = Len(t) /\ \A i \in 1 .. Len(t) : b[i].id = s[i].id
  <2>1. Complete(s)
    <3>1. Complete(w)
      BY <1>1, <1>11 DEF Whole
    <3> SUFFICES ASSUME NEW i \in 1 .. Len(w) + 1 PROVE s[i].station # None
      BY <1>3, <1>5 DEF Complete
    <3>2. i < at => i \in 1 .. Len(w)
      BY <1>3, <1>5
    <3>3. i > at => i - 1 \in 1 .. Len(w)
      BY <1>3, <1>5
    <3>4. CASE i < at
      BY <1>3, <1>5, <3>1, <3>2, <3>4 DEF Complete
    <3>5. CASE i = at
      BY <1>3, <1>5, <3>5
    <3>6. CASE i > at
      <4>1. s[i] = w[i - 1]
        BY <1>3, <1>5, <3>6
      <4> QED BY <1>5, <3>1, <3>3, <3>6, <4>1 DEF Complete
    <3> QED BY <1>3, <1>5, <3>4, <3>5, <3>6
  <2>2. Complete(t) /\ Len(t) <= MaxFavorites
    BY <1>3, <1>5, <1>7, <2>1 DEF Complete
  <2> QED BY <1>7, <1>8, <1>9, <2>2
<1>12. ASSUME Whole(d), NEW x \in Ids(d), x \notin last PROVE x \in Ids(b)
  <2>1. CASE x = q.id
    BY <1>10, <2>1
  <2>2. CASE x # q.id
    <3>1. PICK j \in 1 .. Len(w) : w[j].id = x
      BY <1>1, <1>5, <1>12, <2>2 DEF Ids
    <3> DEFINE p == IF j < at THEN j ELSE j + 1
    <3>2. p \in 1 .. Len(w) + 1 /\ s[p] = w[j]
      BY <1>3, <1>5
    <3>3. p <= Len(t)
      <4> SUFFICES ASSUME p > Len(t) PROVE FALSE
        BY <1>5, <1>9, <3>2
      <4>1. Len(t) = MaxFavorites /\ Len(w) <= MaxFavorites
        BY <1>1, <1>3, <1>5, <1>7, <1>12, <3>2 DEF Whole
      <4>2. Len(w) = MaxFavorites /\ j = Len(w)
        <5>1. j \in Nat /\ j <= Len(w) /\ at \in Nat /\ p > MaxFavorites /\ p \in Nat
          BY <1>3, <1>5, <3>2, <4>1
        <5>2. ~(j < at)
          BY <1>5, <1>6, <5>1
        <5>3. p = j + 1
          BY <5>2
        <5>4. Len(w) <= MaxFavorites /\ MaxFavorites \in Nat /\ Len(w) \in Nat
          BY <1>5, <4>1
        <5> HIDE DEF p
        <5>5. j >= MaxFavorites
          BY <5>1, <5>3, <5>4
        <5> QED BY <5>1, <5>4, <5>5
      <4>3. Last(w).id = x
        BY <3>1, <4>2 DEF Last
      <4> QED BY <1>5, <1>12, <4>2, <4>3
    <3> HIDE DEF p
    <3>4. p \in 1 .. Len(t) /\ b[p].id = x /\ p \in 1 .. Len(b)
      BY <1>5, <1>9, <1>11, <1>12, <3>1, <3>2, <3>3
    <3>5. DOMAIN b = 1 .. Len(b)
      BY <1>8, EntriesAre
    <3> QED BY <3>4, <3>5 DEF Ids
  <2> QED BY <2>1, <2>2
<1>13. ASSUME Whole(d)
       PROVE  /\ IdList(b) = Promise!Placed(IdList(d), q.id, q.slot)
              /\ ~Promise!NoPlace(IdList(d), q.id, q.slot)
  <2> DEFINE others == Promise!Others(IdList(d), q.id)
             size   == IF Len(others) < MaxFavorites THEN Len(others) + 1 ELSE MaxFavorites
             place  == IF q.slot = None \/ q.slot > Len(others) THEN Len(others) + 1 ELSE q.slot + 1
  <2>1. others = IdList(w)
    BY OthersAre DEF w
  <2>2. Len(others) = Len(w) /\ DOMAIN others = 1 .. Len(w)
    BY <1>1, <2>1, IdListIs
  <2>3. \A i \in 1 .. Len(w) : others[i] = w[i].id
    BY <1>5, <2>1 DEF IdList
  <2>4. size = Len(t)
    BY <1>3, <1>5, <1>7, <2>2
  <2>5. place = at
    BY <1>5, <2>2, NoneAssumption DEF at, PlaceOf
  <2>6. Promise!Placed(IdList(d), q.id, q.slot)
          = [i \in 1 .. size |-> IF i < place THEN others[i]
                                 ELSE IF i = place THEN q.id ELSE others[i - 1]]
    BY DEF Promise!Placed
  <2>7. ~Promise!NoPlace(IdList(d), q.id, q.slot)
    <3>1. ~(Len(others) >= MaxFavorites /\ (q.slot # None => q.slot >= Len(others)))
      <4> HIDE DEF others
      <4> QED BY <1>2, <1>5, <2>2, NoneAssumption
    <3> QED BY <3>1 DEF Promise!NoPlace
  <2> HIDE DEF others, size, place
  <2>8. ASSUME NEW i \in 1 .. Len(t)
        PROVE  b[i].id = IF i < at THEN others[i] ELSE IF i = at THEN q.id ELSE others[i - 1]
    <3>1. i \in 1 .. Len(w) + 1 /\ b[i].id = s[i].id
      BY <1>3, <1>5, <1>7, <1>9, <1>11, <1>13
    <3>2. i < at => i \in 1 .. Len(w)
      BY <1>3, <1>5
    <3>3. i > at => i - 1 \in 1 .. Len(w)
      BY <1>3, <1>5, <3>1
    <3>4. CASE i < at
      BY <1>3, <2>3, <3>1, <3>2, <3>4
    <3>5. CASE i = at
      BY <1>3, <1>4, <1>5, <3>1, <3>5
    <3>6. CASE i > at
      <4>1. s[i] = w[i - 1] /\ ~(i < at) /\ i # at
        BY <1>3, <1>5, <3>1, <3>6
      <4> QED BY <2>3, <3>1, <3>3, <3>6, <4>1
    <3> QED BY <1>3, <1>5, <3>4, <3>5, <3>6
  <2>9. DOMAIN b = 1 .. Len(t)
    BY <1>8, <1>11, <1>13, EntriesAre
  <2>10. IdList(b) = [i \in 1 .. Len(t) |-> b[i].id]
    BY <2>9 DEF IdList
  <2>11. Promise!Placed(IdList(d), q.id, q.slot)
          = [i \in 1 .. Len(t) |-> IF i < at THEN others[i]
                                   ELSE IF i = at THEN q.id ELSE others[i - 1]]
    BY <2>4, <2>5, <2>6
  <2> QED BY <2>7, <2>8, <2>10, <2>11
<1>14. Whole(b)
  BY <1>8 DEF Whole
<1>15. Whole(d) => Ids(d) \ last \subseteq Ids(b)
  BY <1>12
<1> QED BY <1>8, <1>10, <1>13, <1>14, <1>15 DEF b, s, w

-----------------------------------------------------------------------------
(* Favourites: what is stored *)

LEMMA EmptyList == <<>> \in Seq(Entry) /\ Whole(<<>>) /\ Ids(<<>>) = {}
<1>1. <<>> \in Seq(Entry) /\ Len(<<>>) = 0 /\ DOMAIN <<>> = {}
  OBVIOUS
<1> QED BY <1>1, SizesAssumption DEF Whole, Distinct, Complete, Ids

LEMMA IdleIs ==
  /\ Idle \in Request
  /\ Idle.pc = "idle" /\ Idle.op = None /\ Idle.id = None /\ Idle.slot = None
BY EmptyList DEF Idle, Request

\* What a request has read.
LEMMA FoundIs ==
  ASSUME row \in [entries : Seq(Entry), expires : Nat]
  PROVE  /\ Found \in Seq(Entry) /\ Distinct(Found) /\ Len(Found) <= MaxFavorites
         /\ Whole(row.entries) /\ Live => Found = row.entries
         /\ ~Live => Found = <<>>
<1>1. row.entries \in Seq(Entry)
  OBVIOUS
<1>2. CASE ~Live
  BY <1>2, EmptyList, SizesAssumption DEF Found, Whole
<1>3. CASE Live
  <2>1. Found = Deduped(row.entries)
    BY <1>3 DEF Found
  <2>2. /\ Deduped(row.entries) \in Seq(Entry) /\ Len(Deduped(row.entries)) <= MaxFavorites
        /\ Distinct(Deduped(row.entries))
        /\ Distinct(row.entries) => Deduped(row.entries) = Taken(row.entries)
    BY <1>1, DedupedIs
  <2>3. Whole(row.entries) => Deduped(row.entries) = row.entries
    BY <1>1, <2>2, TakenIs DEF Whole
  <2> QED BY <1>3, <2>1, <2>2, <2>3
<1> QED BY <1>2, <1>3

LEMMA InitStored == Init => StoredInv
<1> SUFFICES ASSUME Init PROVE StoredInv
  OBVIOUS
<1>1. row \in [entries : Seq(Entry), expires : Nat]
  <2>1. CASE row = [entries |-> <<>>, expires |-> 0]
    BY <2>1, EmptyList
  <2>2. CASE row \in [entries : Stored, expires : {Lifetime}]
    <3> HIDE DEF Entry
    <3> QED BY <2>2, StoredAssumption, SizesAssumption
  <2> QED BY <2>1, <2>2 DEF Init
<1>2. solo => row.entries = <<>>
  BY DEF Init
<1>3. \A r \in Slots : req[r] = Idle
  BY DEF Init
<1>4. req \in [Slots -> Request] /\ \A r \in Slots : req[r].pc = "idle"
  BY <1>3, IdleIs DEF Init
<1>5. Typed
  BY <1>1, <1>4 DEF Init, Typed, Working
<1>6. SavedIsKept
  BY DEF Init, SavedIsKept
<1> QED BY <1>2, <1>4, <1>5, <1>6, EmptyList DEF StoredInv, Init

LEMMA EndIs ==
  ASSUME Typed, NEW r \in Slots, NEW pc \in {"answered", "refused", "failed"}, End(r, pc)
  PROVE  /\ req' \in [Slots -> Request]
         /\ req'[r].pc = pc
         /\ req'[r].op = req[r].op /\ req'[r].id = req[r].id /\ req'[r].slot = req[r].slot
         /\ \A s \in Slots \ {r} : req'[s] = req[s]
<1> DEFINE q == [Idle EXCEPT !.pc = pc, !.op = req[r].op, !.id = req[r].id, !.slot = req[r].slot]
<1>1. req \in [Slots -> Request] /\ req' = [req EXCEPT ![r] = q]
  BY DEF Typed, End
<1>2. req[r] \in Request
  BY <1>1
<1>3. q \in Request /\ q.pc = pc /\ q.op = req[r].op /\ q.id = req[r].id /\ q.slot = req[r].slot
  BY <1>2, IdleIs DEF Idle, Request
<1> HIDE DEF q
<1> QED BY <1>1, <1>3

LEMMA ContinueIs ==
  ASSUME Typed, NEW r \in Slots, NEW pc \in {"write", "touch"}, NEW entries \in Seq(Entry),
         Continue(r, pc, entries)
  PROVE  /\ req' \in [Slots -> Request]
         /\ req'[r].pc = pc /\ req'[r].entries = entries
         /\ req'[r].seen = writes /\ req'[r].found = Live
         /\ req'[r].op = req[r].op /\ req'[r].id = req[r].id /\ req'[r].slot = req[r].slot
         /\ req'[r].catalogue = req[r].catalogue
         /\ \A s \in Slots \ {r} : req'[s] = req[s]
<1> DEFINE q == [req[r] EXCEPT !.pc = pc, !.entries = entries, !.seen = writes, !.found = Live]
<1>1. req \in [Slots -> Request] /\ writes \in Nat /\ Live \in BOOLEAN
  BY DEF Typed, Live
<1>2. req' = [req EXCEPT ![r] = q]
  BY <1>1 DEF Continue
<1>3. req[r] \in Request
  BY <1>1
<1>4. /\ q \in Request /\ q.pc = pc /\ q.entries = entries /\ q.seen = writes /\ q.found = Live
      /\ q.op = req[r].op /\ q.id = req[r].id /\ q.slot = req[r].slot
      /\ q.catalogue = req[r].catalogue
  <2>1. pc \in {"idle", "answered", "refused", "failed"} \cup Working
    BY DEF Working
  <2> HIDE DEF Live, Working, Entry
  <2> QED BY <1>1, <1>3, <2>1 DEF Request
<1> HIDE DEF q
<1> QED BY <1>1, <1>2, <1>4

\* A list that another request will write.
LEMMA ReadyStays ==
  ASSUME NEW r \in Slots, Ready(r), req'[r] = req[r], writes' = writes, saved' = saved,
         row'.entries = row.entries
  PROVE  Ready(r)'
BY DEF Ready, GivenUp

\* It is no more the list that is stored.
LEMMA ReadyIsOutdated ==
  ASSUME NEW r \in Slots, Ready(r), req'[r] = req[r], writes \in Nat, writes' = writes + 1,
         req[r].seen \in Nat
  PROVE  Ready(r)'
BY DEF Ready

\* The read of a request.
LEMMA ContinueKeeps ==
  ASSUME StoredInv, NEW r \in Slots, NEW pc \in {"write", "touch"}, NEW entries \in Seq(Entry),
         Continue(r, pc, entries), req[r].pc = "read",
         pc = "write" =>
            /\ Whole(entries)
            /\ req[r].op = "put" => req[r].id \in Ids(entries)
            /\ Live => saved \ (GivenUp(r)') \subseteq Ids(entries)
  PROVE  StoredInv'
<1>1. /\ req' \in [Slots -> Request]
      /\ req'[r].pc = pc /\ req'[r].entries = entries
      /\ req'[r].seen = writes /\ req'[r].found = Live
      /\ req'[r].op = req[r].op /\ req'[r].id = req[r].id /\ req'[r].slot = req[r].slot
      /\ req'[r].catalogue = req[r].catalogue
      /\ \A s \in Slots \ {r} : req'[s] = req[s]
  BY ContinueIs DEF StoredInv
<1>2. UNCHANGED <<clock, row, arrivals, writes, saved, solo>>
  BY DEF Continue
<1>3. Asks(req[r]) /\ writes \in Nat
  BY DEF StoredInv, Typed, Working
<1>4. Typed'
  <2>1. Asks(req'[r])
    BY <1>1, <1>3 DEF Asks
  <2> HIDE DEF Asks
  <2> QED BY <1>1, <1>2, <2>1 DEF StoredInv, Typed
<1>5. ASSUME NEW s \in Slots, req'[s].pc = "write" PROVE Ready(s)'
  <2>1. CASE s = r
    <3>1. pc = "write" /\ writes' = writes /\ saved' = saved
      BY <1>1, <1>2, <1>5, <2>1
    <3>2. saved' \ GivenUp(s)' = saved \ (GivenUp(r)')
      BY <2>1, <3>1
    <3> HIDE DEF GivenUp, Live, Whole, Ids
    <3> QED BY <1>1, <1>3, <2>1, <3>1, <3>2 DEF Ready
  <2>2. CASE s # r
    <3>1. req'[s] = req[s] /\ Ready(s)
      BY <1>1, <1>5, <2>2 DEF StoredInv
    <3> QED BY <1>2, <3>1, ReadyStays
  <2> QED BY <2>1, <2>2
<1>6. SavedIsKept'
  BY <1>2 DEF StoredInv, SavedIsKept, Live
<1> QED BY <1>2, <1>4, <1>5, <1>6 DEF StoredInv

\* A request that writes nothing.
LEMMA EndKeeps ==
  ASSUME StoredInv, NEW r \in Slots, NEW pc \in {"answered", "refused", "failed"}, End(r, pc),
         UNCHANGED <<clock, arrivals, writes, saved, solo>>,
         row' = row \/ (Live /\ row' = [row EXCEPT !.expires = clock + Lifetime])
  PROVE  StoredInv'
<1>1. /\ req' \in [Slots -> Request] /\ req'[r].pc = pc
      /\ \A s \in Slots \ {r} : req'[s] = req[s]
  BY EndIs DEF StoredInv
<1>2. row' \in [entries : Seq(Entry), expires : Nat] /\ row'.entries = row.entries /\ (Live' => Live)
  <2>1. clock \in Nat /\ row \in [entries : Seq(Entry), expires : Nat] /\ clock' = clock
        /\ clock + Lifetime \in Nat
    BY SizesAssumption DEF StoredInv, Typed
  <2> HIDE DEF Entry
  <2> QED BY <2>1 DEF Live
<1>3. Typed'
  BY <1>1, <1>2 DEF StoredInv, Typed, Working
<1>4. ASSUME NEW s \in Slots, req'[s].pc = "write" PROVE Ready(s)'
  <2>1. req'[s] = req[s] /\ Ready(s)
    BY <1>1, <1>4 DEF StoredInv
  <2> QED BY <1>2, <2>1, ReadyStays
<1>5. SavedIsKept'
  BY <1>2 DEF StoredInv, SavedIsKept
<1> QED BY <1>2, <1>3, <1>4, <1>5 DEF StoredInv

\* A request that writes.
LEMMA StoresKeeps ==
  ASSUME StoredInv, NEW r \in Slots, NEW pc \in {"answered", "failed"}, End(r, pc),
         req[r].pc = "write", Stores(r), UNCHANGED <<clock, arrivals, solo>>
  PROVE  StoredInv'
<1>1. /\ req' \in [Slots -> Request] /\ req'[r].pc = pc
      /\ \A s \in Slots \ {r} : req'[s] = req[s]
  BY EndIs DEF StoredInv
<1>2. /\ req[r] \in Request /\ Ready(r) /\ writes \in Nat /\ clock \in Nat /\ Asks(req[r])
      /\ saved \subseteq Stations
  BY DEF StoredInv, Typed, Working
<1>3. row'.entries = req[r].entries /\ row' \in [entries : Seq(Entry), expires : Nat]
      /\ writes' = writes + 1
  BY <1>2, SizesAssumption DEF Stores, Request
<1>4. saved' \subseteq Ids(row'.entries)
  <2>1. saved \ GivenUp(r) \subseteq Ids(req[r].entries)
    BY <1>2 DEF Ready, GivenUp
  <2> HIDE DEF GivenUp, Ids
  <2> QED BY <1>2, <1>3, <2>1 DEF Stores, Ready
<1>5. Ids(row'.entries) \subseteq Stations
  BY <1>3, EntriesAre DEF Ids
<1>6. Typed'
  <2>1. ASSUME NEW s \in Slots, req'[s].pc \in Working PROVE Asks(req'[s])
    <3>1. req'[s] = req[s]
      BY <1>1, <2>1 DEF Working
    <3> QED BY <2>1, <3>1 DEF StoredInv, Typed
  <2>2. saved' \subseteq Stations /\ writes' \in Nat
    BY <1>2, <1>3, <1>4, <1>5
  <2>3. arrivals' \in Nat /\ solo' \in BOOLEAN /\ clock' \in Nat
    BY DEF StoredInv, Typed
  <2> QED BY <1>1, <1>3, <2>1, <2>2, <2>3 DEF Typed
<1>7. ASSUME NEW s \in Slots, req'[s].pc = "write" PROVE Ready(s)'
  <2>1. req'[s] = req[s] /\ Ready(s) /\ req[s].seen \in Nat
    BY <1>1, <1>7 DEF StoredInv, Typed, Request
  <2> QED BY <1>2, <1>3, <2>1, ReadyIsOutdated
<1>8. SavedIsKept' /\ writes' # 0 /\ Whole(row.entries)'
  BY <1>2, <1>3, <1>4 DEF SavedIsKept, Ready
<1> QED BY <1>6, <1>7, <1>8 DEF StoredInv

LEMMA NextStored == StoredInv /\ [Next]_vars => StoredInv'
<1> SUFFICES ASSUME StoredInv, [Next]_vars PROVE StoredInv'
  OBVIOUS
<1>1. row \in [entries : Seq(Entry), expires : Nat] /\ req \in [Slots -> Request]
      /\ writes \in Nat /\ saved \subseteq Stations /\ clock \in Nat
  BY DEF StoredInv, Typed
<1>2. /\ Found \in Seq(Entry) /\ Distinct(Found) /\ Len(Found) <= MaxFavorites
      /\ Whole(row.entries) /\ Live => Found = row.entries
      /\ ~Live => Found = <<>>
  BY <1>1, FoundIs
\* The list that is read is the one that is stored, if something is saved.
<1>3. ASSUME Live, saved # {}
      PROVE  Whole(row.entries) /\ Found = row.entries /\ saved \subseteq Ids(row.entries)
             /\ Deduped(row.entries) = row.entries
  <2>1. writes > 0
    BY <1>1, <1>3 DEF StoredInv
  <2> QED BY <1>2, <1>3, <2>1 DEF StoredInv, SavedIsKept, Found
<1>4. ASSUME NEW r \in Slots, req[r].pc = "read"
      PROVE  Asks(req[r]) /\ req[r] \in Request
  BY <1>1, <1>4 DEF StoredInv, Typed, Working
<1>5. CASE UNCHANGED vars
  BY <1>5 DEF vars, StoredInv, Typed, SavedIsKept, Ready, GivenUp, Live
<1>6. CASE Tick
  <2>1. clock' \in Nat /\ (Live' => Live)
    BY <1>1, <1>6 DEF Tick, Live
  <2>2. \A s \in Slots : Ready(s) => Ready(s)'
    BY <1>6, ReadyStays DEF Tick
  <2>3. SavedIsKept'
    BY <1>6, <2>1 DEF Tick, StoredInv, SavedIsKept
  <2> HIDE DEF Live
  <2> QED BY <1>6, <2>1, <2>2, <2>3 DEF Tick, StoredInv, Typed
<1>7. ASSUME NEW r \in Slots, NEW op \in {"get", "put", "delete"}, NEW id \in Stations \cup {None},
             NEW slot \in 0 .. MaxFavorites - 1 \cup {None}, NEW catalogue \in Catalogues,
             Arrive(r, op, id, slot, catalogue)
      PROVE  StoredInv'
  <2> DEFINE q == [Idle EXCEPT !.pc = "read", !.op = op, !.id = id, !.slot = slot,
                               !.catalogue = catalogue]
  <2>1. q \in Request /\ q.pc = "read" /\ Asks(q)
    BY <1>7, IdleIs DEF Arrive, Idle, Request, Working, Asks
  <2> HIDE DEF q
  <2>2. req' = [req EXCEPT ![r] = q]
    BY <1>7 DEF Arrive, q
  <2>3. req' \in [Slots -> Request] /\ req'[r] = q /\ \A s \in Slots \ {r} : req'[s] = req[s]
    BY <1>1, <2>1, <2>2
  <2>4. UNCHANGED <<clock, row, writes, saved, solo>> /\ arrivals' \in Nat
    BY <1>7 DEF Arrive, StoredInv, Typed
  <2>5. Typed'
    BY <2>1, <2>3, <2>4 DEF StoredInv, Typed
  <2>6. ASSUME NEW s \in Slots, req'[s].pc = "write" PROVE Ready(s)'
    <3>1. req'[s] = req[s] /\ Ready(s)
      BY <2>1, <2>3, <2>6 DEF StoredInv
    <3> QED BY <2>4, <3>1, ReadyStays
  <2>7. SavedIsKept'
    BY <2>4 DEF StoredInv, SavedIsKept, Live
  <2> QED BY <2>4, <2>5, <2>6, <2>7 DEF StoredInv
<1>8. ASSUME NEW r \in Slots, ReadToShow(r) PROVE StoredInv'
  <2> DEFINE b == Built(Found, req[r].catalogue)
  <2>1. req[r].pc = "read" /\ req[r].op = "get" /\ Asks(req[r])
    BY <1>4, <1>8 DEF ReadToShow
  <2>2. CASE Continue(r, "touch", <<>>)
    BY <2>1, <2>2, EmptyList, ContinueKeeps
  <2>3. CASE Continue(r, "write", b)
    <3>1. /\ b \in Seq(Entry) /\ Whole(b)
          /\ Complete(Found) =>
                Len(b) = Len(Found) /\ \A i \in DOMAIN Found : b[i].id = Found[i].id
      BY <1>2, <2>1, BuiltIs DEF Whole, Asks
    <3> HIDE DEF b
    <3>2. Live => saved \ (GivenUp(r)') \subseteq Ids(b)
      <4> SUFFICES ASSUME Live, saved # {} PROVE saved \subseteq Ids(b)
        OBVIOUS
      <4>1. Len(b) = Len(Found) /\ \A i \in DOMAIN Found : b[i].id = Found[i].id
        BY <1>3, <3>1 DEF Whole
      <4>2. DOMAIN b = DOMAIN Found
        BY <1>2, <3>1, <4>1, EntriesAre
      <4>3. saved \subseteq Ids(Found)
        BY <1>3
      <4> QED BY <4>1, <4>2, <4>3 DEF Ids
    <3> QED BY <2>1, <2>3, <3>1, <3>2, ContinueKeeps
  <2> QED BY <1>8, <2>2, <2>3 DEF ReadToShow
<1>9. ASSUME NEW r \in Slots, ReadToPut(r) PROVE StoredInv'
  <2> DEFINE q      == req[r]
             others == Without(Found, q.id)
             b      == Built(Deduped(Inserted(others, q)), q.catalogue)
             last   == IF Len(others) >= MaxFavorites THEN {Last(others).id} ELSE {}
  <2>1. /\ q.pc = "read" /\ q.op = "put" /\ Continue(r, "write", b)
        /\ Len(others) < MaxFavorites \/ (q.slot # None /\ q.slot < Len(others))
    BY <1>9 DEF ReadToPut
  <2>2. /\ q.catalogue \in Catalogues /\ q.id \in DOMAIN q.catalogue
        /\ q.slot \in 0 .. MaxFavorites - 1 \cup {None}
    BY <1>4, <2>1 DEF Asks, Request
  <2>3. /\ b \in Seq(Entry) /\ Whole(b) /\ q.id \in Ids(b)
        /\ Whole(Found) => Ids(Found) \ last \subseteq Ids(b)
    <3> HIDE DEF q
    <3> QED BY <1>2, <2>1, <2>2, PutIs
  <2> HIDE DEF b
  <2>4. Live => saved \ (GivenUp(r)') \subseteq Ids(b)
    <3> SUFFICES ASSUME Live, saved # {} PROVE saved \ (GivenUp(r)') \subseteq Ids(b)
      OBVIOUS
    <3>1. /\ req'[r].seen = writes /\ req'[r].found = Live /\ req'[r].op = "put"
          /\ req'[r].id = q.id /\ row' = row /\ writes' = writes
      BY <2>1, <2>3, ContinueIs DEF StoredInv, Continue
    <3>2. Without(Deduped(row.entries), q.id) = others
      BY <1>3
    <3> HIDE DEF others
    <3>3. GivenUp(r)' = last
      <4> HIDE DEF Live
      <4> QED BY <3>1, <3>2 DEF GivenUp
    <3> HIDE DEF last
    <3> QED BY <1>3, <2>3, <3>3
  <2> QED BY <2>1, <2>3, <2>4, ContinueKeeps
<1>10. ASSUME NEW r \in Slots, RefuseToPut(r) PROVE StoredInv'
  BY <1>10, EndKeeps DEF RefuseToPut
<1>11. ASSUME NEW r \in Slots, ReadToDelete(r) PROVE StoredInv'
  <2> DEFINE w == Without(Found, req[r].id)
             b == Built(w, req[r].catalogue)
  <2>1. req[r].pc = "read" /\ req[r].op = "delete" /\ Asks(req[r])
    BY <1>4, <1>11 DEF ReadToDelete
  <2>2. CASE Continue(r, "touch", <<>>)
    BY <2>1, <2>2, EmptyList, ContinueKeeps
  <2>3. CASE Continue(r, "write", b)
    <3>1. w \in Seq(Entry) /\ Len(w) <= Len(Found) /\ Ids(w) = Ids(Found) \ {req[r].id} /\ Distinct(w)
          /\ (Complete(Found) => Complete(w))
      BY <1>2, WithoutIs
    <3> HIDE DEF w
    <3>2. /\ b \in Seq(Entry) /\ Whole(b)
          /\ Len(w) <= MaxFavorites /\ Complete(w) =>
                Len(b) = Len(w) /\ \A i \in DOMAIN w : b[i].id = w[i].id
      BY <2>1, <3>1, BuiltIs DEF Whole, Asks
    <3> HIDE DEF b
    <3>3. Live => saved \ (GivenUp(r)') \subseteq Ids(b)
      <4> SUFFICES ASSUME Live, saved # {} PROVE saved \ (GivenUp(r)') \subseteq Ids(b)
        OBVIOUS
      <4>1. Len(w) <= MaxFavorites /\ Complete(w)
        BY <1>2, <1>3, <3>1, EntriesAre, SizesAssumption DEF Whole
      <4>2. DOMAIN b = DOMAIN w /\ \A i \in DOMAIN w : b[i].id = w[i].id
        BY <3>1, <3>2, <4>1, EntriesAre
      <4>3. Ids(w) \subseteq Ids(b)
        BY <4>2 DEF Ids
      <4>4. /\ req'[r].seen = writes /\ req'[r].found = Live /\ req'[r].op = "delete"
            /\ req'[r].id = req[r].id /\ row' = row /\ writes' = writes
        BY <2>1, <2>3, <3>2, ContinueIs DEF StoredInv, Continue
      <4>5. GivenUp(r)' = {req[r].id}
        <5> HIDE DEF Live
        <5> QED BY <4>4 DEF GivenUp
      <4> QED BY <1>3, <3>1, <4>3, <4>5
    <3> QED BY <2>1, <2>3, <3>2, <3>3, ContinueKeeps
  <2> QED BY <1>11, <2>2, <2>3 DEF ReadToDelete
<1>12. ASSUME NEW r \in Slots, Write(r) PROVE StoredInv'
  BY <1>12, StoresKeeps DEF Write
<1>13. ASSUME NEW r \in Slots, Touch(r) PROVE StoredInv'
  BY <1>13, EndKeeps DEF Touch
<1>14. ASSUME NEW r \in Slots, Fail(r) PROVE StoredInv'
  BY <1>14, EndKeeps, StoresKeeps DEF Fail
<1> QED BY <1>5, <1>6, <1>7, <1>8, <1>9, <1>10, <1>11, <1>12, <1>13, <1>14 DEF Next, Step

LEMMA StoredInvariant == Spec => []StoredInv
BY InitStored, NextStored, PTL DEF Spec

\* The model's state, in its types.
THEOREM FavoritesTypes == Spec => []TypeOK
<1>1. StoredInv => TypeOK
  BY DEF StoredInv, Typed, TypeOK, Request, Ready, Whole
<1> QED BY <1>1, StoredInvariant, PTL

\* What a request has stored can be shown: as many stations as there are slots
\* for, none twice and none without its data, whatever an earlier version stored
\* and however many requests overlap.
THEOREM StoredIsWhole == Spec => []ListIsWhole
<1>1. StoredInv => ListIsWhole
  BY DEF StoredInv, ListIsWhole, Whole, Distinct, Complete, IsInjective
<1> QED BY <1>1, StoredInvariant, PTL

\* While the list lives, it has all that was put and was not given up.
THEOREM SavedStaysStored == Spec => []SavedIsKept
<1>1. StoredInv => SavedIsKept
  BY DEF StoredInv
<1> QED BY <1>1, StoredInvariant, PTL

-----------------------------------------------------------------------------
(* Favourites: the promise to a client that sends one request at a time *)

Alone(r) == \A s \in Slots \ {r} : req[s] = Idle

\* TheSlot, of any requests.
SlotOf(f) == CHOOSE r \in Slots : f[r] # Idle \/ \A s \in Slots : f[s] = Idle

LEMMA SlotOfIs ==
  ASSUME NEW f, NEW r \in Slots, \A s \in Slots \ {r} : f[s] = Idle
  PROVE  f[SlotOf(f)] = f[r]
<1>1. \E t \in Slots : f[t] # Idle \/ \A s \in Slots : f[s] = Idle
  OBVIOUS
<1>2. SlotOf(f) \in Slots /\ (f[SlotOf(f)] # Idle \/ \A s \in Slots : f[s] = Idle)
  <2> HIDE DEF Idle
  <2> QED BY <1>1 DEF SlotOf
<1> HIDE DEF Idle, SlotOf
<1> QED BY <1>2

\* What the client sees is its one request.
LEMMA Seen ==
  ASSUME NEW r \in Slots, solo, Alone(r)
  PROVE  /\ PromisedClock = clock
         /\ PromisedUse = row.expires - Lifetime
         /\ PromisedQuestion = [op |-> req[r].op, id |-> req[r].id, slot |-> req[r].slot]
         /\ PromisedAnswer = IF req[r].pc \in Working THEN "none" ELSE req[r].pc
         /\ PromisedList = IF Live \/ (req[r].pc \in {"write", "touch"} /\ req[r].found)
                           THEN IdList(row.entries) ELSE <<>>
<1>1. req[TheSlot] = req[r]
  BY SlotOfIs DEF Alone, SlotOf, TheSlot
<1> HIDE DEF TheSlot, Idle, Live
<1> QED BY <1>1 DEF PromisedClock, PromisedUse, PromisedQuestion, PromisedAnswer, PromisedList, IdList

LEMMA SeenNext ==
  ASSUME NEW r \in Slots, solo', Alone(r)'
  PROVE  /\ PromisedClock' = clock'
         /\ PromisedUse' = row'.expires - Lifetime
         /\ PromisedQuestion' = [op |-> req'[r].op, id |-> req'[r].id, slot |-> req'[r].slot]
         /\ PromisedAnswer' = IF req'[r].pc \in Working THEN "none" ELSE req'[r].pc
         /\ PromisedList' = IF Live' \/ (req'[r].pc \in {"write", "touch"} /\ req'[r].found)
                            THEN IdList(row'.entries) ELSE <<>>
<1>1. (req[TheSlot])' = req'[r]
  BY SlotOfIs DEF Alone, SlotOf, TheSlot
<1> HIDE DEF TheSlot, Idle, Live
<1> QED BY <1>1 DEF PromisedClock, PromisedUse, PromisedQuestion, PromisedAnswer, PromisedList, IdList

\* A client that has more requests is promised nothing.
LEMMA Unpromised ==
  ASSUME ~solo, ~solo'
  PROVE  UNCHANGED Promise!vars
BY DEF Promise!vars, PromisedClock, PromisedUse, PromisedQuestion, PromisedAnswer, PromisedList

LEMMA IdListOfNothing ==
  /\ IdList(<<>>) = <<>>
  /\ \A id : Promise!Others(<<>>, id) = <<>>
<1>1. IdList(<<>>) = <<>>
  BY DEF IdList
<1>2. ASSUME NEW id PROVE Promise!Others(<<>>, id) = <<>>
  <2>1. Without(<<>>, id) = <<>>
    BY EmptyList, WithoutIs
  <2> QED BY <1>1, <2>1, EmptyList, OthersAre
<1> QED BY <1>1, <1>2

\* A request that is at work, and then what it did.
LEMMA OneIsAtWork ==
  ASSUME StoredInv, SoloInv, solo, NEW r \in Slots, req[r].pc \in Working
  PROVE  Alone(r)
BY IdleIs DEF SoloInv, Alone, Working

LEMMA AloneStays ==
  ASSUME NEW r \in Slots, Alone(r), \A s \in Slots \ {r} : req'[s] = req[s]
  PROVE  Alone(r)'
BY DEF Alone, Idle

LEMMA SoloOf ==
  ASSUME NEW r \in Slots, Alone(r)', req'[r].pc \in {"write", "touch"} => Second(req[r])'
  PROVE  SoloInv'
<1>1. \A s \in Slots \ {r} : req'[s] = Idle /\ req'[s].pc = "idle"
  BY IdleIs DEF Alone, Idle
<1>2. \A s, t \in Slots : s = t \/ req'[s] = Idle \/ req'[t] = Idle
  <2> HIDE DEF Idle
  <2> QED BY <1>1
<1>3. ASSUME NEW s \in Slots, req'[s].pc \in {"write", "touch"} PROVE Second(req[s])'
  <2>1. s = r
    BY <1>1, <1>3
  <2> QED BY <1>3, <2>1
<1> HIDE DEF Second, Idle
<1> QED BY <1>2, <1>3 DEF SoloInv

\* A read shows the client nothing.
LEMMA ReadIsUnseen ==
  ASSUME StoredInv, SoloInv, solo, NEW r \in Slots, NEW pc \in {"write", "touch"},
         NEW entries \in Seq(Entry), req[r].pc = "read", Continue(r, pc, entries),
         LET old == IdList(Found)
         IN  IF pc = "write"
             THEN /\ IdList(entries) = NewList(req[r], old)
                  /\ req[r].op = "put" => ~Promise!NoPlace(old, req[r].id, req[r].slot)
             ELSE req[r].op # "put" /\ NewList(req[r], old) = old
  PROVE  SoloInv' /\ UNCHANGED Promise!vars
<1>1. /\ req'[r].pc = pc /\ req'[r].entries = entries
      /\ req'[r].seen = writes /\ req'[r].found = Live
      /\ req'[r].op = req[r].op /\ req'[r].id = req[r].id /\ req'[r].slot = req[r].slot
      /\ \A s \in Slots \ {r} : req'[s] = req[s]
  BY ContinueIs DEF StoredInv
<1>2. UNCHANGED <<clock, row, solo>> /\ Live' = Live
  BY DEF Continue, Live
<1>3. Alone(r) /\ Alone(r)'
  BY <1>1, OneIsAtWork, AloneStays DEF Working
<1>4. OldList(req[r])' = IdList(Found)
  <2>1. Found = IF Live THEN row.entries ELSE <<>>
    BY FoundIs DEF StoredInv, Typed
  <2> HIDE DEF Live, Found
  <2> QED BY <1>1, <1>2, <2>1, IdListOfNothing DEF OldList
<1>5. Second(req[r])'
  <2> HIDE DEF Live, Found, OldList
  <2> QED BY <1>1, <1>2, <1>4 DEF Second, NewList
<1>6. UNCHANGED Promise!vars
  <2> HIDE DEF Live
  <2>1. PromisedList' = PromisedList
    BY <1>1, <1>2, <1>3, Seen, SeenNext
  <2>2. PromisedAnswer' = PromisedAnswer
    BY <1>1, <1>2, <1>3, Seen, SeenNext DEF Working
  <2>3. PromisedClock' = PromisedClock /\ PromisedUse' = PromisedUse
        /\ PromisedQuestion' = PromisedQuestion
    BY <1>1, <1>2, <1>3, Seen, SeenNext
  <2> QED BY <2>1, <2>2, <2>3 DEF Promise!vars
<1> QED BY <1>3, <1>5, <1>6, SoloOf

\* The end of a request that is at its second statement, as the client sees it.
LEMMA EndIsSeen ==
  ASSUME StoredInv, SoloInv, solo, NEW r \in Slots, NEW pc \in {"answered", "refused", "failed"},
         req[r].pc \in Working, End(r, pc), UNCHANGED <<clock, solo>>
  PROVE  /\ SoloInv'
         /\ Asks(req[r]) /\ req[r] \in Request
         /\ PromisedClock = clock /\ PromisedClock' = clock
         /\ PromisedUse = row.expires - Lifetime /\ PromisedUse' = row'.expires - Lifetime
         /\ PromisedQuestion = [op |-> req[r].op, id |-> req[r].id, slot |-> req[r].slot]
         /\ PromisedQuestion' = PromisedQuestion
         /\ PromisedAnswer = "none" /\ PromisedAnswer' = pc
         /\ PromisedList = IF Live \/ (req[r].pc \in {"write", "touch"} /\ req[r].found)
                           THEN IdList(row.entries) ELSE <<>>
         /\ PromisedList' = IF Live' THEN IdList(row'.entries) ELSE <<>>
<1>1. /\ req'[r].pc = pc
      /\ req'[r].op = req[r].op /\ req'[r].id = req[r].id /\ req'[r].slot = req[r].slot
      /\ \A s \in Slots \ {r} : req'[s] = req[s]
  BY EndIs DEF StoredInv
<1>2. Alone(r) /\ Alone(r)'
  BY <1>1, OneIsAtWork, AloneStays
<1>3. SoloInv'
  BY <1>1, <1>2, SoloOf
<1>4. Asks(req[r]) /\ req[r] \in Request
  BY DEF StoredInv, Typed
<1> HIDE DEF Live
<1>5. pc \notin Working /\ pc \notin {"write", "touch"}
  BY DEF Working
<1> QED BY <1>1, <1>2, <1>3, <1>4, <1>5, Seen, SeenNext

\* What a request that writes shows the client.
LEMMA StoresIsSeen ==
  ASSUME StoredInv, SoloInv, solo, NEW r \in Slots, NEW pc \in {"answered", "failed"},
         End(r, pc), req[r].pc = "write", Stores(r), UNCHANGED <<clock, solo>>
  PROVE  /\ PromisedList = OldList(req[r])
         /\ PromisedList' = NewList(req[r], OldList(req[r]))
         /\ PromisedUse' = PromisedClock
         /\ req[r].op = "put" => ~Promise!NoPlace(OldList(req[r]), req[r].id, req[r].slot)
<1>1. /\ PromisedClock = clock
      /\ PromisedUse' = row'.expires - Lifetime
      /\ PromisedList = IF Live \/ (req[r].pc \in {"write", "touch"} /\ req[r].found)
                        THEN IdList(row.entries) ELSE <<>>
      /\ PromisedList' = IF Live' THEN IdList(row'.entries) ELSE <<>>
  BY EndIsSeen DEF Working
<1>2. Second(req[r])
  BY DEF SoloInv
<1>3. clock \in Nat /\ row' = [entries |-> req[r].entries, expires |-> clock + Lifetime]
  BY DEF StoredInv, Typed, Stores
<1>4. Live' /\ row'.expires - Lifetime = clock /\ row'.entries = req[r].entries
  BY <1>3, SizesAssumption DEF Live
<1>5. OldList(req[r]) = IF Live \/ req[r].found THEN IdList(row.entries) ELSE <<>>
  <2> HIDE DEF Live
  <2> QED BY <1>2 DEF Second, OldList
<1> HIDE DEF Live, OldList
<1> QED BY <1>1, <1>2, <1>4, <1>5 DEF Second

\* What a request that writes nothing does to the list that the client sees.
LEMMA TouchIsSeen ==
  ASSUME StoredInv, SoloInv, solo, NEW r \in Slots, NEW pc \in {"answered", "failed"},
         End(r, pc), req[r].pc = "touch", UNCHANGED <<clock, solo>>, Live,
         row' = [row EXCEPT !.expires = clock + Lifetime]
  PROVE  /\ PromisedList = OldList(req[r])
         /\ PromisedList' = OldList(req[r])
         /\ NewList(req[r], OldList(req[r])) = OldList(req[r])
         /\ PromisedUse' = PromisedClock
         /\ req[r].op # "put"
<1>1. /\ PromisedClock = clock
      /\ PromisedUse' = row'.expires - Lifetime
      /\ PromisedList = IF Live \/ (req[r].pc \in {"write", "touch"} /\ req[r].found)
                        THEN IdList(row.entries) ELSE <<>>
      /\ PromisedList' = IF Live' THEN IdList(row'.entries) ELSE <<>>
  BY EndIsSeen DEF Working
<1>2. Second(req[r])
  BY DEF SoloInv
<1>3. Live' /\ row'.expires - Lifetime = clock /\ row'.entries = row.entries
  BY SizesAssumption DEF Live, StoredInv, Typed
<1>4. OldList(req[r]) = IdList(row.entries)
  <2> HIDE DEF Live
  <2> QED BY <1>2 DEF Second, OldList
<1> HIDE DEF Live, OldList
<1> QED BY <1>1, <1>2, <1>3, <1>4 DEF Second

\* A list that does not live lapses with the end of the request.
LEMMA LapseIsSeen ==
  ASSUME StoredInv, SoloInv, solo, NEW r \in Slots, NEW pc \in {"answered", "failed"},
         req[r].pc \in Working, End(r, pc), UNCHANGED <<clock, row, solo>>
  PROVE  /\ PromisedUse' = PromisedUse
         /\ PromisedList' \in Promise!Remaining
         /\ ~Live => PromisedList' = <<>> /\ <<>> \in Promise!Remaining
<1>1. /\ PromisedClock = clock
      /\ PromisedUse = row.expires - Lifetime /\ PromisedUse' = row'.expires - Lifetime
      /\ PromisedList = IF Live \/ (req[r].pc \in {"write", "touch"} /\ req[r].found)
                        THEN IdList(row.entries) ELSE <<>>
      /\ PromisedList' = IF Live' THEN IdList(row'.entries) ELSE <<>>
  BY EndIsSeen
<1>2. Live' = Live /\ row' = row
  BY DEF Live
<1>3. ~Live => PromisedClock >= PromisedUse + Lifetime
  BY <1>1, SizesAssumption DEF Live, StoredInv, Typed
<1> HIDE DEF Live
<1> QED BY <1>1, <1>2, <1>3 DEF Promise!Remaining

LEMMA SoloNext ==
  ASSUME StoredInv, SoloInv, solo, Next
  PROVE  SoloInv' /\ [Promise!Next]_(Promise!vars)
<1>1. row \in [entries : Seq(Entry), expires : Nat] /\ req \in [Slots -> Request]
      /\ clock \in Nat /\ Whole(row.entries)
  BY DEF StoredInv, Typed
<1>2. Found \in Seq(Entry) /\ Whole(Found) /\ Found = IF Live THEN row.entries ELSE <<>>
  BY <1>1, FoundIs, EmptyList
<1>3. ASSUME NEW r \in Slots, req[r].pc \in Working
      PROVE  Asks(req[r]) /\ req[r] \in Request
  BY <1>1, <1>3 DEF StoredInv, Typed
<1>4. CASE Tick
  <2>1. UNCHANGED <<row, req, solo>> /\ clock' = clock + 1 /\ clock' \in Nat
    BY <1>1, <1>4 DEF Tick
  <2>2. Live' => Live
    BY <1>1, <2>1 DEF Live
  <2>3. SoloInv'
    <3>1. \A r \in Slots : Second(req[r]) => Second(req[r])'
      BY <2>1, <2>2 DEF Second, OldList
    <3> HIDE DEF Second
    <3> QED BY <2>1, <3>1 DEF SoloInv
  <2>4. PICK r \in Slots : Alone(r)
    <3> HIDE DEF Idle
    <3>1. CASE \E s \in Slots : req[s] # Idle
      BY <3>1 DEF SoloInv, Alone
    <3>2. CASE \A s \in Slots : req[s] = Idle
      BY <3>2, SlotsAssumption DEF Alone
    <3> QED BY <3>1, <3>2
  <2>5. Alone(r)'
    BY <2>1, <2>4 DEF Alone, Idle
  <2>6. PromisedClock' = PromisedClock + 1
        /\ UNCHANGED <<PromisedUse, PromisedQuestion, PromisedAnswer>>
    <3> HIDE DEF Live
    <3> QED BY <2>1, <2>4, <2>5, Seen, SeenNext
  <2>7. PromisedList' = PromisedList
        \/ (PromisedClock' >= PromisedUse + Lifetime /\ PromisedList' = <<>>)
    <3>1. /\ PromisedList = IF Live \/ (req[r].pc \in {"write", "touch"} /\ req[r].found)
                            THEN IdList(row.entries) ELSE <<>>
          /\ PromisedList' = IF Live' \/ (req[r].pc \in {"write", "touch"} /\ req[r].found)
                             THEN IdList(row.entries) ELSE <<>>
          /\ PromisedClock' = clock' /\ PromisedUse = row.expires - Lifetime
      <4> HIDE DEF Live
      <4> QED BY <2>1, <2>4, <2>5, Seen, SeenNext
    <3>2. clock' >= row.expires => PromisedClock' >= PromisedUse + Lifetime
      BY <1>1, <2>1, <3>1, SizesAssumption
    <3>3. ~Live' => PromisedClock' >= PromisedUse + Lifetime
      BY <1>1, <2>1, <3>2 DEF Live
    <3> HIDE DEF Live
    <3> QED BY <2>2, <3>1, <3>3
  <2>8. Promise!Tick
    BY <2>6, <2>7 DEF Promise!Tick
  <2> QED BY <2>3, <2>8 DEF Promise!Next
<1>5. ASSUME NEW r \in Slots, NEW op \in {"get", "put", "delete"}, NEW id \in Stations \cup {None},
             NEW slot \in 0 .. MaxFavorites - 1 \cup {None}, NEW catalogue \in Catalogues,
             Arrive(r, op, id, slot, catalogue)
      PROVE  SoloInv' /\ [Promise!Next]_(Promise!vars)
  <2> DEFINE q == [Idle EXCEPT !.pc = "read", !.op = op, !.id = id, !.slot = slot,
                               !.catalogue = catalogue]
  <2>1. q.pc = "read" /\ q.op = op /\ q.id = id /\ q.slot = slot
    BY DEF Idle
  <2>2. req' = [req EXCEPT ![r] = q] /\ UNCHANGED <<clock, row, solo>> /\ req[r].pc \notin Working
        /\ Alone(r)
    BY <1>5 DEF Arrive, Alone
  <2> HIDE DEF q
  <2>3. req'[r] = q /\ \A s \in Slots \ {r} : req'[s] = req[s]
    BY <1>1, <2>2
  <2>4. Alone(r)'
    BY <2>2, <2>3, AloneStays
  <2>5. SoloInv'
    BY <2>1, <2>3, <2>4, SoloOf
  <2>6. req[r].pc \in {"idle", "answered", "refused", "failed"}
    BY <1>1, <2>2 DEF Request
  <2>7. /\ PromisedAnswer # "none" /\ PromisedAnswer' = "none"
        /\ PromisedQuestion' = [op |-> op, id |-> id, slot |-> slot]
        /\ UNCHANGED <<PromisedClock, PromisedUse>>
    <3> HIDE DEF Live
    <3> QED BY <2>1, <2>2, <2>3, <2>4, <2>6, Seen, SeenNext DEF Working
  <2>8. PromisedList' = PromisedList
    <3>1. Live' = Live
      BY <2>2 DEF Live
    <3>2. req[r].pc \notin {"write", "touch"} /\ req'[r].pc \notin {"write", "touch"}
      BY <2>1, <2>3, <2>6
    <3> HIDE DEF Live
    <3> QED BY <2>2, <2>4, <3>1, <3>2, Seen, SeenNext
  <2>9. PromisedQuestion' \in Promise!Questions
    BY <2>7 DEF Promise!Questions
  <2>10. Promise!Ask
    BY <2>7, <2>8, <2>9 DEF Promise!Ask
  <2> QED BY <2>5, <2>10 DEF Promise!Next
<1>6. ASSUME NEW r \in Slots, ReadToShow(r) PROVE SoloInv' /\ [Promise!Next]_(Promise!vars)
  <2> DEFINE b == Built(Found, req[r].catalogue)
  <2>1. req[r].pc = "read" /\ req[r].op = "get" /\ Asks(req[r])
    BY <1>3, <1>6 DEF ReadToShow, Working
  <2>2. NewList(req[r], IdList(Found)) = IdList(Found)
    BY <2>1 DEF NewList
  <2>3. CASE Continue(r, "touch", <<>>)
    <3> HIDE DEF Found
    <3> QED BY <2>1, <2>2, <2>3, EmptyList, ReadIsUnseen
  <2>4. CASE Continue(r, "write", b)
    <3>1. b \in Seq(Entry) /\ Len(b) = Len(Found) /\ \A i \in DOMAIN Found : b[i].id = Found[i].id
      BY <1>2, <2>1, BuiltIs DEF Whole, Asks
    <3> HIDE DEF b, Found
    <3>2. IdList(b) = IdList(Found)
      <4>1. DOMAIN b = DOMAIN Found
        BY <1>2, <3>1, EntriesAre
      <4> QED BY <3>1, <4>1 DEF IdList
    <3> QED BY <2>1, <2>2, <2>4, <3>1, <3>2, ReadIsUnseen
  <2> QED BY <1>6, <2>3, <2>4 DEF ReadToShow
<1>7. ASSUME NEW r \in Slots, ReadToPut(r) PROVE SoloInv' /\ [Promise!Next]_(Promise!vars)
  <2> DEFINE q      == req[r]
             others == Without(Found, q.id)
             b      == Built(Deduped(Inserted(others, q)), q.catalogue)
  <2>1. /\ q.pc = "read" /\ q.op = "put" /\ Continue(r, "write", b)
        /\ Len(others) < MaxFavorites \/ (q.slot # None /\ q.slot < Len(others))
    BY <1>7 DEF ReadToPut
  <2>2. /\ q.catalogue \in Catalogues /\ q.id \in DOMAIN q.catalogue
        /\ q.slot \in 0 .. MaxFavorites - 1 \cup {None}
    BY <1>3, <2>1 DEF Asks, Request, Working
  <2> HIDE DEF Found
  <2>3. /\ b \in Seq(Entry)
        /\ IdList(b) = Promise!Placed(IdList(Found), q.id, q.slot)
        /\ ~Promise!NoPlace(IdList(Found), q.id, q.slot)
    <3>1. Distinct(Found)
      BY <1>2 DEF Whole
    <3> HIDE DEF q
    <3> QED BY <1>2, <2>1, <2>2, <3>1, PutIs
  <2>4. NewList(req[r], IdList(Found)) = IdList(b)
    BY <2>1, <2>3 DEF NewList
  <2> HIDE DEF b
  <2> QED BY <2>1, <2>3, <2>4, ReadIsUnseen
<1>8. ASSUME NEW r \in Slots, RefuseToPut(r) PROVE SoloInv' /\ [Promise!Next]_(Promise!vars)
  <2> DEFINE q      == req[r]
             others == Without(Found, q.id)
  <2>1. /\ q.pc = "read" /\ q.op = "put"
        /\ Len(others) >= MaxFavorites /\ (q.slot # None => q.slot >= Len(others))
        /\ End(r, "refused") /\ UNCHANGED <<clock, row, solo>>
    BY <1>8 DEF RefuseToPut
  <2>2. /\ SoloInv'
        /\ PromisedClock = clock /\ PromisedClock' = clock
        /\ PromisedUse = row.expires - Lifetime /\ PromisedUse' = row'.expires - Lifetime
        /\ PromisedQuestion = [op |-> q.op, id |-> q.id, slot |-> q.slot]
        /\ PromisedQuestion' = PromisedQuestion
        /\ PromisedAnswer = "none" /\ PromisedAnswer' = "refused"
        /\ PromisedList = IF Live \/ (q.pc \in {"write", "touch"} /\ q.found)
                          THEN IdList(row.entries) ELSE <<>>
        /\ PromisedList' = IF Live' THEN IdList(row'.entries) ELSE <<>>
    <3>1. q.pc \in Working
      BY <2>1 DEF Working
    <3> HIDE DEF Live
    <3> QED BY <2>1, <3>1, EndIsSeen
  <2>3. PromisedList = IdList(Found) /\ PromisedList' = PromisedList
    <3>1. Live' = Live
      BY <2>1 DEF Live
    <3> HIDE DEF Live, Found
    <3> QED BY <1>2, <2>1, <2>2, <3>1, IdListOfNothing
  <2>4. Promise!NoPlace(IdList(Found), q.id, q.slot)
    <3>1. Promise!Others(IdList(Found), q.id) = IdList(others)
      BY <1>2, OthersAre
    <3>2. Len(IdList(others)) = Len(others)
      BY <1>2, WithoutIs, IdListIs
    <3> HIDE DEF others, q
    <3> QED BY <2>1, <3>1, <3>2 DEF Promise!NoPlace
  <2> HIDE DEF Found
  <2>5. Promise!Refuse
    BY <2>1, <2>2, <2>3, <2>4 DEF Promise!Refuse
  <2> QED BY <2>2, <2>5 DEF Promise!Next
<1>9. ASSUME NEW r \in Slots, ReadToDelete(r) PROVE SoloInv' /\ [Promise!Next]_(Promise!vars)
  <2> DEFINE w == Without(Found, req[r].id)
             b == Built(w, req[r].catalogue)
  <2>1. req[r].pc = "read" /\ req[r].op = "delete" /\ Asks(req[r])
    BY <1>3, <1>9 DEF ReadToDelete, Working
  <2> HIDE DEF Found
  <2>2. NewList(req[r], IdList(Found)) = IdList(w)
    BY <1>2, <2>1, OthersAre DEF NewList
  <2>3. w \in Seq(Entry) /\ Len(w) <= Len(Found) /\ (Complete(Found) => Complete(w))
        /\ (req[r].id \notin Ids(Found) => w = Found)
    BY <1>2, WithoutIs
  <2> HIDE DEF w
  <2>4. CASE req[r].id \notin Ids(Found) /\ Continue(r, "touch", <<>>)
    BY <2>1, <2>2, <2>3, <2>4, EmptyList, ReadIsUnseen
  <2>5. CASE Continue(r, "write", b)
    <3>1. Len(w) <= MaxFavorites /\ Complete(w)
      BY <1>2, <2>3, EntriesAre, SizesAssumption DEF Whole
    <3>2. b \in Seq(Entry) /\ Len(b) = Len(w) /\ \A i \in DOMAIN w : b[i].id = w[i].id
      BY <2>1, <2>3, <3>1, BuiltIs DEF Asks
    <3> HIDE DEF b
    <3>3. IdList(b) = IdList(w)
      <4>1. DOMAIN b = DOMAIN w
        BY <2>3, <3>2, EntriesAre
      <4> QED BY <3>2, <4>1 DEF IdList
    <3> QED BY <2>1, <2>2, <2>5, <3>2, <3>3, ReadIsUnseen
  <2> QED BY <1>9, <2>4, <2>5 DEF ReadToDelete, w
<1>10. ASSUME NEW r \in Slots, Write(r) PROVE SoloInv' /\ [Promise!Next]_(Promise!vars)
  <2>1. req[r].pc = "write" /\ req[r].pc \in Working /\ End(r, "answered") /\ Stores(r)
        /\ UNCHANGED <<clock, solo>>
    BY <1>10 DEF Write, Working
  <2>2. /\ SoloInv' /\ Asks(req[r])
        /\ PromisedClock' = PromisedClock
        /\ PromisedQuestion = [op |-> req[r].op, id |-> req[r].id, slot |-> req[r].slot]
        /\ PromisedQuestion' = PromisedQuestion
        /\ PromisedAnswer = "none" /\ PromisedAnswer' = "answered"
    BY <2>1, EndIsSeen
  <2>3. /\ PromisedList = OldList(req[r])
        /\ PromisedList' = NewList(req[r], OldList(req[r]))
        /\ PromisedUse' = PromisedClock
        /\ req[r].op = "put" => ~Promise!NoPlace(OldList(req[r]), req[r].id, req[r].slot)
    BY <2>1, StoresIsSeen
  <2>4. PromisedList \in Promise!Remaining
    BY DEF Promise!Remaining
  <2>5. Promise!Serve
    BY <2>2, <2>3, <2>4 DEF Promise!Serve, NewList, Asks
  <2> QED BY <2>2, <2>5 DEF Promise!Next
<1>11. ASSUME NEW r \in Slots, Touch(r) PROVE SoloInv' /\ [Promise!Next]_(Promise!vars)
  <2>1. req[r].pc = "touch" /\ req[r].pc \in Working /\ End(r, "answered") /\ UNCHANGED <<clock, solo>>
        /\ row' = IF Live THEN [row EXCEPT !.expires = clock + Lifetime] ELSE row
    BY <1>11 DEF Touch, Working
  <2>2. /\ SoloInv' /\ Asks(req[r])
        /\ PromisedClock' = PromisedClock
        /\ PromisedQuestion = [op |-> req[r].op, id |-> req[r].id, slot |-> req[r].slot]
        /\ PromisedQuestion' = PromisedQuestion
        /\ PromisedAnswer = "none" /\ PromisedAnswer' = "answered"
    <3> HIDE DEF Live
    <3> QED BY <2>1, EndIsSeen
  <2>3. CASE Live
    <3>1. /\ PromisedList = OldList(req[r])
          /\ PromisedList' = OldList(req[r])
          /\ NewList(req[r], OldList(req[r])) = OldList(req[r])
          /\ PromisedUse' = PromisedClock
          /\ req[r].op # "put"
      BY <2>1, <2>3, TouchIsSeen
    <3>2. PromisedList \in Promise!Remaining
      BY DEF Promise!Remaining
    <3>3. Promise!Serve
      BY <2>2, <3>1, <3>2 DEF Promise!Serve, NewList, Asks
    <3> QED BY <2>2, <3>3 DEF Promise!Next
  <2>4. CASE ~Live
    <3>1. PromisedUse' = PromisedUse /\ PromisedList' = <<>> /\ <<>> \in Promise!Remaining
      BY <2>1, <2>4, LapseIsSeen
    <3>2. req[r].op # "put"
      BY <2>1 DEF SoloInv, Second
    <3>3. Promise!Serve
      BY <2>2, <3>1, <3>2, IdListOfNothing DEF Promise!Serve, Asks
    <3> QED BY <2>2, <3>3 DEF Promise!Next
  <2> QED BY <2>3, <2>4
<1>12. ASSUME NEW r \in Slots, Fail(r) PROVE SoloInv' /\ [Promise!Next]_(Promise!vars)
  <2>1. req[r].pc \in Working /\ End(r, "failed") /\ UNCHANGED <<clock, solo>>
    BY <1>12 DEF Fail
  <2>2. /\ SoloInv' /\ Asks(req[r])
        /\ PromisedClock' = PromisedClock
        /\ PromisedQuestion = [op |-> req[r].op, id |-> req[r].id, slot |-> req[r].slot]
        /\ PromisedQuestion' = PromisedQuestion
        /\ PromisedAnswer = "none" /\ PromisedAnswer' = "failed"
    BY <2>1, EndIsSeen
  <2>3. CASE row' = row
    <3>1. PromisedUse' = PromisedUse /\ PromisedList' \in Promise!Remaining
      BY <2>1, <2>3, LapseIsSeen
    <3>2. Promise!Fail
      BY <2>2, <3>1 DEF Promise!Fail
    <3> QED BY <2>2, <3>2 DEF Promise!Next
  <2>4. CASE req[r].pc = "write" /\ Stores(r)
    <3>1. /\ PromisedList = OldList(req[r])
          /\ PromisedList' = NewList(req[r], OldList(req[r]))
          /\ PromisedUse' = PromisedClock
          /\ req[r].op = "put" => ~Promise!NoPlace(OldList(req[r]), req[r].id, req[r].slot)
      BY <2>1, <2>4, StoresIsSeen
    <3>2. Promise!Fail
      BY <2>2, <3>1 DEF Promise!Fail, NewList, Asks
    <3> QED BY <2>2, <3>2 DEF Promise!Next
  <2>5. CASE req[r].pc = "touch" /\ Live /\ row' = [row EXCEPT !.expires = clock + Lifetime]
    <3>1. /\ PromisedList = OldList(req[r])
          /\ PromisedList' = OldList(req[r])
          /\ NewList(req[r], OldList(req[r])) = OldList(req[r])
          /\ PromisedUse' = PromisedClock
          /\ req[r].op # "put"
      BY <2>1, <2>5, TouchIsSeen
    <3>2. Promise!Fail
      BY <2>2, <3>1 DEF Promise!Fail, NewList, Asks
    <3> QED BY <2>2, <3>2 DEF Promise!Next
  <2> QED BY <1>12, <2>3, <2>4, <2>5 DEF Fail
<1> QED BY <1>4, <1>5, <1>6, <1>7, <1>8, <1>9, <1>10, <1>11, <1>12 DEF Next, Step

LEMMA NextPromised ==
  StoredInv /\ SoloInv /\ [Next]_vars => SoloInv' /\ [Promise!Next]_(Promise!vars)
<1> SUFFICES ASSUME StoredInv, SoloInv, [Next]_vars
             PROVE  SoloInv' /\ [Promise!Next]_(Promise!vars)
  OBVIOUS
<1>1. CASE UNCHANGED vars
  <2>1. SoloInv'
    BY <1>1 DEF vars, SoloInv, Second, OldList, Live
  <2>2. UNCHANGED Promise!vars
    BY <1>1 DEF vars, Promise!vars, PromisedClock, PromisedUse, PromisedQuestion, PromisedAnswer,
                PromisedList, TheSlot, Live
  <2> QED BY <2>1, <2>2
<1>2. CASE Next /\ solo
  BY <1>2, SoloNext
<1>3. CASE Next /\ ~solo
  <2>1. ~solo'
    <3>1. CASE Tick
      BY <1>3, <3>1 DEF Tick
    <3>2. ASSUME NEW r \in Slots, Step(r) PROVE solo' = solo
      <4>1. ASSUME NEW op, NEW id, NEW slot, NEW catalogue, Arrive(r, op, id, slot, catalogue)
            PROVE  solo' = solo
        BY <4>1 DEF Arrive
      <4>2. CASE ReadToShow(r) \/ ReadToPut(r) \/ ReadToDelete(r)
        BY <4>2 DEF ReadToShow, ReadToPut, ReadToDelete, Continue
      <4>3. CASE RefuseToPut(r) \/ Write(r) \/ Touch(r) \/ Fail(r)
        BY <4>3 DEF RefuseToPut, Write, Touch, Fail
      <4> QED BY <3>2, <4>1, <4>2, <4>3 DEF Step
    <3> QED BY <1>3, <3>1, <3>2 DEF Next
  <2> QED BY <1>3, <2>1, Unpromised DEF SoloInv
<1> QED BY <1>1, <1>2, <1>3

LEMMA InitPromised == Init => SoloInv /\ Promise!Init
<1> SUFFICES ASSUME Init PROVE SoloInv /\ Promise!Init
  OBVIOUS
<1>1. \A r \in Slots : req[r] = Idle /\ req[r].pc = "idle"
  BY IdleIs DEF Init
<1>2. SoloInv
  BY <1>1 DEF SoloInv
<1>3. CASE solo
  <2>1. PICK r \in Slots : Alone(r)
    BY <1>1, SlotsAssumption DEF Alone
  <2>2. clock = 0 /\ row.expires = 0 /\ row.entries = <<>> /\ ~Live
    BY <1>3 DEF Init, Live
  <2>3. /\ PromisedClock = 0 /\ PromisedUse = 0 - Lifetime /\ PromisedAnswer = "idle"
        /\ PromisedQuestion = [op |-> None, id |-> None, slot |-> None] /\ PromisedList = <<>>
    <3> HIDE DEF Live
    <3> QED BY <1>1, <1>3, <2>1, <2>2, IdleIs, Seen DEF Working
  <2>4. 0 - Lifetime = -Lifetime
    BY SizesAssumption
  <2> QED BY <1>2, <2>3, <2>4 DEF Promise!Init
<1>4. CASE ~solo
  BY <1>2, <1>4 DEF Promise!Init, PromisedClock, PromisedUse, PromisedQuestion, PromisedAnswer,
                    PromisedList
<1> QED BY <1>3, <1>4 DEF Init

\* One request at a time, each when the statements of the last are over: the
\* client has the list it asked for, in its order, and is told so.
THEOREM FavoritesImplementList == Spec => ImplementsList
<1>1. Spec => [](StoredInv /\ SoloInv)
  BY InitStored, NextStored, InitPromised, NextPromised, PTL DEF Spec
<1> QED BY <1>1, InitPromised, NextPromised, PTL DEF Spec, ImplementsList, Promise!Spec
=============================================================================
