------------------------ MODULE StationRefreshProofs ------------------------
(***************************************************************************)
(* Proofs about StationSource, where the stations of a refresh come from,  *)
(* for any mirrors, streams, limits and lifetimes; then about              *)
(* StationRefresh, for any processes, tasks, listings and bounds, and that *)
(* it implements StationCatalogue.                                         *)
(***************************************************************************)
EXTENDS StationRefresh, StationSource, ListsProofs

-----------------------------------------------------------------------------
(* StationSource *)

\* What the mirrors list, and the records of a refresh.
Mirrors == [DOMAIN HostPool -> Directories]

Verdicts ==
    [ok : BOOLEAN, final : Urls \cup {Nothing}, at : Nat,
     signature : {Signature(entry) : entry \in Listed}, ttl : Nat, expires : Nat]

Outcomes ==
    {o \in [index : Nat, station : Offers \cup {Nothing},
            key : Urls \cup {Nothing}, entry : Verdicts \cup {Nothing}] :
         o.key # Nothing => o.entry \in Verdicts}

Refreshes ==
    [pc : {"idle", "fetch", "load", "now", "validate", "write", "persist"},
     host : Nat, tried : Nat, page : Nat, listing : Seq(Listed), offered : Mirrors \cup {Nothing},
     rows : [Urls -> Verdicts \cup {Nothing}], now : Nat, outcomes : Seq(Outcomes)]

SourceTypes ==
    /\ clock \in Nat \ {0} /\ cursor \in Nat
    /\ mirror \in Mirrors /\ stream \in Streams
    /\ cache \in [Urls -> Verdicts \cup {Nothing}]
    /\ refresh \in Refreshes
    /\ heard \in [Urls -> Nat] /\ refused \in [Urls -> Nat]

\* What a verdict under a URL says is what was seen of that URL, at the latest.
TrueOf(u, v, lastHeard, lastRefused) ==
    /\ v.at > 0
    /\ IF v.ok THEN v.final = u /\ u \in Public /\ v.at <= lastHeard[u] /\ v.ttl = Ttl
       ELSE v.final = Nothing /\ v.at <= lastRefused[u] /\ v.ttl = FailureTtl

\* What is decided of a station was seen within the life of a verdict.
FreshOf(o, listing, now, lastHeard, lastRefused) ==
    IF o.station # Nothing
    THEN /\ o.station.url \in Public
         /\ lastHeard[o.station.url] > 0 /\ lastHeard[o.station.url] + Ttl >= now
    ELSE LET u == listing[o.index].url
         IN  lastRefused[u] > 0 /\ lastRefused[u] + FailureTtl >= now

\* Every verdict, stored, loaded or about to be stored, is true.
VerdictInv ==
    /\ \A u \in Urls : heard[u] <= clock /\ refused[u] <= clock
    /\ \A u \in Urls : cache[u] # Nothing => TrueOf(u, cache[u], heard, refused)
    /\ \A u \in Urls : refresh.rows[u] # Nothing => TrueOf(u, refresh.rows[u], heard, refused)
    /\ refresh.now <= clock
    /\ refresh.pc \in {"fetch", "load", "now"} => refresh.outcomes = << >>
    /\ \A k \in DOMAIN refresh.outcomes :
           LET o == refresh.outcomes[k]
           IN  /\ o.index \in DOMAIN refresh.listing
               /\ o.key # Nothing => TrueOf(o.key, o.entry, heard, refused)
               /\ FreshOf(o, refresh.listing, refresh.now, heard, refused)

\* A verdict was reached of each station that is done, and of it only once.
PlaceInv ==
    /\ \A k \in DOMAIN refresh.outcomes :
           LET o == refresh.outcomes[k]
           IN  o.station # Nothing => o.station.id = refresh.listing[o.index].id
    /\ \A j, k \in DOMAIN refresh.outcomes :
           refresh.outcomes[j].index = refresh.outcomes[k].index => j = k
    /\ Validated => Len(refresh.outcomes) = Len(refresh.listing)

\* Page by page, the beginning of what the mirror asked lists; then all of it.
PagesInv ==
    /\ refresh.pc = "fetch" =>
           /\ refresh.page < MaxPages /\ refresh.page * PageSize < TotalLimit
           /\ refresh.offered # Nothing =>
                  /\ refresh.offered = mirror
                  /\ refresh.listing = Normalized(SubSeq(mirror[Host], 1,
                         Least(refresh.page * PageSize, Len(mirror[Host]))))
    /\ refresh.pc \notin {"idle", "fetch"} /\ refresh.offered # Nothing =>
           \E h \in DOMAIN HostPool : refresh.listing = Wanted(refresh.offered[h])

\* The lesser of two numbers is one of them.
LEMMA LeastIs ==
  ASSUME NEW a \in Int, NEW b \in Int
  PROVE  \/ a < b /\ Least(a, b) = a
         \/ b <= a /\ Least(a, b) = b
BY DEF Least

\* A list without the stations that normalize_station refuses.
LEMMA NormalizedIs ==
  ASSUME NEW s \in Seq(Listed)
  PROVE  Normalized(s) \in Seq(Listed) /\ Len(Normalized(s)) <= Len(s)
<1> DEFINE P == {i \in DOMAIN s : s[i].sound}
<1>1. P \subseteq DOMAIN s
  OBVIOUS
<1>2. Normalized(s) = Pick(s, P)
  BY DEF Normalized
<1> HIDE DEF P
<1> QED BY <1>1, <1>2, PickIs

\* Pages can be normalized one by one.
LEMMA NormalizedConcat ==
  ASSUME NEW s \in Seq(Listed), NEW t \in Seq(Listed)
  PROVE  Normalized(s \o t) = Normalized(s) \o Normalized(t)
<1> DEFINE all == s \o t
           P == {i \in DOMAIN s : s[i].sound}
           Q == {i \in DOMAIN t : t[i].sound}
           R == {i \in DOMAIN all : all[i].sound}
<1>1. /\ Len(s) \in Nat /\ DOMAIN s = 1 .. Len(s)
      /\ Len(t) \in Nat /\ DOMAIN t = 1 .. Len(t)
  BY LenProperties
<1>2. /\ DOMAIN all = 1 .. Len(s) + Len(t)
      /\ \A i \in 1 .. Len(s) + Len(t) : all[i] = IF i <= Len(s) THEN s[i] ELSE t[i - Len(s)]
  BY ConcatProperties, LenProperties
<1> HIDE DEF all
<1>3. R = P \cup After(Len(s), Q)
  <2>1. ASSUME NEW i \in R PROVE i \in P \cup {Len(s) + j : j \in Q}
    <3>1. CASE i <= Len(s)
      BY <1>1, <1>2, <3>1
    <3>2. CASE ~(i <= Len(s))
      <4>1. i - Len(s) \in Q /\ i = Len(s) + (i - Len(s))
        BY <1>1, <1>2, <3>2
      <4> QED BY <4>1
    <3> QED BY <3>1, <3>2
  <2>2. P \subseteq R
    BY <1>1, <1>2
  <2>3. ASSUME NEW j \in Q PROVE Len(s) + j \in R
    BY <1>1, <1>2
  <2> QED BY <2>1, <2>2, <2>3 DEF After
<1>4. P \subseteq DOMAIN s /\ Q \subseteq DOMAIN t
  OBVIOUS
<1>5. /\ Normalized(s) = Pick(s, P) /\ Normalized(t) = Pick(t, Q)
      /\ Normalized(all) = Pick(all, R)
  BY DEF Normalized
<1> HIDE DEF P, Q, R
<1>6. Pick(Joined(s, t), R) = Joined(Pick(s, P), Pick(t, Q))
  BY <1>3, <1>4, PickConcat
<1> QED BY <1>5, <1>6 DEF all, Joined

\* The beginning of a list is a shorter beginning and what follows it.
LEMMA Parts ==
  ASSUME NEW s \in Seq(Listed), NEW m \in Nat, NEW n \in Nat, m <= n
  PROVE  LET a == SubSeq(s, 1, Least(m, Len(s)))
             b == SubSeq(s, m + 1, Least(n, Len(s)))
         IN  /\ a \in Seq(Listed) /\ b \in Seq(Listed)
             /\ a \o b = SubSeq(s, 1, Least(n, Len(s)))
             /\ Len(a \o b) = Least(n, Len(s))
             /\ b = << >> => Least(n, Len(s)) <= m
<1> DEFINE l == Len(s)
           x == Least(m, l)
           y == Least(n, l)
           a == SubSeq(s, 1, x)
           b == SubSeq(s, m + 1, y)
           c == SubSeq(s, 1, y)
<1>1. l \in Nat /\ DOMAIN s = 1 .. l /\ \A i \in 1 .. l : s[i] \in Listed
  BY LenProperties, ElementOfSeq
<1>2. /\ x \in 0 .. l /\ y \in 0 .. l /\ x <= y
      /\ x < m => x = l /\ y = l
      /\ ~(x < m) => x = m
  <2> HIDE DEF l, x, y
  <2>1. /\ (m < l /\ x = m) \/ (l <= m /\ x = l)
        /\ (n < l /\ y = n) \/ (l <= n /\ y = l)
    BY <1>1, LeastIs DEF x, y
  <2> QED BY <1>1, <2>1
<1> HIDE DEF l, x, y
<1>3. /\ a \in Seq(Listed) /\ Len(a) = x /\ \A i \in 1 .. x : a[i] = s[i]
  <2>1. 1 \in Int /\ x \in Int /\ \A i \in 1 .. x : s[i] \in Listed
    BY <1>1, <1>2
  <2>2. /\ a \in Seq(Listed) /\ Len(a) = IF 1 <= x THEN x - 1 + 1 ELSE 0
        /\ \A i \in 1 .. x - 1 + 1 : a[i] = s[1 + i - 1]
    BY <2>1, SubSeqProperties
  <2> QED BY <1>1, <1>2, <2>2
<1>4. /\ c \in Seq(Listed) /\ Len(c) = y /\ \A i \in 1 .. y : c[i] = s[i]
  <2>1. 1 \in Int /\ y \in Int /\ \A i \in 1 .. y : s[i] \in Listed
    BY <1>1, <1>2
  <2>2. /\ c \in Seq(Listed) /\ Len(c) = IF 1 <= y THEN y - 1 + 1 ELSE 0
        /\ \A i \in 1 .. y - 1 + 1 : c[i] = s[1 + i - 1]
    BY <2>1, SubSeqProperties
  <2> QED BY <1>1, <1>2, <2>2
<1>5. /\ b \in Seq(Listed) /\ Len(b) = IF m + 1 <= y THEN y - m ELSE 0
      /\ \A i \in 1 .. y - m : b[i] = s[m + i]
  <2>1. m + 1 \in Int /\ y \in Int /\ \A i \in m + 1 .. y : s[i] \in Listed
    BY <1>1, <1>2
  <2>2. /\ b \in Seq(Listed) /\ Len(b) = IF m + 1 <= y THEN y - (m + 1) + 1 ELSE 0
        /\ \A i \in 1 .. y - (m + 1) + 1 : b[i] = s[m + 1 + i - 1]
    BY <2>1, SubSeqProperties
  <2>3. y - (m + 1) + 1 = y - m /\ \A i \in Int : m + 1 + i - 1 = m + i
    BY <1>2
  <2> QED BY <2>2, <2>3
<1> HIDE DEF a, b, c
<1>6. /\ a \o b \in Seq(Listed) /\ Len(a \o b) = Len(a) + Len(b)
      /\ \A i \in 1 .. Len(a) + Len(b) : (a \o b)[i] = IF i <= Len(a) THEN a[i] ELSE b[i - Len(a)]
  BY <1>3, <1>5, ConcatProperties
<1>7. Len(a) + Len(b) = y
  BY <1>2, <1>3, <1>5
<1>8. ASSUME NEW i \in 1 .. y PROVE (a \o b)[i] = c[i]
  <2>1. CASE i <= x
    BY <1>2, <1>3, <1>4, <1>6, <1>7, <2>1
  <2>2. CASE ~(i <= x)
    <3>1. x = m /\ i - m \in 1 .. y - m /\ m + (i - m) = i
      BY <1>2, <2>2
    <3>2. (a \o b)[i] = b[i - m]
      BY <1>3, <1>6, <1>7, <2>2, <3>1
    <3>3. b[i - m] = s[i]
      BY <1>5, <3>1
    <3> QED BY <1>4, <3>2, <3>3
  <2> QED BY <2>1, <2>2
<1>9. a \o b = c
  BY <1>4, <1>6, <1>7, <1>8, SeqEqual
<1>10. b = << >> => y <= m
  <2>1. b = << >> => Len(b) = 0
    BY EmptySeq
  <2> QED BY <1>2, <1>5, <2>1
<1> QED BY <1>3, <1>4, <1>5, <1>9, <1>10 DEF a, b, c, x, y, l

\* The end of a page, from its offset: the arithmetic of PageEnds.
LEMMA EndOfPage ==
  ASSUME NEW offset \in Nat, NEW size \in Nat \ {0}, NEW limit \in Nat, NEW total \in Nat,
         offset < limit, offset + size <= total
  PROVE  LET n == offset + Least(size, limit - offset)
             all == Least(limit, total)
         IN  /\ n \in Nat /\ all \in Nat
             /\ offset < n /\ n <= all /\ all <= limit
             /\ offset + size = total \/ offset + size >= limit => n = all
             /\ ~(offset + size >= limit) => n = offset + size /\ n < limit
<1> DEFINE r == Least(size, limit - offset)
           all == Least(limit, total)
<1>1. /\ (size < limit - offset /\ r = size) \/ (limit - offset <= size /\ r = limit - offset)
      /\ (limit < total /\ all = limit) \/ (total <= limit /\ all = total)
  BY LeastIs
<1> HIDE DEF r, all
<1>2. /\ offset + r \in Nat /\ all \in Nat
      /\ offset < offset + r /\ offset + r <= all /\ all <= limit
      /\ offset + size = total \/ offset + size >= limit => offset + r = all
      /\ ~(offset + size >= limit) => offset + r = offset + size /\ offset + r < limit
  BY <1>1
<1> QED BY <1>2 DEF r, all

\* Where a page ends, and with it the last one.
LEMMA PageEnds ==
  ASSUME NEW p \in Nat, p < MaxPages, p * PageSize < TotalLimit
  PROVE  LET offset == p * PageSize
             n == offset + Least(PageSize, TotalLimit - offset)
             all == Least(TotalLimit, MaxPages * PageSize)
         IN  /\ offset \in Nat /\ n \in Nat /\ all \in Nat
             /\ offset < n /\ n <= all /\ all <= TotalLimit
             /\ p + 1 = MaxPages \/ offset + PageSize >= TotalLimit => n = all
             /\ ~(offset + PageSize >= TotalLimit) => n = (p + 1) * PageSize /\ n < TotalLimit
<1>1. {PageSize, TotalLimit, MaxPages} \subseteq Nat \ {0}
  BY SourceConstants
<1>2. p * PageSize \in Nat /\ MaxPages * PageSize \in Nat
  BY <1>1
<1>3. (p + 1) * PageSize = p * PageSize + PageSize
  BY <1>1
<1>4. \A a, b, c \in Nat : a <= b => a * c <= b * c
  OBVIOUS
<1>5. (p + 1) * PageSize <= MaxPages * PageSize
  <2>1. p + 1 \in Nat /\ p + 1 <= MaxPages
    BY <1>1
  <2> QED BY <1>1, <1>4, <2>1
<1>6. p + 1 = MaxPages => p * PageSize + PageSize = MaxPages * PageSize
  BY <1>3
<1> DEFINE offset == p * PageSize
           total == MaxPages * PageSize
<1>7. /\ offset \in Nat /\ total \in Nat /\ offset < TotalLimit
      /\ offset + PageSize <= total
      /\ p + 1 = MaxPages => offset + PageSize = total
      /\ (p + 1) * PageSize = offset + PageSize
  BY <1>2, <1>3, <1>5, <1>6
<1> HIDE DEF offset, total
<1>8. LET n == offset + Least(PageSize, TotalLimit - offset)
          all == Least(TotalLimit, total)
      IN  /\ n \in Nat /\ all \in Nat
          /\ offset < n /\ n <= all /\ all <= TotalLimit
          /\ offset + PageSize = total \/ offset + PageSize >= TotalLimit => n = all
          /\ ~(offset + PageSize >= TotalLimit) => n = offset + PageSize /\ n < TotalLimit
  BY <1>1, <1>7, EndOfPage
<1>9. LET n == offset + Least(PageSize, TotalLimit - offset)
          all == Least(TotalLimit, total)
      IN  /\ offset \in Nat /\ n \in Nat /\ all \in Nat
          /\ offset < n /\ n <= all /\ all <= TotalLimit
          /\ p + 1 = MaxPages \/ offset + PageSize >= TotalLimit => n = all
          /\ ~(offset + PageSize >= TotalLimit) => n = (p + 1) * PageSize /\ n < TotalLimit
  BY <1>7, <1>8
<1> QED BY <1>9 DEF offset, total

\* What a mirror is asked for has no station twice.
LEMMA WantedDistinct ==
  ASSUME NEW directory \in Directories
  PROVE  /\ Wanted(directory) \in Seq(Listed)
         /\ \A i, j \in DOMAIN Wanted(directory) :
                Wanted(directory)[i].id = Wanted(directory)[j].id => i = j
<1> DEFINE m == Least(Least(TotalLimit, MaxPages * PageSize), Len(directory))
           s == SubSeq(directory, 1, m)
           P == {i \in DOMAIN s : s[i].sound}
<1>1. /\ directory \in Seq(Listed) /\ Len(directory) \in Nat
      /\ DOMAIN directory = 1 .. Len(directory)
      /\ \A i \in 1 .. Len(directory) : directory[i] \in Listed
  BY SourceConstants, LenProperties, ElementOfSeq
<1>2. m \in 0 .. Len(directory)
  <2>1. {PageSize, TotalLimit, MaxPages} \subseteq Nat \ {0}
    BY SourceConstants
  <2>2. MaxPages * PageSize \in Nat
    BY <2>1
  <2> QED BY <1>1, <2>1, <2>2 DEF Least
<1> HIDE DEF m
<1>3. s \in Seq(Listed) /\ Len(s) = m /\ DOMAIN s = 1 .. m /\ \A i \in 1 .. m : s[i] = directory[i]
  <2>1. 1 \in Int /\ m \in Int /\ \A i \in 1 .. m : directory[i] \in Listed
    BY <1>1, <1>2
  <2>2. /\ s \in Seq(Listed) /\ Len(s) = IF 1 <= m THEN m - 1 + 1 ELSE 0
        /\ \A i \in 1 .. m - 1 + 1 : s[i] = directory[1 + i - 1]
    BY <2>1, SubSeqProperties
  <2>3. Len(s) = m /\ \A i \in 1 .. m : s[i] = directory[i]
    BY <1>2, <2>2
  <2> HIDE DEF s
  <2> QED BY <2>2, <2>3, LenProperties
<1>4. Wanted(directory) = Pick(s, P)
  BY DEF Wanted, Normalized, m
<1> HIDE DEF s
<1> DEFINE n == Cardinality(P)
           f == InOrder(P)
<1>5. P \subseteq DOMAIN s
  OBVIOUS
<1> HIDE DEF P
<1>6. /\ n \in Nat /\ f \in [1 .. n -> P]
      /\ \A i, j \in 1 .. n : i < j => f[i] < f[j]
      /\ Pick(s, P) \in Seq(Listed) /\ DOMAIN Pick(s, P) = 1 .. n
      /\ \A i \in 1 .. n : Pick(s, P)[i] = s[f[i]]
  BY <1>3, <1>5, PickIs
<1> HIDE DEF n, f
<1>7. ASSUME NEW i \in 1 .. n, NEW j \in 1 .. n, Pick(s, P)[i].id = Pick(s, P)[j].id
      PROVE  i = j
  <2>1. f[i] \in 1 .. m /\ f[j] \in 1 .. m
    BY <1>3, <1>5, <1>6
  <2>2. f[i] \in DOMAIN directory /\ f[j] \in DOMAIN directory
    BY <1>1, <1>2, <2>1
  <2>3. directory[f[i]].id = directory[f[j]].id
    BY <1>3, <1>6, <1>7, <2>1
  <2>4. f[i] = f[j]
    BY <2>2, <2>3, SourceConstants
  <2>5. ~(i < j) /\ ~(j < i)
    BY <1>2, <1>6, <2>1, <2>4
  <2> QED BY <1>6, <2>5
<1> QED BY <1>4, <1>6, <1>7

\* There always is a host to ask.
LEMMA HostIs ==
  ASSUME SourceTypes
  PROVE  Host \in DOMAIN HostPool /\ (cursor + 1) % Len(HostPool) \in Nat
<1>1. Len(HostPool) \in Nat \ {0} /\ DOMAIN HostPool = 1 .. Len(HostPool)
  BY SourceConstants, LenProperties, EmptySeq
<1>2. \A a \in Nat, n \in Nat \ {0} : a % n \in 0 .. n - 1
  BY SMT
<1>3. refresh.host + refresh.tried \in Nat /\ cursor + 1 \in Nat
  BY DEF SourceTypes, Refreshes
<1>4. /\ (refresh.host + refresh.tried) % Len(HostPool) \in 0 .. Len(HostPool) - 1
      /\ (cursor + 1) % Len(HostPool) \in 0 .. Len(HostPool) - 1
  BY <1>1, <1>2, <1>3
<1> DEFINE r == (refresh.host + refresh.tried) % Len(HostPool)
<1>5. Host = r + 1
  BY DEF Host
<1> HIDE DEF r
<1>6. r + 1 \in 1 .. Len(HostPool)
  BY <1>1, <1>4 DEF r
<1> QED BY <1>1, <1>4, <1>5, <1>6

\* Between two refreshes.
LEMMA IdleIs == Idle \in Refreshes /\ Idle.pc = "idle" /\ Idle.outcomes = << >>
                /\ Idle.now = 0 /\ \A u \in Urls : Idle.rows[u] = Nothing
<1>1. << >> \in Seq(Listed) /\ << >> \in Seq(Outcomes)
  BY EmptySeq
<1> QED BY <1>1 DEF Idle, Refreshes, NoRows

\* What Finish leaves of the refresh.
LEMMA CollectIs ==
  ASSUME SourceTypes, refresh.pc = "validate", NEW o \in Outcomes, Collect(o)
  PROVE  /\ refresh' \in Refreshes
         /\ refresh'.outcomes = Append(refresh.outcomes, o)
         /\ refresh'.listing = refresh.listing /\ refresh'.offered = refresh.offered
         /\ refresh'.now = refresh.now
         /\ refresh'.pc \in {"validate", "write"}
         /\ refresh'.pc = "write" => Len(refresh'.outcomes) = Len(refresh.listing)
         /\ \A u \in Urls : refresh'.rows[u] # Nothing => refresh'.rows[u] = refresh.rows[u]
<1>1. Append(refresh.outcomes, o) \in Seq(Outcomes)
  BY AppendProperties DEF SourceTypes, Refreshes
<1> DEFINE outcomes == Append(refresh.outcomes, o)
           label == IF Len(outcomes) = Len(refresh.listing) THEN "write" ELSE refresh.pc
           rows == IF Len(outcomes) = Len(refresh.listing) THEN NoRows ELSE refresh.rows
<1>2. refresh' = [refresh EXCEPT !.outcomes = outcomes, !.pc = label, !.rows = rows]
  BY DEF Collect
<1>3. rows \in [Urls -> Verdicts \cup {Nothing}]
  BY DEF SourceTypes, Refreshes, NoRows
<1>4. \A u \in Urls : rows[u] # Nothing => rows[u] = refresh.rows[u]
  BY DEF NoRows
<1>5. label \in {"validate", "write"} /\ (label = "write" => Len(outcomes) = Len(refresh.listing))
  OBVIOUS
<1> HIDE DEF rows, label, outcomes
<1>6. outcomes \in Seq(Outcomes)
  BY <1>1 DEF outcomes
<1> QED BY <1>2, <1>3, <1>4, <1>5, <1>6 DEF SourceTypes, Refreshes, outcomes

\* The station and its loaded verdict that a task has in hand.
LEMMA InHandIs ==
  ASSUME SourceTypes, NEW i \in 1 .. TotalLimit, InHand(i)
  PROVE  /\ i \in Nat /\ i \in DOMAIN refresh.listing
         /\ refresh.listing[i] \in Listed
         /\ refresh.listing[i].url \in Urls /\ refresh.listing[i].id \in {entry.id : entry \in Listed}
         /\ refresh.rows[refresh.listing[i].url] \in Verdicts \cup {Nothing}
         /\ \A k \in DOMAIN refresh.outcomes : refresh.outcomes[k].index # i
<1>1. refresh.listing \in Seq(Listed)
  BY DEF SourceTypes, Refreshes
<1>2. i \in DOMAIN refresh.listing /\ \A k \in DOMAIN refresh.outcomes : refresh.outcomes[k].index # i
  BY DEF InHand
<1>3. refresh.listing[i] \in Listed
  BY <1>1, <1>2, LenProperties, ElementOfSeq
<1>4. refresh.listing[i].url \in Urls
  BY <1>3, SourceConstants
<1> QED BY <1>2, <1>3, <1>4 DEF SourceTypes, Refreshes

\* What each of the three ways to be done with a station adds.
RecallOutcome(i) ==
    LET station == refresh.listing[i]
        entry == refresh.rows[station.url]
    IN  Outcome(i, IF entry.ok THEN Applied(entry, station) ELSE Nothing, Nothing, Nothing)

HearOutcome(i) ==
    LET station == refresh.listing[i]
        final == stream[station.url]
        entry == Verdict(TRUE, final, station)
    IN  Outcome(i, Applied(entry, station), final, entry)

RefuseOutcome(i) ==
    LET station == refresh.listing[i]
    IN  Outcome(i, Nothing, station.url, Verdict(FALSE, Nothing, station))

\* A verdict says what it was made of, and when.
LEMMA VerdictIs ==
  ASSUME SourceTypes, NEW ok \in BOOLEAN, NEW final \in Urls \cup {Nothing}, NEW station \in Listed
  PROVE  LET v == Verdict(ok, final, station)
         IN  /\ v \in Verdicts /\ v.ok = ok /\ v.final = final /\ v.at = clock
             /\ v.ttl = IF ok THEN Ttl ELSE FailureTtl
<1>1. Ttl \in Nat /\ FailureTtl \in Nat
  BY SourceConstants
<1> QED BY <1>1 DEF Verdict, Verdicts, SourceTypes

\* An outcome has the parts it was made of.
LEMMA OutcomeIs ==
  ASSUME NEW i \in Nat, NEW station \in Offers \cup {Nothing},
         NEW key \in Urls \cup {Nothing}, NEW entry \in Verdicts \cup {Nothing},
         key # Nothing => entry \in Verdicts
  PROVE  LET o == Outcome(i, station, key, entry)
         IN  o \in Outcomes /\ o.index = i /\ o.station = station /\ o.key = key /\ o.entry = entry
BY DEF Outcome, Outcomes

\* Each of them is an outcome.
LEMMA OutcomesAre ==
  ASSUME SourceTypes, NEW i \in 1 .. TotalLimit, InHand(i)
  PROVE  /\ IsValid(refresh.rows[refresh.listing[i].url], refresh.listing[i]) => RecallOutcome(i) \in Outcomes
         /\ stream[refresh.listing[i].url] \in Public => HearOutcome(i) \in Outcomes
         /\ RefuseOutcome(i) \in Outcomes
<1> DEFINE station == refresh.listing[i]
           entry == refresh.rows[station.url]
           final == stream[station.url]
<1>1. /\ i \in Nat /\ station \in Listed /\ station.url \in Urls
      /\ station.id \in {e.id : e \in Listed}
      /\ entry \in Verdicts \cup {Nothing}
  BY InHandIs
<1>2. RefuseOutcome(i) = Outcome(i, Nothing, station.url, Verdict(FALSE, Nothing, station))
  BY DEF RefuseOutcome
<1>3. HearOutcome(i) = Outcome(i, Applied(Verdict(TRUE, final, station), station), final, Verdict(TRUE, final, station))
  BY DEF HearOutcome
<1>4. RecallOutcome(i) = Outcome(i, IF entry.ok THEN Applied(entry, station) ELSE Nothing, Nothing, Nothing)
  BY DEF RecallOutcome
<1>5. IsValid(entry, station) => entry \in Verdicts
  BY <1>1 DEF IsValid
<1> HIDE DEF station, entry, final
<1>6. ASSUME NEW v \in Verdicts PROVE Applied(v, station) \in Offers
  <2>1. v.final \in Urls \cup {Nothing}
    BY DEF Verdicts
  <2> QED BY <1>1, <2>1 DEF Applied, Offers
<1>7. IsValid(entry, station) => RecallOutcome(i) \in Outcomes
  <2> SUFFICES ASSUME IsValid(entry, station) PROVE RecallOutcome(i) \in Outcomes
    OBVIOUS
  <2> DEFINE kept == IF entry.ok THEN Applied(entry, station) ELSE Nothing
  <2>1. kept \in Offers \cup {Nothing}
    BY <1>5, <1>6
  <2>2. Nothing \in Urls \cup {Nothing} /\ Nothing \in Verdicts \cup {Nothing}
    OBVIOUS
  <2>3. RecallOutcome(i) = Outcome(i, kept, Nothing, Nothing)
    BY <1>4
  <2> HIDE DEF kept
  <2>4. Outcome(i, kept, Nothing, Nothing) \in Outcomes
    BY <1>1, <2>1, <2>2, OutcomeIs, Zenon
  <2> QED BY <2>3, <2>4
<1>8. final \in Public => HearOutcome(i) \in Outcomes
  <2> SUFFICES ASSUME final \in Public PROVE HearOutcome(i) \in Outcomes
    OBVIOUS
  <2>1. final \in Urls
    BY SourceConstants
  <2>2. Verdict(TRUE, final, station) \in Verdicts
    BY <1>1, <2>1, VerdictIs
  <2>3. Applied(Verdict(TRUE, final, station), station) \in Offers
    BY <1>6, <2>2
  <2> DEFINE v == Verdict(TRUE, final, station)
             kept == Applied(v, station)
  <2>4. /\ v \in Verdicts /\ kept \in Offers \cup {Nothing} /\ final \in Urls \cup {Nothing}
        /\ v \in Verdicts \cup {Nothing}
    BY <2>1, <2>2, <2>3
  <2>5. HearOutcome(i) = Outcome(i, kept, final, v)
    BY <1>3
  <2> HIDE DEF kept, v
  <2>6. Outcome(i, kept, final, v) \in Outcomes
    BY <1>1, <2>4, OutcomeIs, Zenon
  <2> QED BY <2>5, <2>6
<1>9. RefuseOutcome(i) \in Outcomes
  <2>1. Verdict(FALSE, Nothing, station) \in Verdicts
    BY <1>1, VerdictIs
  <2>2. Nothing \in Offers \cup {Nothing} /\ station.url \in Urls \cup {Nothing}
        /\ Verdict(FALSE, Nothing, station) \in Verdicts \cup {Nothing}
    BY <1>1, <2>1
  <2>3. Outcome(i, Nothing, station.url, Verdict(FALSE, Nothing, station)) \in Outcomes
    BY <1>1, <2>1, <2>2, OutcomeIs, Zenon
  <2> QED BY <1>2, <2>3
<1> QED BY <1>7, <1>8, <1>9 DEF station, entry, final

\* A URL keeps its verdict or has the one of an outcome under it.
LEMMA WrittenIs ==
  ASSUME SourceTypes, NEW u \in Urls
  PROVE  /\ DOMAIN Written = Urls
         /\ \/ Written[u] = cache[u]
            \/ \E k \in DOMAIN refresh.outcomes :
                   LET o == refresh.outcomes[k]
                   IN  o.key = u /\ Written[u] = [o.entry EXCEPT !.expires = clock + o.entry.ttl]
<1>1. CASE Updates(u) = {}
  BY <1>1 DEF Written
<1>2. CASE Updates(u) # {}
  <2> DEFINE last == CHOOSE k \in Updates(u) : \A j \in Updates(u) : j <= k
             o == refresh.outcomes[last]
  <2>1. \E k \in Updates(u) : \A j \in Updates(u) : j <= k
    <3>1. /\ DOMAIN refresh.outcomes = 1 .. Len(refresh.outcomes)
          /\ Len(refresh.outcomes) \in Nat
      BY LenProperties DEF SourceTypes, Refreshes
    <3>2. Updates(u) \subseteq 1 .. Len(refresh.outcomes)
      BY <3>1 DEF Updates
    <3> QED BY <1>2, <3>1, <3>2, GreatestBelow
  <2>2. last \in Updates(u)
    BY <2>1
  <2>3. last \in DOMAIN refresh.outcomes /\ o.key = u
    BY <2>2 DEF Updates
  <2>4. Written[u] = [o.entry EXCEPT !.expires = clock + o.entry.ttl]
    BY <1>2 DEF Written
  <2>5. DOMAIN Written = Urls
    BY DEF Written
  <2> HIDE DEF last
  <2> QED BY <2>3, <2>4, <2>5
<1> QED BY <1>1, <1>2

-----------------------------------------------------------------------------

\* The next host begins with nothing.
LEMMA NextHostIs ==
  ASSUME SourceTypes, NextHost
  PROVE  \/ refresh' = Idle
         \/ /\ refresh' \in Refreshes
            /\ refresh'.pc = refresh.pc /\ refresh'.page = 0 /\ refresh'.listing = << >>
            /\ refresh'.offered = refresh.offered /\ refresh'.rows = refresh.rows
            /\ refresh'.now = refresh.now /\ refresh'.outcomes = refresh.outcomes
<1>1. << >> \in Seq(Listed)
  BY EmptySeq
<1>2. CASE refresh.tried + 1 = Len(HostPool)
  BY <1>2 DEF NextHost
<1>3. CASE refresh.tried + 1 # Len(HostPool)
  <2>1. refresh' = [refresh EXCEPT !.tried = refresh.tried + 1, !.page = 0, !.listing = << >>]
    BY <1>3 DEF NextHost
  <2>2. refresh.tried + 1 \in Nat /\ refresh \in Refreshes
    BY DEF SourceTypes, Refreshes
  <2> QED BY <1>1, <2>1, <2>2 DEF Refreshes
<1> QED BY <1>2, <1>3

\* What the page asked for brings, and the listing with it.
PageOffset == refresh.page * PageSize
PageRaw ==
    SubSeq(mirror[Host], PageOffset + 1,
           Least(PageOffset + Least(PageSize, TotalLimit - PageOffset), Len(mirror[Host])))
PageListing == refresh.listing \o Normalized(PageRaw)
PageOver ==
    \/ PageRaw = << >> \/ Len(PageListing) >= TotalLimit
    \/ refresh.page + 1 = MaxPages \/ PageOffset + PageSize >= TotalLimit

\* A page is a list of entries, and the listing remains one.
LEMMA PageTypes ==
  ASSUME SourceTypes
  PROVE  /\ mirror[Host] \in Directories /\ mirror[Host] \in Seq(Listed)
         /\ PageRaw \in Seq(Listed) /\ PageListing \in Seq(Listed)
<1> DEFINE s == mirror[Host]
           a == PageOffset + 1
           b == Least(PageOffset + Least(PageSize, TotalLimit - PageOffset), Len(s))
<1>1. s \in Directories /\ s \in Seq(Listed)
  <2>1. s \in Directories
    BY HostIs DEF SourceTypes, Mirrors
  <2> QED BY <2>1, SourceConstants
<1> HIDE DEF s
<1>2. Len(s) \in Nat /\ \A i \in 1 .. Len(s) : s[i] \in Listed
  BY <1>1, LenProperties, ElementOfSeq
<1>3. {PageSize, TotalLimit} \subseteq Nat
  BY SourceConstants
<1>4. PageOffset \in Nat
  <2>1. refresh.page \in Nat
    BY DEF SourceTypes, Refreshes
  <2> QED BY <1>3, <2>1 DEF PageOffset
<1>5. a \in Int /\ a >= 1 /\ b \in Int /\ b <= Len(s)
  BY <1>2, <1>3, <1>4 DEF Least
<1> HIDE DEF a, b
<1>6. \A i \in a .. b : s[i] \in Listed
  BY <1>2, <1>5
<1>7. SubSeq(s, a, b) \in Seq(Listed)
  BY <1>5, <1>6, SubSeqProperties
<1>8. PageRaw \in Seq(Listed)
  BY <1>7 DEF PageRaw, a, b, s
<1>9. PageListing \in Seq(Listed)
  <2>1. refresh.listing \in Seq(Listed) /\ Normalized(PageRaw) \in Seq(Listed)
    BY <1>8, NormalizedIs DEF SourceTypes, Refreshes
  <2> QED BY <2>1, ConcatProperties DEF PageListing
<1> QED BY <1>1, <1>8, <1>9 DEF s

\* A page is the last of a host that has failed, the last of all, or one more.
LEMMA PageIs ==
  ASSUME SourceTypes, Page
  PROVE  /\ refresh.pc = "fetch"
         /\ \/ NextHost
            \/ /\ refresh' \in Refreshes /\ refresh'.listing = PageListing
               /\ refresh'.pc = IF PageOver THEN "load" ELSE "fetch"
               /\ refresh'.page = IF PageOver THEN refresh.page ELSE refresh.page + 1
               /\ refresh'.host = refresh.host /\ refresh'.tried = refresh.tried
               /\ refresh'.offered = refresh.offered /\ refresh'.rows = refresh.rows
               /\ refresh'.now = refresh.now /\ refresh'.outcomes = refresh.outcomes
         /\ UNCHANGED <<clock, cursor, cache, stored, begun, worldVars, historyVars>>
<1>1. /\ refresh.pc = "fetch"
      /\ IF PageOver /\ PageListing = << >> THEN NextHost
         ELSE refresh' = [refresh EXCEPT !.listing = PageListing,
                                         !.pc = IF PageOver THEN "load" ELSE "fetch",
                                         !.page = IF PageOver THEN @ ELSE @ + 1]
      /\ UNCHANGED <<clock, cursor, cache, stored, begun, worldVars, historyVars>>
  BY DEF Page, PageOver, PageListing, PageRaw, PageOffset
<1>2. CASE PageOver /\ PageListing = << >>
  BY <1>1, <1>2
<1>3. CASE ~(PageOver /\ PageListing = << >>)
  <2> DEFINE label == IF PageOver THEN "load" ELSE "fetch"
             page == IF PageOver THEN refresh.page ELSE refresh.page + 1
  <2>1. refresh' = [refresh EXCEPT !.listing = PageListing, !.pc = label, !.page = page]
    BY <1>1, <1>3
  <2>2. refresh \in Refreshes /\ page \in Nat /\ label \in {"load", "fetch"}
    BY DEF SourceTypes, Refreshes
  <2>3. PageListing \in Seq(Listed)
    BY PageTypes
  <2> HIDE DEF label, page
  <2>4. /\ refresh' \in Refreshes /\ refresh'.listing = PageListing
        /\ refresh'.pc = label /\ refresh'.page = page
        /\ refresh'.host = refresh.host /\ refresh'.tried = refresh.tried
        /\ refresh'.offered = refresh.offered /\ refresh'.rows = refresh.rows
        /\ refresh'.now = refresh.now /\ refresh'.outcomes = refresh.outcomes
    BY <2>1, <2>2, <2>3 DEF Refreshes
  <2> QED BY <1>1, <2>4 DEF label, page
<1> QED BY <1>2, <1>3

\* The types hold, and every step keeps them.
LEMMA SourceTypesInit == SourceInit => SourceTypes
BY IdleIs DEF SourceInit, SourceTypes, Mirrors

LEMMA SourceTypesStep ==
  ASSUME SourceTypes, [SourceNext]_sourceVars
  PROVE  SourceTypes'
<1> USE DEF SourceTypes, worldVars, historyVars
<1>1. CASE BeginFetch
  <2>1. cursor' \in Nat
    BY <1>1, HostIs DEF BeginFetch
  <2> QED BY <1>1, <2>1, IdleIs DEF BeginFetch, Refreshes
<1>2. CASE RecordClick
  BY <1>2, HostIs DEF RecordClick
<1>3. CASE Page
  <2>1. refresh' \in Refreshes
    BY <1>3, PageIs, NextHostIs, IdleIs
  <2> QED BY <1>3, <2>1, PageIs
<1>4. CASE HostFails
  <2>1. refresh' \in Refreshes
    BY <1>4, NextHostIs, IdleIs DEF HostFails
  <2> QED BY <1>4, <2>1 DEF HostFails
<1>5. CASE Load
  <2>1. refresh' \in Refreshes
    <3> DEFINE rows == [u \in Urls |-> IF cache[u] # Nothing /\ cache[u].expires > clock
                                 /\ \E i \in DOMAIN refresh.listing : refresh.listing[i].url = u
                              THEN cache[u] ELSE Nothing]
    <3>1. rows \in [Urls -> Verdicts \cup {Nothing}]
      OBVIOUS
    <3>2. refresh' = [refresh EXCEPT !.pc = "now", !.rows = rows]
      BY <1>5 DEF Load
    <3> HIDE DEF rows
    <3> QED BY <3>1, <3>2 DEF Refreshes
  <2> QED BY <1>5, <2>1 DEF Load
<1>6. CASE Now
  BY <1>6 DEF Now, Refreshes
<1>7. cache' \in {cache, Written} => cache' \in [Urls -> Verdicts \cup {Nothing}]
  <2> SUFFICES ASSUME cache' = Written PROVE cache' \in [Urls -> Verdicts \cup {Nothing}]
    OBVIOUS
  <2>1. ASSUME NEW u \in Urls PROVE Written[u] \in Verdicts \cup {Nothing}
    <3>1. CASE Written[u] = cache[u]
      BY <3>1
    <3>2. CASE Written[u] # cache[u]
      <4>1. PICK k \in DOMAIN refresh.outcomes :
                 LET o == refresh.outcomes[k]
                 IN  o.key = u /\ Written[u] = [o.entry EXCEPT !.expires = clock + o.entry.ttl]
        BY <3>2, WrittenIs
      <4> DEFINE v == refresh.outcomes[k].entry
      <4>2. refresh.outcomes[k] \in Outcomes
        BY <4>1, LenProperties, ElementOfSeq DEF Refreshes
      <4>3. v \in Verdicts /\ Written[u] = [v EXCEPT !.expires = clock + v.ttl]
        BY <4>1, <4>2, SourceConstants DEF Outcomes
      <4> HIDE DEF v
      <4>4. clock + v.ttl \in Nat
        BY <4>3 DEF Verdicts
      <4> QED BY <4>3, <4>4 DEF Verdicts
    <3> QED BY <3>1, <3>2
  <2>3. Written = [u \in Urls |-> Written[u]]
    BY DEF Written
  <2> QED BY <2>1, <2>3
<1>8. CASE WriteCache
  BY <1>7, <1>8 DEF WriteCache, Refreshes
<1>9. CASE Fail
  BY <1>7, <1>9, IdleIs DEF Fail
<1>10. CASE PersistListing
  BY <1>10, IdleIs DEF PersistListing
<1>11. CASE \E i \in 1 .. TotalLimit : Recall(i) \/ Hear(i) \/ RefuseStream(i)
  <2>1. PICK i \in 1 .. TotalLimit : Recall(i) \/ Hear(i) \/ RefuseStream(i)
    BY <1>11
  <2>2. CASE Recall(i)
    <3>1. PICK o \in Outcomes : o = RecallOutcome(i) /\ Collect(o)
      BY <2>2, OutcomesAre DEF Recall, RecallOutcome
    <3> QED BY <2>2, <3>1, CollectIs DEF Recall
  <2>3. CASE Hear(i)
    <3>1. PICK o \in Outcomes : o = HearOutcome(i) /\ Collect(o)
      BY <2>3, OutcomesAre DEF Hear, HearOutcome
    <3> QED BY <2>3, <3>1, CollectIs DEF Hear
  <2>4. CASE RefuseStream(i)
    <3>1. PICK o \in Outcomes : o = RefuseOutcome(i) /\ Collect(o)
      BY <2>4, OutcomesAre DEF RefuseStream, RefuseOutcome
    <3> QED BY <2>4, <3>1, CollectIs DEF RefuseStream
  <2> QED BY <2>1, <2>2, <2>3, <2>4
<1>12. CASE Change
  BY <1>12 DEF Change, Mirrors, Refreshes
<1>13. CASE Tick
  BY <1>13 DEF Tick
<1>14. CASE UNCHANGED sourceVars
  BY <1>14 DEF sourceVars
<1> QED
  BY <1>1, <1>2, <1>3, <1>4, <1>5, <1>6, <1>8, <1>9, <1>10, <1>11, <1>12, <1>13, <1>14
  DEF SourceNext

-----------------------------------------------------------------------------
(* Verdicts *)

\* A verdict stays true, and a station's fresh, when more is heard and refused.
LEMMA TrueStays ==
  ASSUME NEW h, NEW r, NEW h2, NEW r2,
         h \in [Urls -> Nat], r \in [Urls -> Nat], h2 \in [Urls -> Nat], r2 \in [Urls -> Nat],
         \A u \in Urls : h[u] <= h2[u] /\ r[u] <= r2[u]
  PROVE  /\ \A u \in Urls, v \in Verdicts : TrueOf(u, v, h, r) => TrueOf(u, v, h2, r2)
         /\ \A o \in Outcomes, listing \in Seq(Listed), now \in Nat :
                o.index \in DOMAIN listing /\ FreshOf(o, listing, now, h, r)
                    => FreshOf(o, listing, now, h2, r2)
<1>1. ASSUME NEW u \in Urls, NEW v \in Verdicts, TrueOf(u, v, h, r) PROVE TrueOf(u, v, h2, r2)
  <2>1. v.at \in Nat /\ h[u] \in Nat /\ h2[u] \in Nat /\ r[u] \in Nat /\ r2[u] \in Nat
    BY DEF Verdicts
  <2>2. h[u] <= h2[u] /\ r[u] <= r2[u]
    OBVIOUS
  <2> QED BY <1>1, <2>1, <2>2 DEF TrueOf
<1>2. ASSUME NEW o \in Outcomes, NEW listing \in Seq(Listed), NEW now \in Nat,
             o.index \in DOMAIN listing, FreshOf(o, listing, now, h, r)
      PROVE  FreshOf(o, listing, now, h2, r2)
  <2>1. Ttl \in Nat /\ FailureTtl \in Nat
    BY SourceConstants
  <2>2. CASE o.station # Nothing
    <3> DEFINE u == o.station.url
    <3>1. u \in Urls
      BY <2>2 DEF Outcomes, Offers
    <3>2. h[u] > 0 /\ h[u] + Ttl >= now /\ u \in Public
      BY <1>2, <2>2 DEF FreshOf
    <3> HIDE DEF u
    <3>3. h2[u] > 0 /\ h2[u] + Ttl >= now
      <4>1. h[u] \in Nat /\ h2[u] \in Nat /\ h[u] <= h2[u]
        BY <3>1
      <4> QED BY <2>1, <3>2, <4>1
    <3> QED BY <2>2, <3>2, <3>3 DEF FreshOf, u
  <2>3. CASE o.station = Nothing
    <3> DEFINE u == listing[o.index].url
    <3>1. u \in Urls
      <4>1. listing[o.index] \in Listed
        BY <1>2, LenProperties, ElementOfSeq
      <4> QED BY <4>1, SourceConstants
    <3>2. r[u] > 0 /\ r[u] + FailureTtl >= now
      BY <1>2, <2>3 DEF FreshOf
    <3> HIDE DEF u
    <3>3. r2[u] > 0 /\ r2[u] + FailureTtl >= now
      <4>1. r[u] \in Nat /\ r2[u] \in Nat /\ r[u] <= r2[u]
        BY <3>1
      <4> QED BY <2>1, <3>2, <4>1
    <3> QED BY <2>3, <3>3 DEF FreshOf, u
  <2> QED BY <2>2, <2>3
<1> QED BY <1>1, <1>2

\* The outcomes of a refresh, one by one.
LEMMA EachOutcome ==
  ASSUME SourceTypes
  PROVE  /\ Len(refresh.outcomes) \in Nat /\ DOMAIN refresh.outcomes = 1 .. Len(refresh.outcomes)
         /\ \A k \in DOMAIN refresh.outcomes : refresh.outcomes[k] \in Outcomes
BY LenProperties, ElementOfSeq DEF SourceTypes, Refreshes

\* A further outcome leaves the invariant if it is itself fresh and true.
LEMMA CollectVerdict ==
  ASSUME SourceTypes, SourceTypes', VerdictInv, refresh.pc = "validate",
         NEW o \in Outcomes, Collect(o), o.index \in DOMAIN refresh.listing,
         UNCHANGED <<clock, cache>>,
         \A u \in Urls : heard[u] <= heard'[u] /\ refused[u] <= refused'[u],
         \A u \in Urls : heard'[u] <= clock /\ refused'[u] <= clock,
         o.key # Nothing => TrueOf(o.key, o.entry, heard', refused'),
         FreshOf(o, refresh.listing, refresh.now, heard', refused')
  PROVE  VerdictInv'
<1>1. /\ \A u \in Urls, v \in Verdicts :
             TrueOf(u, v, heard, refused) => TrueOf(u, v, heard', refused')
      /\ \A p \in Outcomes, listing \in Seq(Listed), now \in Nat :
             p.index \in DOMAIN listing /\ FreshOf(p, listing, now, heard, refused)
                 => FreshOf(p, listing, now, heard', refused')
  <2>1. /\ heard \in [Urls -> Nat] /\ refused \in [Urls -> Nat]
        /\ heard' \in [Urls -> Nat] /\ refused' \in [Urls -> Nat]
    BY DEF SourceTypes
  <2> QED BY <2>1, TrueStays
<1>2. /\ refresh'.outcomes = Append(refresh.outcomes, o)
      /\ refresh'.listing = refresh.listing /\ refresh'.now = refresh.now
      /\ refresh'.pc \in {"validate", "write"}
      /\ \A u \in Urls : refresh'.rows[u] # Nothing => refresh'.rows[u] = refresh.rows[u]
  BY CollectIs
<1>3. /\ refresh.listing \in Seq(Listed) /\ refresh.now \in Nat
      /\ refresh.outcomes \in Seq(Outcomes)
      /\ cache \in [Urls -> Verdicts \cup {Nothing}]
      /\ refresh.rows \in [Urls -> Verdicts \cup {Nothing}]
  BY DEF SourceTypes, Refreshes
<1>4. \A u \in Urls : cache'[u] # Nothing => TrueOf(u, cache'[u], heard', refused')
  BY <1>1, <1>3 DEF VerdictInv
<1>5. \A u \in Urls : refresh'.rows[u] # Nothing => TrueOf(u, refresh'.rows[u], heard', refused')
  BY <1>1, <1>2, <1>3 DEF VerdictInv
<1>6. ASSUME NEW k \in DOMAIN refresh'.outcomes
      PROVE  LET p == refresh'.outcomes[k]
             IN  /\ p.index \in DOMAIN refresh.listing
                 /\ p.key # Nothing => TrueOf(p.key, p.entry, heard', refused')
                 /\ FreshOf(p, refresh.listing, refresh.now, heard', refused')
  <2>1. /\ Len(refresh.outcomes) \in Nat /\ DOMAIN refresh.outcomes = 1 .. Len(refresh.outcomes)
        /\ DOMAIN refresh'.outcomes = 1 .. Len(refresh.outcomes) + 1
        /\ \A j \in 1 .. Len(refresh.outcomes) : refresh'.outcomes[j] = refresh.outcomes[j]
        /\ refresh'.outcomes[Len(refresh.outcomes) + 1] = o
    BY <1>2, <1>3, AppendProperties, LenProperties
  <2>2. CASE k = Len(refresh.outcomes) + 1
    BY <2>1, <2>2
  <2>3. CASE k # Len(refresh.outcomes) + 1
    <3>1. k \in DOMAIN refresh.outcomes /\ refresh'.outcomes[k] = refresh.outcomes[k]
      BY <2>1, <2>3
    <3> DEFINE p == refresh.outcomes[k]
    <3>2. /\ p \in Outcomes /\ p.index \in DOMAIN refresh.listing
          /\ p.key # Nothing => TrueOf(p.key, p.entry, heard, refused)
          /\ FreshOf(p, refresh.listing, refresh.now, heard, refused)
      BY <3>1, EachOutcome DEF VerdictInv
    <3> HIDE DEF p
    <3>3. p.key # Nothing => TrueOf(p.key, p.entry, heard', refused')
      <4>1. p.key # Nothing => p.key \in Urls /\ p.entry \in Verdicts
        BY <3>2 DEF Outcomes
      <4> QED BY <1>1, <3>2, <4>1
    <3>4. FreshOf(p, refresh.listing, refresh.now, heard', refused')
      BY <1>1, <1>3, <3>2
    <3> QED BY <3>1, <3>2, <3>3, <3>4 DEF p
  <2> QED BY <2>2, <2>3
<1>7. refresh'.now <= clock'
  BY <1>2 DEF VerdictInv
<1> QED BY <1>2, <1>4, <1>5, <1>6, <1>7 DEF VerdictInv

\* What is stored is still true after the verdicts of this refresh.
LEMMA WrittenTrue ==
  ASSUME SourceTypes, VerdictInv, NEW u \in Urls, Written[u] # Nothing
  PROVE  TrueOf(u, Written[u], heard, refused)
<1>1. CASE Written[u] = cache[u]
  BY <1>1 DEF VerdictInv
<1>2. CASE Written[u] # cache[u]
  <2>1. PICK k \in DOMAIN refresh.outcomes :
             LET o == refresh.outcomes[k]
             IN  o.key = u /\ Written[u] = [o.entry EXCEPT !.expires = clock + o.entry.ttl]
    BY <1>2, WrittenIs
  <2> DEFINE v == refresh.outcomes[k].entry
  <2>2. TrueOf(u, v, heard, refused) /\ v \in Verdicts
    BY <2>1, EachOutcome, SourceConstants DEF VerdictInv, Outcomes
  <2>3. Written[u] = [v EXCEPT !.expires = clock + v.ttl]
    BY <2>1
  <2> HIDE DEF v
  <2>4. /\ Written[u].ok = v.ok /\ Written[u].final = v.final
        /\ Written[u].at = v.at /\ Written[u].ttl = v.ttl
    BY <2>2, <2>3 DEF Verdicts
  <2> QED BY <2>2, <2>4 DEF TrueOf
<1> QED BY <1>1, <1>2

\* A station's verdict that was loaded is fresh when it is valid.
LEMMA RecallFresh ==
  ASSUME SourceTypes, VerdictInv, NEW i \in 1 .. TotalLimit, InHand(i),
         IsValid(refresh.rows[refresh.listing[i].url], refresh.listing[i])
  PROVE  LET o == RecallOutcome(i)
         IN  o.index = i /\ o.key = Nothing /\ FreshOf(o, refresh.listing, refresh.now, heard, refused)
<1> DEFINE station == refresh.listing[i]
           u == station.url
           entry == refresh.rows[u]
           kept == IF entry.ok THEN Applied(entry, station) ELSE Nothing
<1>1. u \in Urls /\ entry \in Verdicts /\ entry # Nothing /\ station.id \in {e.id : e \in Listed}
  BY InHandIs DEF IsValid
<1>2. TrueOf(u, entry, heard, refused) /\ refresh.now <= entry.at + entry.ttl
  BY <1>1 DEF VerdictInv, IsValid
<1>3. refresh.listing[i].url = u
  OBVIOUS
<1>4. RecallOutcome(i) = Outcome(i, kept, Nothing, Nothing)
  BY DEF RecallOutcome
<1>5. Applied(entry, station) = [id |-> station.id, url |-> IF entry.final = Nothing THEN u ELSE entry.final]
  BY DEF Applied
<1> HIDE DEF entry, station, u
<1>6. /\ refresh.now \in Nat /\ Ttl \in Nat /\ FailureTtl \in Nat
      /\ heard[u] \in Nat /\ refused[u] \in Nat /\ entry.at \in Nat
  BY <1>1, SourceConstants DEF SourceTypes, Refreshes, Verdicts
<1>7. CASE entry.ok
  <2>1. kept = [id |-> station.id, url |-> u] /\ kept \in Offers
    BY <1>1, <1>2, <1>5, <1>7, SourceConstants DEF TrueOf, Offers
  <2>2. kept # Nothing /\ kept.url = u
    BY <2>1, SourceConstants
  <2>3. u \in Public /\ entry.at > 0 /\ entry.at <= heard[u] /\ refresh.now <= entry.at + Ttl
    BY <1>2, <1>7 DEF TrueOf
  <2>4. heard[u] > 0 /\ heard[u] + Ttl >= refresh.now
    BY <1>6, <2>3
  <2> HIDE DEF kept
  <2> QED BY <1>4, <2>2, <2>3, <2>4 DEF FreshOf, Outcome
<1>8. CASE ~entry.ok
  <2>1. kept = Nothing
    BY <1>8
  <2>2. entry.at > 0 /\ entry.at <= refused[u] /\ refresh.now <= entry.at + FailureTtl
    BY <1>2, <1>8 DEF TrueOf
  <2>3. refused[u] > 0 /\ refused[u] + FailureTtl >= refresh.now
    BY <1>6, <2>2
  <2> QED BY <1>3, <1>4, <2>1, <2>3 DEF FreshOf, Outcome
<1> QED BY <1>7, <1>8

\* A stream that is heard is fresh, and so is one that is refused.
LEMMA HearFresh ==
  ASSUME SourceTypes, VerdictInv, NEW i \in 1 .. TotalLimit, InHand(i),
         stream[refresh.listing[i].url] \in Public,
         NEW lastHeard, lastHeard = [heard EXCEPT ![stream[refresh.listing[i].url]] = clock]
  PROVE  LET o == HearOutcome(i)
         IN  /\ o.index = i
             /\ o.key # Nothing => TrueOf(o.key, o.entry, lastHeard, refused)
             /\ FreshOf(o, refresh.listing, refresh.now, lastHeard, refused)
             /\ \A u \in Urls : heard[u] <= lastHeard[u] /\ lastHeard[u] <= clock
<1> DEFINE station == refresh.listing[i]
           final == stream[station.url]
           v == Verdict(TRUE, final, station)
<1>1. /\ station \in Listed /\ station.id \in {e.id : e \in Listed}
      /\ final \in Public /\ final \in Urls /\ final # Nothing
      /\ lastHeard = [heard EXCEPT ![final] = clock]
  BY InHandIs, SourceConstants
<1>2. HearOutcome(i) = Outcome(i, Applied(v, station), final, v)
  BY DEF HearOutcome
<1> HIDE DEF station, final
<1>3. v.ok /\ v.final = final /\ v.at = clock /\ v.ttl = Ttl
  BY DEF Verdict
<1> HIDE DEF v
<1>4. Applied(v, station) = [id |-> station.id, url |-> final]
  BY <1>1, <1>3 DEF Applied
<1>5. Applied(v, station) # Nothing /\ Applied(v, station).url = final
  BY <1>1, <1>4, SourceConstants DEF Offers
<1>6. /\ clock \in Nat /\ clock > 0 /\ refresh.now \in Nat /\ refresh.now <= clock
      /\ heard \in [Urls -> Nat] /\ Ttl \in Nat
  BY SourceConstants DEF SourceTypes, Refreshes, VerdictInv
<1>7. lastHeard[final] = clock /\ \A u \in Urls : u # final => lastHeard[u] = heard[u]
  BY <1>1, <1>6
<1>8. TrueOf(final, v, lastHeard, refused)
  BY <1>1, <1>3, <1>6, <1>7 DEF TrueOf
<1>9. FreshOf(HearOutcome(i), refresh.listing, refresh.now, lastHeard, refused)
  <2>1. HearOutcome(i).station = Applied(v, station)
    BY <1>2 DEF Outcome
  <2> QED BY <1>1, <1>5, <1>6, <1>7, <2>1 DEF FreshOf
<1>10. \A u \in Urls : heard[u] <= lastHeard[u] /\ lastHeard[u] <= clock
  BY <1>6, <1>7 DEF VerdictInv
<1>11. HearOutcome(i).index = i /\ HearOutcome(i).key = final /\ HearOutcome(i).entry = v
  BY <1>2 DEF Outcome
<1> QED BY <1>8, <1>9, <1>10, <1>11

LEMMA RefuseFresh ==
  ASSUME SourceTypes, VerdictInv, NEW i \in 1 .. TotalLimit, InHand(i),
         NEW lastRefused, lastRefused = [refused EXCEPT ![refresh.listing[i].url] = clock]
  PROVE  LET o == RefuseOutcome(i)
         IN  /\ o.index = i
             /\ o.key # Nothing => TrueOf(o.key, o.entry, heard, lastRefused)
             /\ FreshOf(o, refresh.listing, refresh.now, heard, lastRefused)
             /\ \A u \in Urls : refused[u] <= lastRefused[u] /\ lastRefused[u] <= clock
<1> DEFINE station == refresh.listing[i]
           url == station.url
           v == Verdict(FALSE, Nothing, station)
<1>1. /\ station \in Listed /\ url \in Urls
      /\ lastRefused = [refused EXCEPT ![url] = clock] /\ refresh.listing[i].url = url
  BY InHandIs
<1>2. RefuseOutcome(i) = Outcome(i, Nothing, url, v)
  BY DEF RefuseOutcome
<1> HIDE DEF station, url
<1>3. ~v.ok /\ v.final = Nothing /\ v.at = clock /\ v.ttl = FailureTtl
  BY DEF Verdict
<1> HIDE DEF v
<1>4. /\ clock \in Nat /\ clock > 0 /\ refresh.now \in Nat /\ refresh.now <= clock
      /\ refused \in [Urls -> Nat] /\ FailureTtl \in Nat
  BY SourceConstants DEF SourceTypes, Refreshes, VerdictInv
<1>5. lastRefused[url] = clock /\ \A u \in Urls : u # url => lastRefused[u] = refused[u]
  BY <1>1, <1>4
<1>6. TrueOf(url, v, heard, lastRefused)
  BY <1>1, <1>3, <1>4, <1>5 DEF TrueOf
<1>7. /\ RefuseOutcome(i).index = i /\ RefuseOutcome(i).station = Nothing
      /\ RefuseOutcome(i).key = url /\ RefuseOutcome(i).entry = v
  BY <1>2 DEF Outcome
<1>8. FreshOf(RefuseOutcome(i), refresh.listing, refresh.now, heard, lastRefused)
  BY <1>1, <1>4, <1>5, <1>7 DEF FreshOf
<1>9. \A u \in Urls : refused[u] <= lastRefused[u] /\ lastRefused[u] <= clock
  BY <1>4, <1>5 DEF VerdictInv
<1> QED BY <1>6, <1>7, <1>8, <1>9

\* The verdicts are true at first, and every step keeps them true.
LEMMA VerdictInit == SourceInit => VerdictInv
BY IdleIs DEF SourceInit, VerdictInv

LEMMA VerdictStep ==
  ASSUME SourceTypes, SourceTypes', VerdictInv, [SourceNext]_sourceVars
  PROVE  VerdictInv'
<1> USE DEF worldVars, historyVars
<1>1. ASSUME refresh' = Idle, UNCHANGED <<clock, heard, refused>>,
             \A u \in Urls : cache'[u] # Nothing => TrueOf(u, cache'[u], heard, refused)
      PROVE  VerdictInv'
  <2>1. 0 <= clock
    BY DEF SourceTypes
  <2> QED BY <1>1, <2>1, IdleIs DEF VerdictInv
<1>2. ASSUME UNCHANGED <<clock, cache, heard, refused>>,
             refresh'.outcomes = << >>, refresh'.rows = refresh.rows, refresh'.now = refresh.now
      PROVE  VerdictInv'
  BY <1>2 DEF VerdictInv
<1>3. CASE BeginFetch
  <2>1. /\ refresh'.outcomes = << >> /\ refresh'.now = 0
        /\ \A u \in Urls : refresh'.rows[u] = Nothing
    BY <1>3 DEF BeginFetch, Idle, NoRows
  <2>2. 0 <= clock
    BY DEF SourceTypes
  <2> QED BY <1>3, <2>1, <2>2 DEF BeginFetch, VerdictInv
<1>4. CASE RecordClick
  BY <1>4 DEF RecordClick, VerdictInv
<1>5. ASSUME refresh.pc = "fetch", NextHost, UNCHANGED <<clock, cache, heard, refused>>
      PROVE  VerdictInv'
  <2>1. CASE refresh' = Idle
    BY <1>1, <1>5, <2>1 DEF VerdictInv
  <2>2. CASE refresh' # Idle
    <3>1. /\ refresh'.outcomes = << >> /\ refresh'.rows = refresh.rows
          /\ refresh'.now = refresh.now
      BY <1>5, <2>2, NextHostIs DEF VerdictInv
    <3> QED BY <1>2, <1>5, <3>1
  <2> QED BY <2>1, <2>2
<1>6. CASE Page
  <2>1. CASE NextHost
    BY <1>5, <1>6, <2>1, PageIs
  <2>2. CASE ~NextHost
    <3>1. /\ refresh'.outcomes = << >> /\ refresh'.rows = refresh.rows
          /\ refresh'.now = refresh.now /\ UNCHANGED <<clock, cache, heard, refused>>
      BY <1>6, <2>2, PageIs DEF VerdictInv
    <3> QED BY <1>2, <3>1
  <2> QED BY <2>1, <2>2
<1>7. CASE HostFails
  BY <1>5, <1>7 DEF HostFails
<1>8. CASE Load
  <2>1. /\ refresh'.pc = "now" /\ refresh'.outcomes = << >> /\ refresh'.now = refresh.now
        /\ \A u \in Urls : refresh'.rows[u] # Nothing => refresh'.rows[u] = cache[u]
    BY <1>8 DEF Load, SourceTypes, Refreshes, VerdictInv
  <2> QED BY <1>8, <2>1 DEF Load, VerdictInv
<1>9. CASE Now
  <2>1. /\ refresh'.pc = "validate" /\ refresh'.outcomes = << >> /\ refresh'.now = clock
        /\ refresh'.rows = refresh.rows
    BY <1>9 DEF Now, SourceTypes, Refreshes, VerdictInv
  <2>2. clock <= clock
    BY DEF SourceTypes
  <2> QED BY <1>9, <2>1, <2>2 DEF Now, VerdictInv
<1>10. CASE WriteCache
  <2>1. /\ refresh'.pc = "persist" /\ refresh'.outcomes = refresh.outcomes
        /\ refresh'.now = refresh.now /\ refresh'.rows = refresh.rows
        /\ refresh'.listing = refresh.listing
    BY <1>10 DEF WriteCache, SourceTypes, Refreshes
  <2>2. \A u \in Urls : cache'[u] # Nothing => TrueOf(u, cache'[u], heard, refused)
    BY <1>10, WrittenTrue DEF WriteCache
  <2> QED BY <1>10, <2>1, <2>2 DEF WriteCache, VerdictInv
<1>11. CASE Fail
  <2>1. cache' = cache \/ cache' = Written
    BY <1>11 DEF Fail
  <2>2. \A u \in Urls : cache'[u] # Nothing => TrueOf(u, cache'[u], heard, refused)
    BY <2>1, WrittenTrue DEF VerdictInv
  <2> QED BY <1>1, <1>11, <2>2 DEF Fail
<1>12. CASE PersistListing
  BY <1>1, <1>12 DEF PersistListing, VerdictInv
<1>13. CASE \E i \in 1 .. TotalLimit : Recall(i) \/ Hear(i) \/ RefuseStream(i)
  <2>1. PICK i \in 1 .. TotalLimit : Recall(i) \/ Hear(i) \/ RefuseStream(i)
    BY <1>13
  <2>2. \A u \in Urls : /\ heard[u] <= heard[u] /\ refused[u] <= refused[u]
                        /\ heard[u] <= clock /\ refused[u] <= clock
    BY DEF SourceTypes, VerdictInv
  <2>3. CASE Recall(i)
    <3>1. /\ refresh.pc = "validate" /\ InHand(i)
          /\ IsValid(refresh.rows[refresh.listing[i].url], refresh.listing[i])
          /\ Collect(RecallOutcome(i)) /\ UNCHANGED <<clock, cache, heard, refused>>
      BY <2>3 DEF Recall, RecallOutcome
    <3>2. PICK o \in Outcomes :
             /\ Collect(o) /\ o.index = i /\ o.key = Nothing
             /\ FreshOf(o, refresh.listing, refresh.now, heard, refused)
      BY <3>1, OutcomesAre, RecallFresh
    <3>3. o.index \in DOMAIN refresh.listing
      BY <3>1, <3>2, InHandIs
    <3> QED BY <2>2, <3>1, <3>2, <3>3, CollectVerdict
  <2>4. CASE Hear(i)
    <3>1. /\ refresh.pc = "validate" /\ InHand(i)
          /\ stream[refresh.listing[i].url] \in Public
          /\ Collect(HearOutcome(i)) /\ UNCHANGED <<clock, cache, refused>>
          /\ heard' = [heard EXCEPT ![stream[refresh.listing[i].url]] = clock]
      BY <2>4 DEF Hear, HearOutcome
    <3>2. PICK o \in Outcomes :
             /\ Collect(o) /\ o.index = i
             /\ o.key # Nothing => TrueOf(o.key, o.entry, heard', refused)
             /\ FreshOf(o, refresh.listing, refresh.now, heard', refused)
             /\ \A u \in Urls : heard[u] <= heard'[u] /\ heard'[u] <= clock
      BY <3>1, OutcomesAre, HearFresh
    <3>3. o.index \in DOMAIN refresh.listing
      BY <3>1, <3>2, InHandIs
    <3> QED BY <2>2, <3>1, <3>2, <3>3, CollectVerdict
  <2>5. CASE RefuseStream(i)
    <3>1. /\ refresh.pc = "validate" /\ InHand(i)
          /\ Collect(RefuseOutcome(i)) /\ UNCHANGED <<clock, cache, heard>>
          /\ refused' = [refused EXCEPT ![refresh.listing[i].url] = clock]
      BY <2>5 DEF RefuseStream, RefuseOutcome
    <3>2. PICK o \in Outcomes :
             /\ Collect(o) /\ o.index = i
             /\ o.key # Nothing => TrueOf(o.key, o.entry, heard, refused')
             /\ FreshOf(o, refresh.listing, refresh.now, heard, refused')
             /\ \A u \in Urls : refused[u] <= refused'[u] /\ refused'[u] <= clock
      BY <3>1, OutcomesAre, RefuseFresh
    <3>3. o.index \in DOMAIN refresh.listing
      BY <3>1, <3>2, InHandIs
    <3> QED BY <2>2, <3>1, <3>2, <3>3, CollectVerdict
  <2> QED BY <2>1, <2>3, <2>4, <2>5
<1>14. CASE Change
  <2>1. /\ UNCHANGED <<clock, cache, heard, refused>>
        /\ refresh'.outcomes = refresh.outcomes /\ refresh'.rows = refresh.rows
        /\ refresh'.now = refresh.now /\ refresh'.listing = refresh.listing
        /\ refresh'.pc = refresh.pc
    BY <1>14 DEF Change, SourceTypes, Refreshes
  <2> QED BY <2>1 DEF VerdictInv
<1>15. CASE Tick
  <2>1. \A n \in Nat : n <= clock => n <= clock + 1
    BY DEF SourceTypes
  <2>2. refresh.now \in Nat /\ heard \in [Urls -> Nat] /\ refused \in [Urls -> Nat]
    BY DEF SourceTypes, Refreshes
  <2> QED BY <1>15, <2>1, <2>2 DEF Tick, VerdictInv
<1>16. CASE UNCHANGED sourceVars
  BY <1>16 DEF sourceVars, VerdictInv
<1> QED
  BY <1>3, <1>4, <1>6, <1>7, <1>8, <1>9, <1>10, <1>11, <1>12, <1>13, <1>14, <1>15, <1>16
  DEF SourceNext

-----------------------------------------------------------------------------
(* Places *)

\* What is decided of a station keeps its id.
LEMMA OutcomeIds ==
  ASSUME SourceTypes, NEW i \in 1 .. TotalLimit
  PROVE  /\ RecallOutcome(i).station # Nothing => RecallOutcome(i).station.id = refresh.listing[i].id
         /\ HearOutcome(i).station # Nothing => HearOutcome(i).station.id = refresh.listing[i].id
         /\ RefuseOutcome(i).station = Nothing
         /\ RecallOutcome(i).index = i /\ HearOutcome(i).index = i /\ RefuseOutcome(i).index = i
BY DEF RecallOutcome, HearOutcome, RefuseOutcome, Outcome, Applied

\* A further outcome, of a place that had none.
LEMMA CollectPlace ==
  ASSUME SourceTypes, PlaceInv, refresh.pc = "validate",
         NEW i \in 1 .. TotalLimit, InHand(i), NEW o \in Outcomes, Collect(o), o.index = i,
         o.station # Nothing => o.station.id = refresh.listing[i].id
  PROVE  PlaceInv'
<1> DEFINE n == Len(refresh.outcomes)
<1>1. /\ refresh'.outcomes = Append(refresh.outcomes, o)
      /\ refresh'.listing = refresh.listing
      /\ refresh'.pc \in {"validate", "write"}
      /\ refresh'.pc = "write" => Len(refresh'.outcomes) = Len(refresh.listing)
  BY CollectIs
<1>2. /\ n \in Nat /\ DOMAIN refresh.outcomes = 1 .. n
      /\ DOMAIN refresh'.outcomes = 1 .. n + 1
      /\ \A j \in 1 .. n : refresh'.outcomes[j] = refresh.outcomes[j]
      /\ refresh'.outcomes[n + 1] = o
  <2>1. refresh.outcomes \in Seq(Outcomes)
    BY DEF SourceTypes, Refreshes
  <2> QED BY <1>1, <2>1, AppendProperties, LenProperties
<1>3. \A k \in 1 .. n : refresh.outcomes[k].index # i
  BY <1>2, InHandIs
<1> HIDE DEF n
<1>4. \A k \in 1 .. n + 1 : k = n + 1 \/ k \in 1 .. n
  BY <1>2
<1>5. ASSUME NEW k \in DOMAIN refresh'.outcomes
      PROVE  LET p == refresh'.outcomes[k]
             IN  p.station # Nothing => p.station.id = refresh.listing[p.index].id
  BY <1>2, <1>4 DEF PlaceInv
<1>6. ASSUME NEW j \in DOMAIN refresh'.outcomes, NEW k \in DOMAIN refresh'.outcomes,
             refresh'.outcomes[j].index = refresh'.outcomes[k].index
      PROVE  j = k
  BY <1>2, <1>3, <1>4, <1>6 DEF PlaceInv
<1> QED BY <1>1, <1>5, <1>6 DEF PlaceInv, Validated

\* Every step keeps the outcomes in their places.
LEMMA PlaceStep ==
  ASSUME SourceTypes, SourceTypes', VerdictInv, PlaceInv, [SourceNext]_sourceVars
  PROVE  PlaceInv'
<1> USE DEF worldVars, historyVars
<1>1. ASSUME refresh'.outcomes = << >>, refresh'.pc \notin {"write", "persist"} PROVE PlaceInv'
  BY <1>1 DEF PlaceInv, Validated
<1>2. ASSUME refresh' = Idle PROVE PlaceInv'
  BY <1>1, <1>2, IdleIs
<1>3. ASSUME refresh'.outcomes = refresh.outcomes, refresh'.listing = refresh.listing,
             Validated' => Validated
      PROVE  PlaceInv'
  BY <1>3 DEF PlaceInv
<1>4. CASE BeginFetch
  <2>1. refresh'.outcomes = << >> /\ refresh'.pc = "fetch"
    BY <1>4 DEF BeginFetch, Idle
  <2> QED BY <1>1, <2>1
<1>5. CASE RecordClick
  BY <1>3, <1>5 DEF RecordClick, Validated
<1>6. ASSUME refresh.pc = "fetch", NextHost PROVE PlaceInv'
  <2>1. CASE refresh' = Idle
    BY <1>2, <2>1
  <2>2. CASE refresh' # Idle
    <3>1. refresh'.outcomes = << >> /\ refresh'.pc = "fetch"
      BY <1>6, <2>2, NextHostIs DEF VerdictInv
    <3> QED BY <1>1, <3>1
  <2> QED BY <2>1, <2>2
<1>7. CASE Page
  <2>1. CASE NextHost
    BY <1>6, <1>7, <2>1, PageIs
  <2>2. CASE ~NextHost
    <3>1. refresh'.outcomes = << >> /\ refresh'.pc \in {"fetch", "load"}
      BY <1>7, <2>2, PageIs DEF VerdictInv
    <3> QED BY <1>1, <3>1
  <2> QED BY <2>1, <2>2
<1>8. CASE HostFails
  BY <1>6, <1>8 DEF HostFails
<1>9. CASE Load \/ Now
  <2>1. refresh'.outcomes = << >> /\ refresh'.pc \in {"now", "validate"}
    BY <1>9 DEF Load, Now, SourceTypes, Refreshes, VerdictInv
  <2> QED BY <1>1, <2>1
<1>10. CASE WriteCache
  BY <1>3, <1>10 DEF WriteCache, Validated, SourceTypes, Refreshes
<1>11. CASE Fail \/ PersistListing
  BY <1>2, <1>11 DEF Fail, PersistListing
<1>12. CASE \E i \in 1 .. TotalLimit : Recall(i) \/ Hear(i) \/ RefuseStream(i)
  <2>1. PICK i \in 1 .. TotalLimit : Recall(i) \/ Hear(i) \/ RefuseStream(i)
    BY <1>12
  <2>2. refresh.pc = "validate" /\ InHand(i)
    BY <2>1 DEF Recall, Hear, RefuseStream
  <2>3. PICK o \in Outcomes : /\ Collect(o) /\ o.index = i
                              /\ o.station # Nothing => o.station.id = refresh.listing[i].id
    <3>1. CASE Recall(i)
      <4>1. /\ Collect(RecallOutcome(i))
            /\ IsValid(refresh.rows[refresh.listing[i].url], refresh.listing[i])
        BY <3>1 DEF Recall, RecallOutcome
      <4> QED BY <2>2, <4>1, OutcomesAre, OutcomeIds
    <3>2. CASE Hear(i)
      <4>1. Collect(HearOutcome(i)) /\ stream[refresh.listing[i].url] \in Public
        BY <3>2 DEF Hear, HearOutcome
      <4> QED BY <2>2, <4>1, OutcomesAre, OutcomeIds
    <3>3. CASE RefuseStream(i)
      <4>1. Collect(RefuseOutcome(i))
        BY <3>3 DEF RefuseStream, RefuseOutcome
      <4> QED BY <2>2, <4>1, OutcomesAre, OutcomeIds
    <3> QED BY <2>1, <3>1, <3>2, <3>3
  <2> QED BY <2>2, <2>3, CollectPlace
<1>13. CASE Change
  BY <1>3, <1>13 DEF Change, Validated, SourceTypes, Refreshes
<1>14. CASE Tick
  BY <1>3, <1>14 DEF Tick, Validated
<1>15. CASE UNCHANGED sourceVars
  BY <1>3, <1>15 DEF sourceVars, Validated
<1> QED
  BY <1>4, <1>5, <1>7, <1>8, <1>9, <1>10, <1>11, <1>12, <1>13, <1>14, <1>15 DEF SourceNext

-----------------------------------------------------------------------------
(* The listing *)

\* Nothing has been asked for yet.
LEMMA NothingYet ==
  ASSUME NEW s \in Seq(Listed)
  PROVE  Normalized(SubSeq(s, 1, Least(0, Len(s)))) = << >>
<1>1. Len(s) \in Nat
  BY LenProperties
<1>2. Least(0, Len(s)) = 0
  BY <1>1 DEF Least
<1>3. SubSeq(s, 1, 0) = << >>
  BY SubSeqEmpty
<1>4. << >> \in Seq(Listed) /\ Len(<< >>) = 0
  BY EmptySeq
<1>5. Normalized(<< >>) \in Seq(Listed) /\ Len(Normalized(<< >>)) <= 0
  BY <1>4, NormalizedIs
<1>6. Normalized(<< >>) = << >>
  BY <1>5, EmptySeq
<1> QED BY <1>2, <1>3, <1>6

\* The pages so far and this one are the pages so far after it; when there is
\* no further one, they are all that is asked for.
LEMMA PageAdds ==
  ASSUME SourceTypes, PagesInv, refresh.pc = "fetch"
  PROVE  /\ ~PageOver => /\ refresh.page + 1 < MaxPages
                         /\ (refresh.page + 1) * PageSize < TotalLimit
         /\ refresh.offered # Nothing =>
                PageListing = IF PageOver THEN Wanted(mirror[Host])
                              ELSE Normalized(SubSeq(mirror[Host], 1,
                                       Least((refresh.page + 1) * PageSize, Len(mirror[Host]))))
<1> DEFINE s == mirror[Host]
           n == PageOffset + Least(PageSize, TotalLimit - PageOffset)
           all == Least(TotalLimit, MaxPages * PageSize)
           a == SubSeq(s, 1, Least(PageOffset, Len(s)))
           c == SubSeq(s, 1, Least(n, Len(s)))
<1>1. /\ refresh.page \in Nat /\ MaxPages \in Nat /\ PageSize \in Nat /\ TotalLimit \in Nat
      /\ refresh.page < MaxPages /\ refresh.page * PageSize < TotalLimit
  BY SourceConstants DEF SourceTypes, Refreshes, PagesInv
<1>2. /\ PageOffset \in Nat /\ n \in Nat /\ all \in Nat
      /\ PageOffset < n /\ n <= all /\ all <= TotalLimit
      /\ refresh.page + 1 = MaxPages \/ PageOffset + PageSize >= TotalLimit => n = all
      /\ ~(PageOffset + PageSize >= TotalLimit) => n = (refresh.page + 1) * PageSize /\ n < TotalLimit
  BY <1>1, PageEnds DEF PageOffset
<1>3. s \in Seq(Listed) /\ Len(s) \in Nat
  BY PageTypes, LenProperties
<1>4. PageRaw = SubSeq(s, PageOffset + 1, Least(n, Len(s)))
  BY DEF PageRaw
<1>5. ~PageOver => /\ refresh.page + 1 < MaxPages
                   /\ (refresh.page + 1) * PageSize < TotalLimit
  BY <1>1, <1>2 DEF PageOver
<1>6. Wanted(s) = Normalized(SubSeq(s, 1, Least(all, Len(s))))
  BY DEF Wanted
<1>7. ASSUME refresh.offered # Nothing PROVE refresh.listing = Normalized(a)
  BY <1>7 DEF PagesInv, PageOffset
<1> HIDE DEF s, n, all
<1>8. /\ a \in Seq(Listed) /\ PageRaw \in Seq(Listed) /\ a \o PageRaw = c
      /\ Len(c) = Least(n, Len(s)) /\ c \in Seq(Listed)
      /\ PageRaw = << >> => Least(n, Len(s)) <= PageOffset
  <2>1. PageOffset <= n
    BY <1>2
  <2>2. /\ a \in Seq(Listed) /\ PageRaw \in Seq(Listed) /\ a \o PageRaw = c
        /\ Len(a \o PageRaw) = Least(n, Len(s))
        /\ PageRaw = << >> => Least(n, Len(s)) <= PageOffset
    BY <1>2, <1>3, <1>4, <2>1, Parts
  <2>3. a \o PageRaw \in Seq(Listed)
    BY <2>2, ConcatProperties
  <2> HIDE DEF a, c
  <2> QED BY <2>2, <2>3
<1> HIDE DEF a, c
<1>9. ASSUME refresh.offered # Nothing PROVE PageListing = Normalized(c)
  <2>1. Normalized(a \o PageRaw) = Normalized(a) \o Normalized(PageRaw)
    BY <1>8, NormalizedConcat
  <2> QED BY <1>7, <1>8, <1>9, <2>1 DEF PageListing
<1>10. ASSUME refresh.offered # Nothing, ~PageOver
       PROVE  PageListing = Normalized(SubSeq(s, 1, Least((refresh.page + 1) * PageSize, Len(s))))
  <2>1. n = (refresh.page + 1) * PageSize
    BY <1>2, <1>10 DEF PageOver
  <2> QED BY <1>9, <1>10, <2>1 DEF c
<1>11. ASSUME refresh.offered # Nothing, PageOver PROVE PageListing = Wanted(s)
  <2>1. Len(PageListing) <= Least(n, Len(s))
    BY <1>8, <1>9, <1>11, NormalizedIs
  <2>2. Least(n, Len(s)) = Least(all, Len(s))
    <3>1. /\ (n < Len(s) /\ Least(n, Len(s)) = n) \/ (Len(s) <= n /\ Least(n, Len(s)) = Len(s))
          /\ (all < Len(s) /\ Least(all, Len(s)) = all) \/ (Len(s) <= all /\ Least(all, Len(s)) = Len(s))
      BY <1>2, <1>3, LeastIs
    <3>2. CASE PageRaw = << >>
      BY <1>2, <1>3, <1>8, <3>1, <3>2
    <3>3. CASE Len(PageListing) >= TotalLimit
      <4>1. Len(PageListing) \in Nat
        BY PageTypes, LenProperties
      <4> QED BY <1>1, <1>2, <1>3, <2>1, <3>1, <3>3, <4>1
    <3>4. CASE refresh.page + 1 = MaxPages \/ PageOffset + PageSize >= TotalLimit
      BY <1>2, <3>4
    <3> QED BY <1>11, <3>2, <3>3, <3>4 DEF PageOver
  <2> QED BY <1>6, <1>9, <1>11, <2>2 DEF c
<1> QED BY <1>5, <1>10, <1>11 DEF s

\* The host asked has a list.
HostLists == mirror[Host] \in Seq(Listed)

LEMMA HostListsIs == SourceTypes => HostLists
BY PageTypes DEF HostLists

\* The listing is what was asked for at first, and after every step.
LEMMA PagesInit == SourceInit => PagesInv
BY IdleIs DEF SourceInit, PagesInv

LEMMA PagesStep ==
  ASSUME SourceTypes, SourceTypes', PagesInv, [SourceNext]_sourceVars
  PROVE  PagesInv'
<1> USE DEF worldVars, historyVars
<1>1. ASSUME refresh' = Idle PROVE PagesInv'
  BY <1>1, IdleIs DEF PagesInv
<1>2. ASSUME refresh.pc \notin {"idle", "fetch"}, refresh'.pc # "fetch",
             refresh'.offered = refresh.offered, refresh'.listing = refresh.listing
      PROVE  PagesInv'
  BY <1>2 DEF PagesInv, Wanted, Normalized
<1>3. ASSUME refresh'.pc = "fetch", refresh'.page = 0, refresh'.listing = << >>,
             refresh'.offered # Nothing => refresh'.offered = mirror'
      PROVE  PagesInv'
  <2>1. mirror'[Host'] \in Seq(Listed)
    <3>1. SourceTypes' => HostLists'
      BY HostListsIs, PTL
    <3> QED BY <3>1 DEF HostLists
  <2>2. refresh'.listing = Normalized(SubSeq(mirror'[Host'], 1, Least(0, Len(mirror'[Host']))))
    BY <1>3, <2>1, NothingYet
  <2>3. 0 < MaxPages /\ 0 * PageSize = 0 /\ 0 < TotalLimit
    BY SourceConstants
  <2> QED BY <1>3, <2>2, <2>3 DEF PagesInv
<1>4. CASE BeginFetch
  <2>1. /\ refresh'.pc = "fetch" /\ refresh'.page = 0 /\ refresh'.listing = << >>
        /\ refresh'.offered = mirror'
    BY <1>4 DEF BeginFetch, Idle
  <2> QED BY <1>3, <2>1
<1>5. ASSUME refresh' = refresh, mirror' = mirror PROVE PagesInv'
  <2>1. Host' = Host
    BY <1>5 DEF Host
  <2> QED BY <1>5, <2>1 DEF PagesInv
<1>6. CASE RecordClick
  BY <1>5, <1>6 DEF RecordClick
<1>7. ASSUME refresh.pc = "fetch", NextHost, mirror' = mirror PROVE PagesInv'
  <2>1. CASE refresh' = Idle
    BY <1>1, <2>1
  <2>2. CASE refresh' # Idle
    <3>1. /\ refresh'.pc = "fetch" /\ refresh'.page = 0 /\ refresh'.listing = << >>
          /\ refresh'.offered # Nothing => refresh'.offered = mirror'
      BY <1>7, <2>2, NextHostIs DEF PagesInv
    <3> QED BY <1>3, <3>1
  <2> QED BY <2>1, <2>2
<1>8. CASE Page
  <2>1. CASE NextHost
    BY <1>7, <1>8, <2>1, PageIs
  <2>2. CASE ~NextHost
    <3>1. /\ refresh.pc = "fetch" /\ refresh'.listing = PageListing
          /\ refresh'.pc = IF PageOver THEN "load" ELSE "fetch"
          /\ refresh'.page = IF PageOver THEN refresh.page ELSE refresh.page + 1
          /\ refresh'.host = refresh.host /\ refresh'.tried = refresh.tried
          /\ refresh'.offered = refresh.offered /\ mirror' = mirror
      BY <1>8, <2>2, PageIs
    <3>2. Host' = Host
      BY <3>1 DEF Host
    <3>3. refresh.offered # Nothing => refresh.offered = mirror
      BY <3>1 DEF PagesInv
    <3>4. CASE PageOver
      <4>1. refresh'.offered # Nothing => refresh'.listing = Wanted(refresh'.offered[Host])
        BY <3>1, <3>3, <3>4, PageAdds
      <4> QED BY <3>1, <3>4, <4>1, HostIs DEF PagesInv
    <3>5. CASE ~PageOver
      <4>1. /\ refresh'.page < MaxPages /\ refresh'.page * PageSize < TotalLimit
            /\ refresh'.offered # Nothing =>
                   refresh'.listing = Normalized(SubSeq(mirror'[Host'], 1,
                                          Least(refresh'.page * PageSize, Len(mirror'[Host']))))
        BY <3>1, <3>2, <3>5, PageAdds
      <4> QED BY <3>1, <3>3, <3>5, <4>1 DEF PagesInv
    <3> QED BY <3>4, <3>5
  <2> QED BY <2>1, <2>2
<1>9. CASE HostFails
  BY <1>7, <1>9 DEF HostFails
<1>10. CASE Load \/ Now \/ WriteCache
  <2>1. /\ refresh.pc \notin {"idle", "fetch"} /\ refresh'.pc # "fetch"
        /\ refresh'.offered = refresh.offered /\ refresh'.listing = refresh.listing
    BY <1>10 DEF Load, Now, WriteCache, SourceTypes, Refreshes
  <2> QED BY <1>2, <2>1
<1>11. CASE Fail \/ PersistListing
  BY <1>1, <1>11 DEF Fail, PersistListing
<1>12. CASE \E i \in 1 .. TotalLimit : Recall(i) \/ Hear(i) \/ RefuseStream(i)
  <2>1. PICK i \in 1 .. TotalLimit : Recall(i) \/ Hear(i) \/ RefuseStream(i)
    BY <1>12
  <2>2. refresh.pc = "validate" /\ InHand(i)
    BY <2>1 DEF Recall, Hear, RefuseStream
  <2>3. PICK o \in Outcomes : Collect(o)
    <3>1. CASE Recall(i)
      BY <2>2, <3>1, OutcomesAre DEF Recall, RecallOutcome
    <3>2. CASE Hear(i)
      BY <2>2, <3>2, OutcomesAre DEF Hear, HearOutcome
    <3>3. CASE RefuseStream(i)
      BY <2>2, <3>3, OutcomesAre DEF RefuseStream, RefuseOutcome
    <3> QED BY <2>1, <3>1, <3>2, <3>3
  <2>4. /\ refresh'.pc # "fetch"
        /\ refresh'.offered = refresh.offered /\ refresh'.listing = refresh.listing
    BY <2>2, <2>3, CollectIs
  <2> QED BY <1>2, <2>2, <2>4
<1>13. CASE Change
  <2>1. CASE mirror' = mirror /\ refresh' = refresh
    BY <1>5, <2>1
  <2>2. CASE ~(mirror' = mirror /\ refresh' = refresh)
    <3>1. refresh' = IF refresh.pc = "fetch" THEN [refresh EXCEPT !.offered = Nothing] ELSE refresh
      BY <1>13, <2>2 DEF Change
    <3>2. CASE refresh.pc = "fetch"
      <4>1. /\ refresh'.offered = Nothing /\ refresh'.pc = refresh.pc /\ refresh'.page = refresh.page
        BY <3>1, <3>2 DEF SourceTypes, Refreshes
      <4> QED BY <3>2, <4>1 DEF PagesInv
    <3>3. CASE refresh.pc # "fetch"
      BY <3>1, <3>3 DEF PagesInv
    <3> QED BY <3>2, <3>3
  <2> QED BY <2>1, <2>2
<1>14. CASE Tick
  BY <1>5, <1>14 DEF Tick
<1>15. CASE UNCHANGED sourceVars
  BY <1>5, <1>15 DEF sourceVars
<1> QED
  BY <1>4, <1>6, <1>8, <1>9, <1>10, <1>11, <1>12, <1>13, <1>14, <1>15 DEF SourceNext

-----------------------------------------------------------------------------
(* The inductive invariant, and what it is for *)

\* Types, verdicts, places and listing together.
SourceInv == SourceTypes /\ VerdictInv /\ PlaceInv /\ PagesInv

\* The invariant is inductive.
LEMMA SourceInvariant == SourceSpec => []SourceInv
<1>1. SourceInit => SourceInv
  <2>1. SourceInit => PlaceInv
    BY IdleIs DEF SourceInit, PlaceInv, Validated
  <2> QED BY <2>1, SourceTypesInit, VerdictInit, PagesInit DEF SourceInv
<1>2. SourceInv /\ [SourceNext]_sourceVars => SourceInv'
  <2> SUFFICES ASSUME SourceInv, [SourceNext]_sourceVars PROVE SourceInv'
    OBVIOUS
  <2>1. SourceTypes'
    BY SourceTypesStep DEF SourceInv
  <2>2. VerdictInv' /\ PlaceInv' /\ PagesInv'
    BY <2>1, VerdictStep, PlaceStep, PagesStep DEF SourceInv
  <2> QED BY <2>1, <2>2 DEF SourceInv
<1> QED BY <1>1, <1>2, PTL DEF SourceSpec

\* Whatever the redirects, the lifetimes and the failures of a refresh, a
\* station is kept because a stream was heard at the URL it is then served
\* from, within the life of a verdict, and dropped because its URL was refused
\* within that of a failure (process_station, CacheEntry::is_valid).
THEOREM KeptBecauseHeard == SourceSpec => []VerdictsAreFresh
<1>1. SourceInv => VerdictsAreFresh
  <2> SUFFICES ASSUME SourceInv, NEW o \in Range(refresh.outcomes)
               PROVE  FreshOf(o, refresh.listing, refresh.now, heard, refused)
    BY DEF VerdictsAreFresh, FreshOf
  <2>1. PICK k \in DOMAIN refresh.outcomes : o = refresh.outcomes[k]
    BY DEF Range
  <2> QED BY <2>1 DEF SourceInv, VerdictInv
<1> QED BY <1>1, SourceInvariant, PTL

\* The one outcome of a place, when every place has one.
OutcomeAt(i) == CHOOSE o \in Range(refresh.outcomes) : o.index = i
KeptPlaces == {i \in DOMAIN refresh.listing : OutcomeAt(i).station # Nothing}

\* Every place has an outcome: as many outcomes as places, no two of one place.
LEMMA OutcomeAtIs ==
  ASSUME SourceInv, Validated, NEW i \in DOMAIN refresh.listing
  PROVE  /\ OutcomeAt(i) \in Range(refresh.outcomes) /\ OutcomeAt(i).index = i
         /\ OutcomeAt(i).station # Nothing => OutcomeAt(i).station.id = refresh.listing[i].id
<1> DEFINE n == Len(refresh.listing)
           f == [k \in 1 .. n |-> refresh.outcomes[k].index]
<1>1. /\ n \in Nat /\ DOMAIN refresh.listing = 1 .. n
      /\ DOMAIN refresh.outcomes = 1 .. n
  BY EachOutcome, LenProperties DEF SourceInv, SourceTypes, Refreshes, PlaceInv
<1> HIDE DEF n
<1>2. f \in Injection(1 .. n, 1 .. n)
  <2>1. \A k \in 1 .. n : refresh.outcomes[k].index \in 1 .. n
    BY <1>1 DEF SourceInv, VerdictInv
  <2>2. \A j, k \in 1 .. n : f[j] = f[k] => j = k
    BY <1>1 DEF SourceInv, PlaceInv
  <2> QED BY <2>1, <2>2 DEF Injection, IsInjective
<1>3. f \in Surjection(1 .. n, 1 .. n)
  <2> HIDE DEF f
  <2>1. IsFiniteSet(1 .. n)
    BY <1>1, IntervalOf
  <2> QED BY <1>2, <2>1, FS_Injection
<1>4. PICK k \in 1 .. n : f[k] = i
  BY <1>1, <1>3 DEF Surjection
<1>5. refresh.outcomes[k] \in Range(refresh.outcomes) /\ refresh.outcomes[k].index = i
  BY <1>1, <1>4 DEF Range
<1>6. OutcomeAt(i) \in Range(refresh.outcomes) /\ OutcomeAt(i).index = i
  BY <1>5 DEF OutcomeAt
<1>7. PICK j \in DOMAIN refresh.outcomes : OutcomeAt(i) = refresh.outcomes[j]
  BY <1>6 DEF Range
<1> QED BY <1>6, <1>7 DEF SourceInv, PlaceInv

\* The stations that are kept, by their places.
LEMMA KeptIs == Kept = [k \in DOMAIN InOrder(KeptPlaces) |-> OutcomeAt(InOrder(KeptPlaces)[k]).station]
BY DEF Kept, KeptPlaces, OutcomeAt

\* Unless a mirror changed between two pages, the stations that are stored are
\* what one mirror is to be asked for, without those that were dropped, in its
\* order, and none of them twice: persist_payload then never refuses them.
THEOREM StoredAsListed == SourceSpec => []KeptIsTheListing
<1>1. ASSUME SourceInv, Validated, refresh.offered # Nothing
      PROVE  LET kept == Kept
                 listed == refresh.listing
                 places == InOrder({i \in DOMAIN listed : \E k \in DOMAIN kept : kept[k].id = listed[i].id})
             IN  /\ \E h \in DOMAIN HostPool : listed = Wanted(refresh.offered[h])
                 /\ [k \in DOMAIN kept |-> kept[k].id] = [k \in DOMAIN places |-> listed[places[k]].id]
                 /\ ~Doubled(kept)
  <2> DEFINE listed == refresh.listing
             P == KeptPlaces
             f == InOrder(P)
             n == Cardinality(P)
             again == {i \in DOMAIN listed : \E k \in DOMAIN Kept : Kept[k].id = listed[i].id}
  <2>1. PICK h \in DOMAIN HostPool : listed = Wanted(refresh.offered[h])
    BY <1>1 DEF SourceInv, PagesInv, Validated
  <2>2. \A i, j \in DOMAIN listed : listed[i].id = listed[j].id => i = j
    <3>1. refresh.offered[h] \in Directories
      BY <1>1 DEF SourceInv, SourceTypes, Refreshes, Mirrors
    <3> QED BY <2>1, <3>1, WantedDistinct
  <2>3. listed \in Seq(Listed) /\ P \subseteq DOMAIN listed
    BY <1>1 DEF SourceInv, SourceTypes, Refreshes, KeptPlaces
  <2>4. /\ n \in Nat /\ f \in [1 .. n -> P]
        /\ \A i, j \in 1 .. n : i < j => f[i] < f[j]
        /\ \A p \in P : \E i \in 1 .. n : f[i] = p
    <3> HIDE DEF P
    <3> QED BY <2>3, PickIs
  <2>5. \A i \in P : OutcomeAt(i).station.id = listed[i].id
    BY <1>1, OutcomeAtIs DEF KeptPlaces
  <2>6. DOMAIN Kept = 1 .. n /\ \A k \in 1 .. n : Kept[k] = OutcomeAt(f[k]).station
    <3>1. Kept = [k \in DOMAIN f |-> OutcomeAt(f[k]).station]
      BY KeptIs
    <3>2. DOMAIN f = 1 .. n
      BY <2>4
    <3> HIDE DEF f, n
    <3> QED BY <3>1, <3>2
  <2> HIDE DEF listed, P, f, n
  <2>7. \A k \in 1 .. n : f[k] \in DOMAIN listed /\ Kept[k].id = listed[f[k]].id
    BY <2>3, <2>4, <2>5, <2>6
  <2>8. again = P
    <3>1. ASSUME NEW i \in P PROVE i \in again
      <4>1. PICK k \in 1 .. n : f[k] = i
        BY <2>4
      <4> QED BY <2>3, <2>6, <2>7, <4>1
    <3>2. ASSUME NEW i \in again PROVE i \in P
      <4>1. PICK k \in 1 .. n : Kept[k].id = listed[i].id
        BY <2>6
      <4>2. f[k] = i
        BY <2>2, <2>7, <4>1
      <4> QED BY <2>4, <4>2
    <3> QED BY <3>1, <3>2
  <2>9. [k \in DOMAIN Kept |-> Kept[k].id] = [k \in DOMAIN f |-> listed[f[k]].id]
    <3>1. DOMAIN f = 1 .. n
      BY <2>4
    <3> QED BY <2>6, <2>7, <3>1
  <2>10. ~Doubled(Kept)
    <3> SUFFICES ASSUME NEW i \in 1 .. n, NEW j \in 1 .. n, i < j, Kept[i].id = Kept[j].id
                 PROVE  FALSE
      BY <2>6 DEF Doubled
    <3>1. f[i] = f[j] /\ f[i] < f[j]
      BY <2>2, <2>4, <2>7
    <3>2. f[i] \in Nat
      BY <2>3, <2>7, LenProperties
    <3> QED BY <3>1, <3>2
  <2>11. [k \in DOMAIN Kept |-> Kept[k].id] = [k \in DOMAIN InOrder(again) |-> listed[InOrder(again)[k]].id]
    BY <2>8, <2>9 DEF f
  <2> HIDE DEF again
  <2> QED BY <2>1, <2>10, <2>11 DEF again, listed
<1>2. SourceInv => KeptIsTheListing
  BY <1>1 DEF KeptIsTheListing
<1> QED BY <1>2, SourceInvariant, PTL

-----------------------------------------------------------------------------
(* StationRefresh *)

USE ProcOfAssumption, NoneAssumption, ListingsAssumption, BoundsAssumption

\* A task that is idle has typed local variables, and an empty cache holds a payload.
LEMMA FreshType == Fresh \in Local /\ NoPayload \in Payload
  BY DEF Fresh, Local, NoPayload, Payload, Kinds

\* Assigning to a local variable a value of its type leaves the locals typed.
LEMMA LocalUpdate ==
  ASSUME NEW l \in Local
  PROVE  /\ \A k \in Kinds : [l EXCEPT !.kind = k] \in Local
         /\ \A n \in Nat : /\ [l EXCEPT !.seen = n] \in Local
                           /\ [l EXCEPT !.base = n] \in Local
                           /\ [l EXCEPT !.tries = n] \in Local
                           /\ [l EXCEPT !.failedAt = n] \in Local
         /\ \A q \in Payload : [l EXCEPT !.got = q] \in Local
         /\ \A r \in SUBSET Stations : [l EXCEPT !.got.rows = r] \in Local
         /\ \A f \in Listings \cup {{}}, i, n \in Nat, r \in SUBSET Stations :
                 [l EXCEPT !.id = i, !.got = [fp |-> f, rows |-> {}], !.want = r, !.readAt = n] \in Local
         /\ [l EXCEPT !.id = 0, !.got = NoPayload, !.want = {}, !.readAt = 0] \in Local
         /\ l.tries \in Nat /\ l.seen \in Nat /\ l.got \in Payload
  BY FreshType DEF Local, Payload

\* What the two outcomes of the first query leave in the locals.
LEMMA RowUpdate ==
  ASSUME NEW l \in Local, NEW q, NEW i, NEW r, NEW n
  PROVE  LET m == [l EXCEPT !.id = i, !.got = q, !.want = r, !.readAt = n]
         IN  m.id = i /\ m.got = q /\ m.want = r /\ m.readAt = n /\ m.base = l.base
  BY DEF Local

-----------------------------------------------------------------------------
(* Types and the advisory lock *)

\* A grant of the lock is leaked, or in the hands of one guard or its unlock.
GrantsHaveOwners ==
    depth = leaks + (IF lockTask # None \/ unlocking THEN 1 ELSE 0)

\* The guard of the task that owns the session is the only one there is; the
\* session is unlocked only when no guard owns it, and is held until then.
LockInv ==
    /\ GrantsHaveOwners
    /\ lockProc = None => lockTask = None /\ ~unlocking
    /\ lockProc # None => depth > 0
    /\ unlocking => lockTask = None
    /\ lockTask # None => pc[lockTask] \in Locked /\ ProcOf[lockTask] = lockProc
    /\ \A t \in Tasks : pc[t] \in Locked => lockTask = t

\* The initial states are typed.
LEMMA TypeInit == Init => TypeOK
<1> SUFFICES ASSUME Init PROVE TypeOK
  OBVIOUS
<1>1. /\ updated \in Nat \ {0}
      /\ current \in Nat
      /\ payloads \subseteq [id : Nat \ {0}, fp : Listings \cup {{}}]
      /\ owner \in [Stations -> Nat]
  BY DEF Init, InitDb
<1>2. QED
  BY <1>1, FreshType DEF Init, TypeOK, Labels

\* Storing a payload keeps the tables typed.
LEMMA StoreType ==
  ASSUME TypeOK, NEW new \in Payload, Store(new)
  PROVE  /\ updated' \in Nat \ {0}
         /\ current' \in Nat
         /\ payloads' \subseteq [id : Nat \ {0}, fp : Listings \cup {{}}]
         /\ owner' \in [Stations -> Nat]
<1> USE DEF TypeOK
<1>1. CASE TouchState
  BY <1>1 DEF TouchState
<1>2. CASE ReplacePayload(new)
  <2> DEFINE id == current + 1
             moved == [s \in Stations |-> IF s \in new.rows THEN id ELSE owner[s]]
  <2>1. payloads' \subseteq [id : Nat \ {0}, fp : Listings \cup {{}}]
    BY <1>2 DEF ReplacePayload, Payload
  <2>2. moved \in [Stations -> Nat]
    OBVIOUS
  <2>3. owner' = [s \in Stations |->
                    IF \E row \in payloads' : row.id = moved[s] THEN moved[s] ELSE 0]
    BY <1>2 DEF ReplacePayload
  <2>4. owner' \in [Stations -> Nat]
    BY <2>2, <2>3
  <2>5. QED
    BY <1>2, <2>1, <2>4 DEF ReplacePayload
<1>3. QED
  BY <1>1, <1>2 DEF Store

\* What dropped tasks leave in flight is a payload.
LEMMA LeaveType ==
  ASSUME TypeOK, NEW dropped \in SUBSET Tasks, LeaveCommit(dropped)
  PROVE  inFlight' \in Payload
  BY DEF TypeOK, LeaveCommit, Local

\* LockInv is needed where the depth of the lock decreases.
LEMMA TypeStep == TypeOK /\ LockInv /\ [Next]_vars => TypeOK'
<1> SUFFICES ASSUME TypeOK, LockInv, [Next]_vars PROVE TypeOK'
  OBVIOUS
<1> USE FreshType DEF TypeOK, db, tables, lock, caches, budget, Labels, Locked, Fallible, Stored
<1>1. ASSUME NEW t \in Tasks, Begin(t) PROVE TypeOK'
  <2>1. PICK k \in Kinds \ {"background"} :
            /\ loc' = [loc EXCEPT ![t].kind = k]
            /\ Goto(t, IF k = "update" THEN "lockMutex" ELSE "readMarker")
    BY <1>1 DEF Begin
  <2>2. [loc[t] EXCEPT !.kind = k] \in Local
    BY DEF Local
  <2>3. QED
    BY <1>1, <2>1, <2>2 DEF Begin, Goto
<1>2. ASSUME NEW t \in Tasks, BeginBackground(t) PROVE TypeOK'
  <2>1. loc' \in [Tasks -> Local] /\ pc' \in [Tasks -> Labels]
    BY <1>2, LocalUpdate DEF BeginBackground, Goto, Kinds
  <2>2. spawned[ProcOf[t]] - 1 \in Nat
    BY <1>2 DEF BeginBackground
  <2>3. spawned' \in [Procs -> Nat]
    BY <1>2, <2>2 DEF BeginBackground
  <2>4. QED
    BY <1>2, <2>1, <2>3 DEF BeginBackground
<1>3. ASSUME NEW t \in Tasks, ReadMarker(t) PROVE TypeOK'
  BY <1>3, LocalUpdate DEF ReadMarker, Goto
<1>4. ASSUME NEW t \in Tasks, Mark(t) PROVE TypeOK'
  BY <1>4, LocalUpdate DEF Mark, AfterSync, Goto
<1>5. ASSUME NEW t \in Tasks, ClearMem(t) PROVE TypeOK'
  BY <1>5, LocalUpdate DEF ClearMem, Goto
<1>6. ASSUME NEW t \in Tasks, ClearProcessed(t) PROVE TypeOK'
  BY <1>6, LocalUpdate DEF ClearProcessed, AfterSync, Goto
<1>7. ASSUME NEW t \in Tasks, CheckMem(t) PROVE TypeOK'
  <2>1. CASE Finish(t)
    BY <1>7, <2>1 DEF CheckMem, Finish, Goto
  <2>2. CASE Goto(t, "loadRow") /\ UNCHANGED loc
    BY <1>7, <2>2 DEF CheckMem, Goto
  <2>3. QED
    BY <1>7, <2>1, <2>2 DEF CheckMem
<1>8. ASSUME NEW t \in Tasks, LoadRow(t) PROVE TypeOK'
  <2>1. CASE NothingStored(t)
    BY <1>8, <2>1, LocalUpdate DEF LoadRow, NothingStored, Goto
  <2>2. ASSUME NEW row \in payloads,
               loc' = [loc EXCEPT ![t].id = row.id, ![t].got = [fp |-> row.fp, rows |-> {}],
                                  ![t].want = RowsOf(row.id), ![t].readAt = updated],
               Goto(t, "loadRows")
        PROVE TypeOK'
    <3>1. [loc[t] EXCEPT !.id = row.id, !.got = [fp |-> row.fp, rows |-> {}],
                         !.want = RowsOf(row.id), !.readAt = updated] \in Local
      BY <2>2, LocalUpdate DEF RowsOf
    <3>2. QED
      BY <1>8, <2>2, <3>1 DEF LoadRow, Goto
  <2>3. QED
    BY <1>8, <2>1, <2>2 DEF LoadRow
<1>9. ASSUME NEW t \in Tasks, LoadRows(t) PROVE TypeOK'
  <2>1. CASE NothingStored(t)
    BY <1>9, <2>1, LocalUpdate DEF LoadRows, NothingStored, Goto
  <2>2. CASE /\ loc' = [loc EXCEPT ![t].got.rows = RowsOf(loc[t].id)]
             /\ Goto(t, "cacheMem")
    <3>1. [loc[t] EXCEPT !.got.rows = RowsOf(loc[t].id)] \in Local
      BY LocalUpdate DEF RowsOf
    <3>2. QED
      BY <1>9, <2>2, <3>1 DEF LoadRows, Goto
  <2>3. QED
    BY <1>9, <2>1, <2>2 DEF LoadRows
<1>10. ASSUME NEW t \in Tasks, CacheMem(t) PROVE TypeOK'
  BY <1>10, LocalUpdate DEF CacheMem, Goto
<1>11. ASSUME NEW t \in Tasks, CacheProcessed(t) PROVE TypeOK'
  <2> DEFINE more == IF Waiting(t) THEN 0 ELSE 1
  <2>1. more \in Nat
    OBVIOUS
  <2>2. spawned' = [spawned EXCEPT ![ProcOf[t]] = @ + more]
    BY <1>11 DEF CacheProcessed
  <2>3. spawned' \in [Procs -> Nat]
    BY <2>1, <2>2
  <2>4. processed' \in [Procs -> Payload]
    BY <1>11, LocalUpdate DEF CacheProcessed
  <2>5. QED
    BY <1>11, <2>3, <2>4 DEF CacheProcessed, Finish, Goto
<1>12. ASSUME NEW t \in Tasks, LockMutex(t) PROVE TypeOK'
  BY <1>12, LocalUpdate DEF LockMutex, Goto
<1>13. ASSUME NEW t \in Tasks, TryLock(t) PROVE TypeOK'
  <2>1. [loc[t] EXCEPT !.failedAt = updated] \in Local
    BY LocalUpdate
  <2>2. pc' \in [Tasks -> Labels] /\ loc' \in [Tasks -> Local]
    BY <1>13, <2>1 DEF TryLock, Goto
  <2>3. mutex' \in [Procs -> Tasks \cup {None}]
    BY <1>13 DEF TryLock
  <2>4. /\ lockProc' \in Procs \cup {None} /\ lockTask' \in Tasks \cup {None}
        /\ unlocking' \in BOOLEAN /\ depth' \in Nat /\ leaks' \in Nat
    BY <1>13 DEF TryLock
  <2>5. QED
    BY <1>13, <2>2, <2>3, <2>4 DEF TryLock
<1>14. ASSUME NEW t \in Tasks, Fetch(t) PROVE TypeOK'
  <2>1. \A listing \in Listings : [fp |-> listing, rows |-> listing] \in Payload
    BY DEF Payload, Stations
  <2>2. \A listing \in Listings :
           [loc[t] EXCEPT !.got = [fp |-> listing, rows |-> listing]] \in Local
    BY <2>1, LocalUpdate
  <2>3. QED
    BY <1>14, <2>2 DEF Fetch, Goto
<1>15. ASSUME NEW t \in Tasks, Validate(t) PROVE TypeOK'
  <2>1. loc[t].got.rows \in SUBSET Stations
    BY DEF Local, Payload
  <2>2. \A kept \in SUBSET loc[t].got.rows : [loc[t] EXCEPT !.got.rows = kept] \in Local
    BY <2>1, LocalUpdate
  <2>3. PICK kept \in SUBSET loc[t].got.rows : loc' = [loc EXCEPT ![t].got.rows = kept]
    BY <1>15 DEF Validate
  <2>4. loc' \in [Tasks -> Local]
    BY <2>2, <2>3
  <2>5. QED
    BY <1>15, <2>4 DEF Validate, Goto
<1>16. ASSUME NEW t \in Tasks, Persist(t) PROVE TypeOK'
  <2>1. loc[t].got \in Payload
    BY DEF Local
  <2>2. QED
    BY <1>16, <2>1, StoreType DEF Persist, Goto
<1>17. ASSUME NEW t \in Tasks, ReadOwn(t) PROVE TypeOK'
  BY <1>17, LocalUpdate DEF ReadOwn, Goto
<1>18. ASSUME NEW t \in Tasks, SetMarker(t) PROVE TypeOK'
  BY <1>18, LocalUpdate DEF SetMarker, Goto
<1>19. ASSUME NEW t \in Tasks, CacheFresh(t) PROVE TypeOK'
  BY <1>19, LocalUpdate DEF CacheFresh, Goto
<1>20. ASSUME NEW t \in Tasks, ProcessFresh(t) PROVE TypeOK'
  BY <1>20, LocalUpdate DEF ProcessFresh, DropGuard, Finish, Goto
<1>21. ASSUME NEW t \in Tasks, WaitInit(t) PROVE TypeOK'
  BY <1>21, LocalUpdate DEF WaitInit, Goto
<1>22. ASSUME NEW t \in Tasks, Poll(t) PROVE TypeOK'
  <2>1. loc[t].tries + 1 \in Nat
    BY DEF Local
  <2>2. [loc[t] EXCEPT !.tries = loc[t].tries + 1] \in Local
    BY <2>1, LocalUpdate
  <2>3. QED
    BY <1>22, <2>2 DEF Poll, Goto
<1>23. ASSUME NEW t \in Tasks, TimeOut(t) PROVE TypeOK'
  BY <1>23, LocalUpdate DEF TimeOut, Finish, Goto
<1>24. ASSUME NEW t \in Tasks, Abort(t) PROVE TypeOK'
  <2>1. inFlight' \in Payload
    BY <1>24, LeaveType DEF Abort
  <2>2. QED
    BY <1>24, <2>1, LocalUpdate DEF Abort, DropGuard, Finish, Goto
<1>25. ASSUME NEW t \in Tasks, LeakLock(t) PROVE TypeOK'
  <2>1. depth + 1 \in Nat /\ leaks + 1 \in Nat
    OBVIOUS
  <2>2. QED
    BY <1>25, <2>1 DEF LeakLock, Finish, Goto
<1>26. ASSUME NEW p \in Procs, Expire(p) PROVE TypeOK'
  BY <1>26 DEF Expire
<1>27. ASSUME NEW p \in Procs, Crash(p) PROVE TypeOK'
  <2>1. pc' \in [Tasks -> Labels] /\ loc' \in [Tasks -> Local]
    BY <1>27 DEF Crash
  <2>2. /\ lockProc' \in Procs \cup {None} /\ lockTask' \in Tasks \cup {None}
        /\ unlocking' \in BOOLEAN /\ depth' \in Nat /\ leaks' \in Nat
    <3>1. CASE lockProc = p
      BY <1>27, <3>1 DEF Crash
    <3>2. CASE lockProc # p
      BY <1>27, <3>2 DEF Crash
    <3>3. QED
      BY <3>1, <3>2
  <2>3. inFlight' \in Payload
    BY <1>27, LeaveType DEF Crash
  <2>4. QED
    BY <1>27, <2>1, <2>2, <2>3 DEF Crash
<1>28. CASE Unlock
  <2>1. depth > 0
    BY <1>28 DEF Unlock, LockInv
  <2>2. depth - 1 \in Nat
    BY <2>1
  <2>3. lockProc' \in Procs \cup {None}
    BY <1>28 DEF Unlock
  <2>4. QED
    BY <1>28, <2>2, <2>3 DEF Unlock
<1>29. CASE Reap
  BY <1>29 DEF Reap
<1>30. CASE UNCHANGED vars
  BY <1>30 DEF vars
<1>31. CASE CommitLands
  BY <1>31, StoreType DEF CommitLands
<1>32. QED
  BY <1>1, <1>2, <1>3, <1>4, <1>5, <1>6, <1>7, <1>8, <1>9, <1>10, <1>11, <1>12, <1>13,
     <1>14, <1>15, <1>16, <1>17, <1>18, <1>19, <1>20, <1>21, <1>22, <1>23, <1>24, <1>25,
     <1>26, <1>27, <1>28, <1>29, <1>30, <1>31 DEF Next, Step, Upstream

\* A step of a task without the lock that leaves the lock alone keeps LockInv.
LEMMA LockFrame ==
  ASSUME TypeOK, LockInv, NEW t \in Tasks, UNCHANGED lock,
         \E label \in Labels : Goto(t, label) /\ (pc[t] \in Locked <=> label \in Locked)
  PROVE  LockInv'
  BY DEF TypeOK, LockInv, GrantsHaveOwners, lock, Goto

\* Every step keeps the ownership of the advisory lock consistent.
LEMMA LockStep == TypeOK /\ LockInv /\ [Next]_vars => LockInv'
<1> SUFFICES ASSUME TypeOK, LockInv, [Next]_vars PROVE LockInv'
  OBVIOUS
<1> USE NoneAssumption DEF Labels, Locked, Fallible, Stored, GrantsHaveOwners
<1>1. ASSUME NEW t \in Tasks, Begin(t) PROVE LockInv'
  BY <1>1, LockFrame DEF Begin, lock
<1>2. ASSUME NEW t \in Tasks, BeginBackground(t) PROVE LockInv'
  BY <1>2, LockFrame DEF BeginBackground, lock
<1>3. ASSUME NEW t \in Tasks, ReadMarker(t) PROVE LockInv'
  BY <1>3, LockFrame DEF ReadMarker, lock
<1>4. ASSUME NEW t \in Tasks, Mark(t) PROVE LockInv'
  BY <1>4, LockFrame DEF Mark, AfterSync, lock
<1>5. ASSUME NEW t \in Tasks, ClearMem(t) PROVE LockInv'
  BY <1>5, LockFrame DEF ClearMem, lock
<1>6. ASSUME NEW t \in Tasks, ClearProcessed(t) PROVE LockInv'
  BY <1>6, LockFrame DEF ClearProcessed, AfterSync, lock
<1>7. ASSUME NEW t \in Tasks, CheckMem(t) PROVE LockInv'
  BY <1>7, LockFrame DEF CheckMem, Finish, lock
<1>8. ASSUME NEW t \in Tasks, LoadRows(t) PROVE LockInv'
  BY <1>8, LockFrame DEF LoadRows, NothingStored, lock
<1>9. ASSUME NEW t \in Tasks, CacheMem(t) PROVE LockInv'
  BY <1>9, LockFrame DEF CacheMem, lock
<1>10. ASSUME NEW t \in Tasks, CacheProcessed(t) PROVE LockInv'
  BY <1>10, LockFrame DEF CacheProcessed, Finish, lock
<1>11. ASSUME NEW t \in Tasks, LockMutex(t) PROVE LockInv'
  BY <1>11, LockFrame DEF LockMutex, lock
<1>12. ASSUME NEW t \in Tasks, WaitInit(t) PROVE LockInv'
  BY <1>12, LockFrame DEF WaitInit, lock
<1>13. ASSUME NEW t \in Tasks, Poll(t) PROVE LockInv'
  BY <1>13, LockFrame DEF Poll, lock
<1>14. ASSUME NEW t \in Tasks, TimeOut(t) PROVE LockInv'
  BY <1>14, LockFrame DEF TimeOut, Finish, lock
<1>15. ASSUME NEW t \in Tasks, Fetch(t) PROVE LockInv'
  BY <1>15, LockFrame DEF Fetch, lock
<1>16. ASSUME NEW t \in Tasks, Validate(t) PROVE LockInv'
  BY <1>16, LockFrame DEF Validate, lock
<1>17. ASSUME NEW t \in Tasks, Persist(t) PROVE LockInv'
  BY <1>17, LockFrame DEF Persist, lock
<1>18. ASSUME NEW t \in Tasks, ReadOwn(t) PROVE LockInv'
  BY <1>18, LockFrame DEF ReadOwn, lock
<1>19. ASSUME NEW t \in Tasks, SetMarker(t) PROVE LockInv'
  BY <1>19, LockFrame DEF SetMarker, lock
<1>20. ASSUME NEW t \in Tasks, CacheFresh(t) PROVE LockInv'
  BY <1>20, LockFrame DEF CacheFresh, lock
<1>21. ASSUME NEW t \in Tasks, LoadRow(t) PROVE LockInv'
  <2>1. PICK label \in {"poll", "lockMutex", "loadRows"} : Goto(t, label)
    BY <1>21 DEF LoadRow, NothingStored
  <2>2. UNCHANGED lock /\ pc[t] \notin Locked
    BY <1>21 DEF LoadRow
  <2>3. QED
    BY <2>1, <2>2, LockFrame
<1>22. ASSUME NEW t \in Tasks, TryLock(t) PROVE LockInv'
  BY <1>22 DEF TryLock, Grantable, Goto, TypeOK, LockInv, lock
<1>23. ASSUME NEW t \in Tasks, ProcessFresh(t) PROVE LockInv'
  BY <1>23 DEF ProcessFresh, DropGuard, Finish, Goto, TypeOK, LockInv, lock
<1>24. ASSUME NEW t \in Tasks, Abort(t) PROVE LockInv'
  BY <1>24 DEF Abort, DropGuard, Finish, Goto, TypeOK, LockInv, lock
<1>25. ASSUME NEW t \in Tasks, LeakLock(t) PROVE LockInv'
  BY <1>25 DEF LeakLock, Grantable, Finish, Goto, TypeOK, LockInv
<1>26. ASSUME NEW p \in Procs, Expire(p) PROVE LockInv'
  BY <1>26 DEF Expire, LockInv, lock
<1>27. ASSUME NEW p \in Procs, Crash(p) PROVE LockInv'
  BY <1>27 DEF Crash, TypeOK, LockInv, lock
<1>28. CASE Unlock
  BY <1>28 DEF Unlock, TypeOK, LockInv
<1>29. CASE Reap
  BY <1>29 DEF Reap, TypeOK, LockInv
<1>30. CASE UNCHANGED vars
  BY <1>30 DEF vars, lock, LockInv
<1>31. CASE CommitLands
  BY <1>31 DEF CommitLands, LockInv, lock
<1>32. QED
  BY <1>1, <1>2, <1>3, <1>4, <1>5, <1>6, <1>7, <1>8, <1>9, <1>10, <1>11, <1>12, <1>13,
     <1>14, <1>15, <1>16, <1>17, <1>18, <1>19, <1>20, <1>21, <1>22, <1>23, <1>24, <1>25,
     <1>26, <1>27, <1>28, <1>29, <1>30, <1>31 DEF Next, Step, Upstream

\* Types and ownership of the lock, together: neither is inductive alone.
LEMMA LockCorrect == Spec => [](TypeOK /\ LockInv)
<1>1. Init => TypeOK /\ LockInv
  BY TypeInit DEF Init, LockInv, GrantsHaveOwners, Locked, Stored
<1>2. TypeOK /\ LockInv /\ [Next]_vars => (TypeOK /\ LockInv)'
  BY TypeStep, LockStep
<1>3. QED
  BY <1>1, <1>2, PTL DEF Spec

\* Every variable keeps its type, whatever the processes do and wherever they fail.
THEOREM TypeCorrect == Spec => []TypeOK
  BY LockCorrect, PTL

\* At most one task of all the processes holds the advisory lock: the grant, the
\* guard's drop, crashes and leaked grants never let a second refresh in.
THEOREM MutualExclusion == Spec => []RefreshExclusive
<1>1. LockInv => RefreshExclusive
  BY DEF LockInv, RefreshExclusive
<1>2. QED
  BY <1>1, LockCorrect, PTL

\* What LockReleased counts: the grants that are not leaked are one at most, and
\* while there is one its guard or the unlock the guard spawned is there too.
THEOREM GrantsOwned == Spec => []GrantsHaveOwners
<1>1. LockInv => GrantsHaveOwners
  BY DEF LockInv
<1>2. QED
  BY <1>1, LockCorrect, PTL

-----------------------------------------------------------------------------
(* The stored catalogue *)

\* Nothing but persist_payload writes the tables of the catalogue.
LEMMA DbFrame ==
  TypeOK /\ [Next]_vars => UNCHANGED tables \/ \E new \in Payload : Store(new)
<1> SUFFICES ASSUME TypeOK, [Next]_vars, ~UNCHANGED tables
             PROVE  \E new \in Payload : Store(new)
  OBVIOUS
<1>1. CommitLands \/ \E t \in Tasks : Persist(t)
  BY DEF Next, Step, Upstream, Begin, BeginBackground, ReadMarker, Mark, ClearMem,
         ClearProcessed, CheckMem, LoadRow, LoadRows, CacheMem, CacheProcessed,
         LockMutex, TryLock, Fetch, Validate, ReadOwn, SetMarker, CacheFresh,
         ProcessFresh, WaitInit, Poll, TimeOut, Abort, LeakLock, Expire, Crash,
         Unlock, Reap, vars, db
<1>2. CASE CommitLands
  BY <1>2 DEF CommitLands, TypeOK
<1>3. ASSUME NEW t \in Tasks, Persist(t) PROVE \E new \in Payload : Store(new)
  BY <1>3 DEF Persist, TypeOK, Local
<1>4. QED
  BY <1>1, <1>2, <1>3

\* Storing a payload confirms the one there is, or leaves only the new one.
LEMMA StoreEffect ==
  ASSUME TypeOK, DbIntegrity, NEW new \in Payload, Store(new)
  PROVE  /\ updated' = updated + 1
         /\ \/ /\ \E row \in payloads : row.id = current /\ row.fp = new.fp
               /\ UNCHANGED <<current, payloads, owner>>
            \/ /\ \A row \in payloads : row.fp # new.fp
               /\ current' = current + 1
               /\ payloads' = {[id |-> current', fp |-> new.fp]}
               /\ owner' = [s \in Stations |-> IF s \in new.rows THEN current' ELSE 0]
<1> USE DEF TypeOK
<1>1. CASE TouchState /\ \E row \in payloads : row.id = current /\ row.fp = new.fp
  BY <1>1 DEF TouchState
<1>2. CASE ReplacePayload(new) /\ ~\E row \in payloads : row.id = current /\ row.fp = new.fp
  <2> DEFINE id == current + 1
             moved == [s \in Stations |-> IF s \in new.rows THEN id ELSE owner[s]]
  <2>1. payloads' = {[id |-> id, fp |-> new.fp]} /\ current' = id /\ updated' = updated + 1
    BY <1>2 DEF ReplacePayload, DbIntegrity
  <2>2. \A row \in payloads : row.fp # new.fp
    BY <1>2 DEF DbIntegrity
  <2>3. \A s \in Stations : owner[s] \in {0, current}
    BY DEF DbIntegrity
  <2>4. owner' = [s \in Stations |->
                    IF \E row \in payloads' : row.id = moved[s] THEN moved[s] ELSE 0]
    BY <1>2 DEF ReplacePayload
  <2>5. \A m : (\E row \in payloads' : row.id = m) <=> m = id
    BY <2>1
  <2>6. \A s \in Stations : owner'[s] = IF s \in new.rows THEN id ELSE 0
    <3>1. ASSUME NEW s \in new.rows \cap Stations PROVE owner'[s] = id
      <4>1. moved[s] = id
        OBVIOUS
      <4>2. QED
        BY <2>4, <2>5, <4>1
    <3>2. ASSUME NEW s \in Stations \ new.rows PROVE owner'[s] = 0
      <4>1. moved[s] # id
        BY <2>3
      <4>2. QED
        BY <2>4, <2>5, <4>1
    <3>3. QED
      BY <3>1, <3>2
  <2>7. owner' = [s \in Stations |-> IF s \in new.rows THEN id ELSE 0]
    BY <2>4, <2>6
  <2>8. QED
    BY <2>1, <2>2, <2>7
<1>3. QED
  BY <1>1, <1>2 DEF Store

\* Every step keeps one payload and no stations but its own.
LEMMA DbStep == TypeOK /\ DbIntegrity /\ [Next]_vars => DbIntegrity'
<1> SUFFICES ASSUME TypeOK, DbIntegrity, [Next]_vars PROVE DbIntegrity'
  OBVIOUS
<1>1. CASE UNCHANGED tables
  BY <1>1 DEF DbIntegrity, tables
<1>2. ASSUME NEW new \in Payload, Store(new) PROVE DbIntegrity'
  <2>1. CASE UNCHANGED <<current, payloads, owner>>
    BY <2>1 DEF DbIntegrity
  <2>2. CASE /\ payloads' = {[id |-> current', fp |-> new.fp]}
             /\ owner' = [s \in Stations |-> IF s \in new.rows THEN current' ELSE 0]
    BY <2>2 DEF DbIntegrity
  <2>3. QED
    BY <1>2, <2>1, <2>2, StoreEffect
<1>3. QED
  BY <1>1, <1>2, DbFrame

\* A COMMIT in flight leaves no room for a refresh that has stored its result:
\* the next one to persist waits for it.
StoredInv ==
    /\ StoredIsMine
    /\ inFlight # NoPayload => \A t \in Tasks : pc[t] \notin Stored

\* What a refresh has persisted is the catalogue for as long as it has the lock.
LEMMA StoredStep ==
  TypeOK /\ LockInv /\ DbIntegrity /\ StoredInv /\ [Next]_vars => StoredInv'
<1> SUFFICES ASSUME TypeOK, LockInv, DbIntegrity, StoredInv, [Next]_vars
             PROVE StoredInv'
  OBVIOUS
<1> USE DEF TypeOK, StoredInv, StoredIsMine, Stored, db, tables
<1>1. ASSUME NEW t \in Tasks, Begin(t) PROVE StoredInv'
  BY <1>1 DEF Begin, Goto
<1>2. ASSUME NEW t \in Tasks, BeginBackground(t) PROVE StoredInv'
  BY <1>2 DEF BeginBackground, Goto
<1>3. ASSUME NEW t \in Tasks, ReadMarker(t) PROVE StoredInv'
  BY <1>3 DEF ReadMarker, Goto
<1>4. ASSUME NEW t \in Tasks, Mark(t) PROVE StoredInv'
  BY <1>4 DEF Mark, AfterSync, Goto
<1>5. ASSUME NEW t \in Tasks, ClearMem(t) PROVE StoredInv'
  BY <1>5 DEF ClearMem, Goto
<1>6. ASSUME NEW t \in Tasks, ClearProcessed(t) PROVE StoredInv'
  BY <1>6 DEF ClearProcessed, AfterSync, Goto
<1>7. ASSUME NEW t \in Tasks, CheckMem(t) PROVE StoredInv'
  BY <1>7 DEF CheckMem, Finish, Goto
<1>8. ASSUME NEW t \in Tasks, LoadRow(t) PROVE StoredInv'
  <2>1. UNCHANGED <<updated, current, payloads, owner, inFlight>>
    BY <1>8 DEF LoadRow
  <2>2. pc'[t] \in {"poll", "lockMutex", "loadRows"}
    BY <1>8 DEF LoadRow, NothingStored, Goto
  <2>3. \A u \in Tasks \ {t} : pc'[u] = pc[u] /\ loc'[u] = loc[u]
    BY <1>8 DEF LoadRow, NothingStored, Goto
  <2>4. QED
    BY <2>1, <2>2, <2>3
<1>9. ASSUME NEW t \in Tasks, LoadRows(t) PROVE StoredInv'
  BY <1>9 DEF LoadRows, NothingStored, Goto
<1>10. ASSUME NEW t \in Tasks, CacheMem(t) PROVE StoredInv'
  BY <1>10 DEF CacheMem, Goto
<1>11. ASSUME NEW t \in Tasks, CacheProcessed(t) PROVE StoredInv'
  BY <1>11 DEF CacheProcessed, Finish, Goto
<1>12. ASSUME NEW t \in Tasks, LockMutex(t) PROVE StoredInv'
  BY <1>12 DEF LockMutex, Goto
<1>13. ASSUME NEW t \in Tasks, TryLock(t) PROVE StoredInv'
  BY <1>13 DEF TryLock, Goto
<1>14. ASSUME NEW t \in Tasks, Fetch(t) PROVE StoredInv'
  BY <1>14 DEF Fetch, Goto
<1>15. ASSUME NEW t \in Tasks, Validate(t) PROVE StoredInv'
  BY <1>15 DEF Validate, Goto
<1>16. ASSUME NEW t \in Tasks, Persist(t) PROVE StoredInv'
  <2>1. \A u \in Tasks : pc[u] \notin Stored
    BY <1>16 DEF Persist, LockInv, Locked
  <2>2. pc' = [pc EXCEPT ![t] = "readOwn"] /\ UNCHANGED <<loc, inFlight>> /\ inFlight = NoPayload
    BY <1>16 DEF Persist, Goto
  <2>3. loc[t].got \in Payload /\ Store(loc[t].got)
    BY <1>16 DEF Persist, Local
  <2>4. \E row \in payloads' : row.id = current' /\ row.fp = loc[t].got.fp
    <3> DEFINE new == loc[t].got
    <3>1. \/ /\ \E row \in payloads : row.id = current /\ row.fp = new.fp
             /\ UNCHANGED <<current, payloads>>
          \/ payloads' = {[id |-> current', fp |-> new.fp]}
      BY <2>3, StoreEffect
    <3>2. CASE payloads' = {[id |-> current', fp |-> new.fp]}
      <4>1. [id |-> current', fp |-> new.fp] \in payloads'
        BY <3>2
      <4>2. QED
        BY <4>1
    <3>3. QED
      BY <3>1, <3>2
  <2>5. QED
    BY <2>1, <2>2, <2>4
<1>17. ASSUME NEW t \in Tasks, ReadOwn(t) PROVE StoredInv'
  BY <1>17 DEF ReadOwn, Goto
<1>18. ASSUME NEW t \in Tasks, SetMarker(t) PROVE StoredInv'
  BY <1>18 DEF SetMarker, Goto
<1>19. ASSUME NEW t \in Tasks, CacheFresh(t) PROVE StoredInv'
  BY <1>19 DEF CacheFresh, Goto
<1>20. ASSUME NEW t \in Tasks, ProcessFresh(t) PROVE StoredInv'
  BY <1>20 DEF ProcessFresh, Finish, Goto
<1>21. ASSUME NEW t \in Tasks, WaitInit(t) PROVE StoredInv'
  BY <1>21 DEF WaitInit, Goto
<1>22. ASSUME NEW t \in Tasks, Poll(t) PROVE StoredInv'
  BY <1>22 DEF Poll, Goto
<1>23. ASSUME NEW t \in Tasks, TimeOut(t) PROVE StoredInv'
  BY <1>23 DEF TimeOut, Finish, Goto
<1>24. ASSUME NEW t \in Tasks, Abort(t) PROVE StoredInv'
  BY <1>24 DEF Abort, Finish, Goto, LeaveCommit, LockInv, Locked
<1>25. ASSUME NEW t \in Tasks, LeakLock(t) PROVE StoredInv'
  BY <1>25 DEF LeakLock, Finish, Goto
<1>26. ASSUME NEW p \in Procs, Expire(p) PROVE StoredInv'
  BY <1>26 DEF Expire
<1>27. ASSUME NEW p \in Procs, Crash(p) PROVE StoredInv'
  BY <1>27 DEF Crash, LeaveCommit, LockInv, Locked
<1>28. CASE Unlock
  BY <1>28 DEF Unlock
<1>29. CASE Reap
  BY <1>29 DEF Reap
<1>30. CASE UNCHANGED vars
  BY <1>30 DEF vars
<1>31. CASE CommitLands
  BY <1>31 DEF CommitLands
<1>32. QED
  BY <1>1, <1>2, <1>3, <1>4, <1>5, <1>6, <1>7, <1>8, <1>9, <1>10, <1>11, <1>12, <1>13,
     <1>14, <1>15, <1>16, <1>17, <1>18, <1>19, <1>20, <1>21, <1>22, <1>23, <1>24, <1>25,
     <1>26, <1>27, <1>28, <1>29, <1>30, <1>31 DEF Next, Step, Upstream

\* Between its two queries a load is left with the payload it read, or with one
\* that was replaced and has no stations any more.
ReadInv ==
    /\ NoTornPayload
    /\ \A t \in Tasks :
          pc[t] = "loadRows" =>
              /\ loc[t].id # 0 /\ loc[t].id <= current
              /\ loc[t].id = current => loc[t].want = RowsOf(current)

\* Every step keeps what a load knows between its two queries.
LEMMA ReadStep == TypeOK /\ DbIntegrity /\ ReadInv /\ [Next]_vars => ReadInv'
<1> SUFFICES ASSUME TypeOK, DbIntegrity, ReadInv, [Next]_vars PROVE ReadInv'
  OBVIOUS
<1> USE DEF TypeOK, ReadInv, NoTornPayload, RowsOf, db, tables
<1>1. ASSUME NEW t \in Tasks, Begin(t) PROVE ReadInv'
  BY <1>1 DEF Begin, Goto
<1>2. ASSUME NEW t \in Tasks, BeginBackground(t) PROVE ReadInv'
  BY <1>2 DEF BeginBackground, Goto
<1>3. ASSUME NEW t \in Tasks, ReadMarker(t) PROVE ReadInv'
  BY <1>3 DEF ReadMarker, Goto
<1>4. ASSUME NEW t \in Tasks, Mark(t) PROVE ReadInv'
  BY <1>4 DEF Mark, AfterSync, Goto
<1>5. ASSUME NEW t \in Tasks, ClearMem(t) PROVE ReadInv'
  BY <1>5 DEF ClearMem, Goto
<1>6. ASSUME NEW t \in Tasks, ClearProcessed(t) PROVE ReadInv'
  BY <1>6 DEF ClearProcessed, AfterSync, Goto
<1>7. ASSUME NEW t \in Tasks, CheckMem(t) PROVE ReadInv'
  BY <1>7 DEF CheckMem, Finish, Goto
<1>8. ASSUME NEW t \in Tasks, LoadRow(t) PROVE ReadInv'
  <2>1. CASE NothingStored(t)
    BY <1>8, <2>1 DEF LoadRow, NothingStored, Goto
  <2>2. ASSUME NEW row \in payloads, row.id = current,
               loc' = [loc EXCEPT ![t].id = row.id,
                                  ![t].got = [fp |-> row.fp, rows |-> {}],
                                  ![t].want = RowsOf(row.id), ![t].readAt = updated],
               Goto(t, "loadRows")
        PROVE ReadInv'
    <3> DEFINE l == [loc[t] EXCEPT !.id = row.id, !.got = [fp |-> row.fp, rows |-> {}],
                                   !.want = RowsOf(row.id), !.readAt = updated]
    <3>1. l.id = current /\ l.want = RowsOf(current)
      <4>1. loc[t] \in Local
        OBVIOUS
      <4>2. l.id = row.id /\ l.want = RowsOf(row.id)
        BY <4>1, RowUpdate
      <4>3. QED
        BY <2>2, <4>2
    <3>2. loc'[t] = l /\ pc'[t] = "loadRows"
      BY <2>2 DEF Goto
    <3>3. \A u \in Tasks \ {t} : pc'[u] = pc[u] /\ loc'[u] = loc[u]
      BY <2>2 DEF Goto
    <3>4. UNCHANGED <<current, owner>> /\ current # 0
      BY <1>8, <2>2 DEF LoadRow
    <3> HIDE DEF l
    <3>5. QED
      BY <3>1, <3>2, <3>3, <3>4
  <2>3. QED
    BY <1>8, <2>1, <2>2 DEF LoadRow
<1>9. ASSUME NEW t \in Tasks, LoadRows(t) PROVE ReadInv'
  <2>1. CASE NothingStored(t)
    BY <1>9, <2>1 DEF LoadRows, NothingStored, Goto
  <2>2. CASE /\ RowsOf(loc[t].id) # {}
             /\ loc' = [loc EXCEPT ![t].got.rows = RowsOf(loc[t].id)]
             /\ Goto(t, "cacheMem")
    <3>1. PICK s \in Stations : owner[s] = loc[t].id
      BY <2>2
    <3>2. loc[t].id = current
      BY <1>9, <3>1 DEF LoadRows, DbIntegrity
    <3>3. RowsOf(loc[t].id) = loc[t].want
      BY <1>9, <3>2 DEF LoadRows
    <3>4. loc'[t].got.rows = loc'[t].want
      BY <2>2, <3>3 DEF Local, Payload
    <3>5. QED
      BY <1>9, <2>2, <3>4 DEF LoadRows, Goto
  <2>3. QED
    BY <1>9, <2>1, <2>2 DEF LoadRows
<1>10. ASSUME NEW t \in Tasks, CacheMem(t) PROVE ReadInv'
  BY <1>10 DEF CacheMem, Goto
<1>11. ASSUME NEW t \in Tasks, CacheProcessed(t) PROVE ReadInv'
  BY <1>11 DEF CacheProcessed, Finish, Goto
<1>12. ASSUME NEW t \in Tasks, LockMutex(t) PROVE ReadInv'
  BY <1>12 DEF LockMutex, Goto
<1>13. ASSUME NEW t \in Tasks, TryLock(t) PROVE ReadInv'
  BY <1>13 DEF TryLock, Goto
<1>14. ASSUME NEW t \in Tasks, Fetch(t) PROVE ReadInv'
  BY <1>14 DEF Fetch, Goto
<1>15. ASSUME NEW t \in Tasks, Validate(t) PROVE ReadInv'
  BY <1>15 DEF Validate, Goto
<1>16. ASSUME NEW t \in Tasks, Persist(t) PROVE ReadInv'
  <2>1. pc' = [pc EXCEPT ![t] = "readOwn"] /\ loc' = loc
    BY <1>16 DEF Persist, Goto
  <2>2. loc[t].got \in Payload /\ Store(loc[t].got)
    BY <1>16 DEF Persist, Local
  <2>3. CASE UNCHANGED <<current, payloads, owner>>
    BY <2>1, <2>3
  <2>4. CASE current' = current + 1
    BY <2>1, <2>4 DEF Local
  <2>5. QED
    BY <2>2, <2>3, <2>4, StoreEffect
<1>17. ASSUME NEW t \in Tasks, ReadOwn(t) PROVE ReadInv'
  BY <1>17 DEF ReadOwn, Goto
<1>18. ASSUME NEW t \in Tasks, SetMarker(t) PROVE ReadInv'
  BY <1>18 DEF SetMarker, Goto
<1>19. ASSUME NEW t \in Tasks, CacheFresh(t) PROVE ReadInv'
  BY <1>19 DEF CacheFresh, Goto
<1>20. ASSUME NEW t \in Tasks, ProcessFresh(t) PROVE ReadInv'
  BY <1>20 DEF ProcessFresh, Finish, Goto
<1>21. ASSUME NEW t \in Tasks, WaitInit(t) PROVE ReadInv'
  BY <1>21 DEF WaitInit, Goto
<1>22. ASSUME NEW t \in Tasks, Poll(t) PROVE ReadInv'
  BY <1>22 DEF Poll, Goto
<1>23. ASSUME NEW t \in Tasks, TimeOut(t) PROVE ReadInv'
  BY <1>23 DEF TimeOut, Finish, Goto
<1>24. ASSUME NEW t \in Tasks, Abort(t) PROVE ReadInv'
  BY <1>24 DEF Abort, Finish, Goto
<1>25. ASSUME NEW t \in Tasks, LeakLock(t) PROVE ReadInv'
  BY <1>25 DEF LeakLock, Finish, Goto
<1>26. ASSUME NEW p \in Procs, Expire(p) PROVE ReadInv'
  BY <1>26 DEF Expire
<1>27. ASSUME NEW p \in Procs, Crash(p) PROVE ReadInv'
  BY <1>27 DEF Crash
<1>28. CASE Unlock
  BY <1>28 DEF Unlock
<1>29. CASE Reap
  BY <1>29 DEF Reap
<1>30. CASE UNCHANGED vars
  BY <1>30 DEF vars
<1>31. CASE CommitLands
  <2>1. UNCHANGED <<pc, loc>> /\ Store(inFlight)
    BY <1>31 DEF CommitLands
  <2>2. CASE UNCHANGED <<current, payloads, owner>>
    BY <2>1, <2>2
  <2>3. CASE current' = current + 1
    BY <2>1, <2>3 DEF Local
  <2>4. QED
    BY <2>1, <2>2, <2>3, StoreEffect
<1>32. QED
  BY <1>1, <1>2, <1>3, <1>4, <1>5, <1>6, <1>7, <1>8, <1>9, <1>10, <1>11, <1>12, <1>13,
     <1>14, <1>15, <1>16, <1>17, <1>18, <1>19, <1>20, <1>21, <1>22, <1>23, <1>24, <1>25,
     <1>26, <1>27, <1>28, <1>29, <1>30, <1>31 DEF Next, Step, Upstream

\* A waiter goes on to read the catalogue only once updated_at has moved.
WaitInv ==
    /\ WaiterSeesNewer
    /\ \A t \in Tasks :
          /\ loc[t].base <= updated
          /\ pc[t] \in {"idle", "checkMem"} => ~Waiting(t)
          /\ Waiting(t) /\ pc[t] \in {"readMarker", "mark", "clearMem",
                                      "clearProcessed", "loadRow"} =>
                updated > loc[t].base

\* Every step keeps a waiter's reads newer than the version it waits on.
LEMMA WaitStep == TypeOK /\ WaitInv /\ [Next]_vars => WaitInv'
<1> SUFFICES ASSUME TypeOK, WaitInv, [Next]_vars PROVE WaitInv'
  OBVIOUS
<1> USE DEF TypeOK, WaitInv, WaiterSeesNewer, Waiting, Local, Fresh, db, tables
<1>1. ASSUME NEW t \in Tasks, Begin(t) PROVE WaitInv'
  BY <1>1 DEF Begin, Goto
<1>2. ASSUME NEW t \in Tasks, BeginBackground(t) PROVE WaitInv'
  BY <1>2 DEF BeginBackground, Goto
<1>3. ASSUME NEW t \in Tasks, ReadMarker(t) PROVE WaitInv'
  BY <1>3 DEF ReadMarker, Goto
<1>4. ASSUME NEW t \in Tasks, Mark(t) PROVE WaitInv'
  BY <1>4 DEF Mark, AfterSync, Goto
<1>5. ASSUME NEW t \in Tasks, ClearMem(t) PROVE WaitInv'
  BY <1>5 DEF ClearMem, Goto
<1>6. ASSUME NEW t \in Tasks, ClearProcessed(t) PROVE WaitInv'
  BY <1>6 DEF ClearProcessed, AfterSync, Goto
<1>7. ASSUME NEW t \in Tasks, CheckMem(t) PROVE WaitInv'
  <2>1. CASE Finish(t)
    BY <1>7, <2>1 DEF CheckMem, Finish, Goto
  <2>2. CASE Goto(t, "loadRow") /\ UNCHANGED loc
    BY <1>7, <2>2 DEF CheckMem, Goto
  <2>3. QED
    BY <1>7, <2>1, <2>2 DEF CheckMem
<1>8. ASSUME NEW t \in Tasks, LoadRow(t) PROVE WaitInv'
  <2>1. CASE NothingStored(t)
    <3> DEFINE l == [loc[t] EXCEPT !.id = 0, !.got = NoPayload, !.want = {}, !.readAt = 0]
    <3>1. l.base = loc[t].base
      BY RowUpdate
    <3>2. loc'[t] = l /\ pc'[t] \in {"poll", "lockMutex"}
      BY <2>1 DEF NothingStored, Goto
    <3>3. \A u \in Tasks \ {t} : pc'[u] = pc[u] /\ loc'[u] = loc[u]
      BY <2>1 DEF NothingStored, Goto
    <3>4. UNCHANGED updated
      BY <1>8 DEF LoadRow
    <3> HIDE DEF l
    <3>5. QED
      BY <3>1, <3>2, <3>3, <3>4
  <2>2. ASSUME NEW row \in payloads, row.id = current,
               loc' = [loc EXCEPT ![t].id = row.id,
                                  ![t].got = [fp |-> row.fp, rows |-> {}],
                                  ![t].want = RowsOf(row.id), ![t].readAt = updated],
               Goto(t, "loadRows")
        PROVE WaitInv'
    <3> DEFINE l == [loc[t] EXCEPT !.id = row.id, !.got = [fp |-> row.fp, rows |-> {}],
                                   !.want = RowsOf(row.id), !.readAt = updated]
    <3>1. l.base = loc[t].base /\ l.readAt = updated
      OBVIOUS
    <3>2. loc'[t] = l /\ pc'[t] = "loadRows"
      BY <2>2 DEF Goto
    <3>3. \A u \in Tasks \ {t} : pc'[u] = pc[u] /\ loc'[u] = loc[u]
      BY <2>2 DEF Goto
    <3>4. UNCHANGED updated /\ pc[t] = "loadRow"
      BY <1>8 DEF LoadRow
    <3> HIDE DEF l
    <3>5. QED
      BY <3>1, <3>2, <3>3, <3>4
  <2>3. QED
    BY <1>8, <2>1, <2>2 DEF LoadRow
<1>9. ASSUME NEW t \in Tasks, LoadRows(t) PROVE WaitInv'
  <2>1. CASE NothingStored(t)
    BY <1>9, <2>1 DEF LoadRows, NothingStored, Goto
  <2>2. CASE /\ loc' = [loc EXCEPT ![t].got.rows = RowsOf(loc[t].id)]
             /\ Goto(t, "cacheMem")
    BY <1>9, <2>2 DEF LoadRows, Goto
  <2>3. QED
    BY <1>9, <2>1, <2>2 DEF LoadRows
<1>10. ASSUME NEW t \in Tasks, CacheMem(t) PROVE WaitInv'
  BY <1>10 DEF CacheMem, Goto
<1>11. ASSUME NEW t \in Tasks, CacheProcessed(t) PROVE WaitInv'
  BY <1>11 DEF CacheProcessed, Finish, Goto
<1>12. ASSUME NEW t \in Tasks, LockMutex(t) PROVE WaitInv'
  BY <1>12 DEF LockMutex, Goto
<1>13. ASSUME NEW t \in Tasks, TryLock(t) PROVE WaitInv'
  <2>1. UNCHANGED updated /\ pc[t] = "tryLock"
    BY <1>13 DEF TryLock
  <2>2. pc'[t] \in {"fetch", "waitInit"} /\ loc'[t].base = loc[t].base
    BY <1>13 DEF TryLock, Goto
  <2>3. \A u \in Tasks \ {t} : pc'[u] = pc[u] /\ loc'[u] = loc[u]
    BY <1>13 DEF TryLock, Goto
  <2>4. QED
    BY <2>1, <2>2, <2>3
<1>14. ASSUME NEW t \in Tasks, Fetch(t) PROVE WaitInv'
  BY <1>14 DEF Fetch, Goto
<1>15. ASSUME NEW t \in Tasks, Validate(t) PROVE WaitInv'
  BY <1>15 DEF Validate, Goto
<1>16. ASSUME NEW t \in Tasks, Persist(t) PROVE WaitInv'
  <2>1. updated' = updated + 1
    BY <1>16 DEF Persist, Store, TouchState, ReplacePayload
  <2>2. pc' = [pc EXCEPT ![t] = "readOwn"] /\ loc' = loc
    BY <1>16 DEF Persist, Goto
  <2>3. QED
    BY <2>1, <2>2
<1>17. ASSUME NEW t \in Tasks, ReadOwn(t) PROVE WaitInv'
  BY <1>17 DEF ReadOwn, Goto
<1>18. ASSUME NEW t \in Tasks, SetMarker(t) PROVE WaitInv'
  BY <1>18 DEF SetMarker, Goto
<1>19. ASSUME NEW t \in Tasks, CacheFresh(t) PROVE WaitInv'
  BY <1>19 DEF CacheFresh, Goto
<1>20. ASSUME NEW t \in Tasks, ProcessFresh(t) PROVE WaitInv'
  BY <1>20 DEF ProcessFresh, Finish, Goto
<1>21. ASSUME NEW t \in Tasks, WaitInit(t) PROVE WaitInv'
  BY <1>21 DEF WaitInit, Goto
<1>22. ASSUME NEW t \in Tasks, Poll(t) PROVE WaitInv'
  <2>1. CASE updated = loc[t].base
    BY <1>22, <2>1 DEF Poll, Goto
  <2>2. CASE updated # loc[t].base
    BY <1>22, <2>2 DEF Poll, Goto
  <2>3. QED
    BY <2>1, <2>2
<1>23. ASSUME NEW t \in Tasks, TimeOut(t) PROVE WaitInv'
  BY <1>23 DEF TimeOut, Finish, Goto
<1>24. ASSUME NEW t \in Tasks, Abort(t) PROVE WaitInv'
  BY <1>24 DEF Abort, Finish, Goto
<1>25. ASSUME NEW t \in Tasks, LeakLock(t) PROVE WaitInv'
  BY <1>25 DEF LeakLock, Finish, Goto
<1>26. ASSUME NEW p \in Procs, Expire(p) PROVE WaitInv'
  BY <1>26 DEF Expire
<1>27. ASSUME NEW p \in Procs, Crash(p) PROVE WaitInv'
  BY <1>27 DEF Crash
<1>28. CASE Unlock
  BY <1>28 DEF Unlock
<1>29. CASE Reap
  BY <1>29 DEF Reap
<1>30. CASE UNCHANGED vars
  BY <1>30 DEF vars
<1>31. CASE CommitLands
  <2>1. updated' = updated + 1
    BY <1>31 DEF CommitLands, Store, TouchState, ReplacePayload
  <2>2. UNCHANGED <<pc, loc>>
    BY <1>31 DEF CommitLands
  <2>3. QED
    BY <2>1, <2>2
<1>32. QED
  BY <1>1, <1>2, <1>3, <1>4, <1>5, <1>6, <1>7, <1>8, <1>9, <1>10, <1>11, <1>12, <1>13,
     <1>14, <1>15, <1>16, <1>17, <1>18, <1>19, <1>20, <1>21, <1>22, <1>23, <1>24, <1>25,
     <1>26, <1>27, <1>28, <1>29, <1>30, <1>31 DEF Next, Step, Upstream

\* With TypeOK and LockInv: what a reader needs to know of the catalogue.
CatalogueInv == DbIntegrity /\ StoredInv /\ ReadInv /\ WaitInv

\* The invariants of the stored catalogue and of its readers.
LEMMA CatalogueCorrect == Spec => []CatalogueInv
<1>1. Init => CatalogueInv
  <2> SUFFICES ASSUME Init PROVE CatalogueInv
    OBVIOUS
  <2>1. DbIntegrity
    <3>1. CASE payloads = {} /\ owner = [s \in Stations |-> 0]
      BY <3>1 DEF DbIntegrity
    <3>2. ASSUME NEW listing \in Listings, NEW kept \in SUBSET listing,
                 current = 1, payloads = {[id |-> 1, fp |-> listing]},
                 owner = [s \in Stations |-> IF s \in kept THEN 1 ELSE 0]
          PROVE  DbIntegrity
      BY <3>2 DEF DbIntegrity
    <3>3. QED
      BY <3>1, <3>2 DEF Init, InitDb
  <2>2. QED
    BY <2>1 DEF Init, InitDb, CatalogueInv, StoredInv, StoredIsMine, Stored, ReadInv, NoTornPayload,
           WaitInv, WaiterSeesNewer, Waiting, Fresh
<1>2. TypeOK /\ LockInv /\ CatalogueInv /\ [Next]_vars => CatalogueInv'
  BY DbStep, StoredStep, ReadStep, WaitStep DEF CatalogueInv
<1>3. QED
  BY <1>1, <1>2, LockCorrect, PTL DEF Spec

\* One payload at a time and no stations but its own, after any refreshes.
THEOREM DatabaseIntegrity == Spec => []DbIntegrity
  BY CatalogueCorrect, PTL DEF CatalogueInv

\* The marker and the memory entry a refresh sets belong to what it persisted.
THEOREM RefreshKeepsItsResult == Spec => []StoredIsMine
<1>1. CatalogueInv => StoredIsMine
  BY DEF CatalogueInv, StoredInv
<1>2. QED
  BY <1>1, CatalogueCorrect, PTL

\* A load never mixes two payloads, though it reads them in two queries.
THEOREM NoTornRead == Spec => []NoTornPayload
<1>1. CatalogueInv => NoTornPayload
  BY DEF CatalogueInv, ReadInv
<1>2. QED
  BY <1>1, CatalogueCorrect, PTL

\* A waiter that answers does so with a catalogue read after another refresh.
THEOREM WaiterProgress == Spec => []WaiterSeesNewer
<1>1. CatalogueInv => WaiterSeesNewer
  BY DEF CatalogueInv, WaitInv
<1>2. QED
  BY <1>1, CatalogueCorrect, PTL

\* Every change of the stored catalogue moves the version the processes compare.
THEOREM VersionMoves == Spec => ChangeMovesVersion
<1>1. TypeOK /\ CatalogueInv /\ [Next]_vars =>
        [<<current, payloads, owner>>' # <<current, payloads, owner>> => updated' > updated]_vars
  <2> SUFFICES ASSUME TypeOK, CatalogueInv, [Next]_vars,
                      <<current, payloads, owner>>' # <<current, payloads, owner>>
               PROVE  updated' > updated
    OBVIOUS
  <2>1. PICK new \in Payload : Store(new)
    BY DbFrame DEF tables
  <2>2. updated' = updated + 1
    BY <2>1, StoreEffect DEF CatalogueInv
  <2>3. QED
    BY <2>2 DEF TypeOK
<1>2. QED
  BY <1>1, TypeCorrect, CatalogueCorrect, PTL DEF Spec, ChangeMovesVersion

-----------------------------------------------------------------------------
(* StationRefresh implements StationCatalogue *)

\* What a refresh is about to store is a listing and some of its stations.
ListingInv ==
    /\ \A t \in Tasks :
          pc[t] \in {"validate", "persist"} =>
              loc[t].got.fp \in Listings /\ loc[t].got.rows \subseteq loc[t].got.fp
    /\ inFlight # NoPayload =>
              inFlight.fp \in Listings /\ inFlight.rows \subseteq inFlight.fp

\* The steps of a task that has not been granted the lock.
Outside(t) ==
    \/ Begin(t) \/ BeginBackground(t)
    \/ ReadMarker(t) \/ Mark(t) \/ ClearMem(t) \/ ClearProcessed(t)
    \/ CheckMem(t) \/ LoadRow(t) \/ LoadRows(t) \/ CacheMem(t) \/ CacheProcessed(t)
    \/ LockMutex(t) \/ WaitInit(t) \/ Poll(t) \/ TimeOut(t)

\* They touch neither the database nor the lock, nor any other task.
LEMMA OutsideFrame ==
  ASSUME TypeOK, NEW t \in Tasks, Outside(t)
  PROVE  /\ UNCHANGED <<db, lock>>
         /\ pc[t] \notin Locked /\ pc'[t] \notin Locked
         /\ \A u \in Tasks \ {t} : pc'[u] = pc[u] /\ loc'[u] = loc[u]
<1> USE DEF TypeOK, Locked, Stored, Goto
<1>1. CASE Begin(t)
  BY <1>1 DEF Begin
<1>2. CASE BeginBackground(t)
  BY <1>2 DEF BeginBackground
<1>3. CASE ReadMarker(t)
  BY <1>3 DEF ReadMarker
<1>4. CASE Mark(t)
  BY <1>4 DEF Mark, AfterSync
<1>5. CASE ClearMem(t)
  BY <1>5 DEF ClearMem
<1>6. CASE ClearProcessed(t)
  BY <1>6 DEF ClearProcessed, AfterSync
<1>7. CASE CheckMem(t)
  BY <1>7 DEF CheckMem, Finish
<1>8. CASE LoadRow(t)
  <2>1. PICK label \in {"poll", "lockMutex", "loadRows"} : Goto(t, label)
    BY <1>8 DEF LoadRow, NothingStored
  <2>2. \A u \in Tasks \ {t} : loc'[u] = loc[u]
    BY <1>8 DEF LoadRow, NothingStored
  <2>3. QED
    BY <1>8, <2>1, <2>2 DEF LoadRow
<1>9. CASE LoadRows(t)
  BY <1>9 DEF LoadRows, NothingStored
<1>10. CASE CacheMem(t)
  BY <1>10 DEF CacheMem
<1>11. CASE CacheProcessed(t)
  BY <1>11 DEF CacheProcessed, Finish
<1>12. CASE LockMutex(t)
  BY <1>12 DEF LockMutex
<1>13. CASE WaitInit(t)
  BY <1>13 DEF WaitInit
<1>14. CASE Poll(t)
  BY <1>14 DEF Poll
<1>15. CASE TimeOut(t)
  BY <1>15 DEF TimeOut, Finish
<1>16. QED
  BY <1>1, <1>2, <1>3, <1>4, <1>5, <1>6, <1>7, <1>8, <1>9, <1>10, <1>11, <1>12,
     <1>13, <1>14, <1>15 DEF Outside

\* Every step is one of these.
LEMMA StepCases ==
  ASSUME [Next]_vars
  PROVE  \/ \E t \in Tasks : \/ Outside(t) \/ TryLock(t) \/ Fetch(t) \/ Validate(t)
                             \/ Persist(t) \/ ReadOwn(t) \/ SetMarker(t)
                             \/ CacheFresh(t) \/ ProcessFresh(t)
                             \/ Abort(t) \/ LeakLock(t)
         \/ \E p \in Procs : Expire(p) \/ Crash(p)
         \/ Unlock \/ Reap \/ CommitLands \/ UNCHANGED vars
  BY DEF Next, Step, Upstream, Outside

\* Every step keeps what is about to be stored within its listing.
LEMMA ListingStep == TypeOK /\ ListingInv /\ [Next]_vars => ListingInv'
<1> SUFFICES ASSUME TypeOK, ListingInv, [Next]_vars PROVE ListingInv'
  OBVIOUS
<1> USE DEF ListingInv, db
<1>1. ASSUME NEW t \in Tasks, Outside(t) PROVE ListingInv'
  BY <1>1, OutsideFrame DEF Locked
<1> USE DEF TypeOK
<1>2. ASSUME NEW t \in Tasks, TryLock(t) PROVE ListingInv'
  BY <1>2 DEF TryLock, Goto
<1>3. ASSUME NEW t \in Tasks, Fetch(t) PROVE ListingInv'
  <2>1. PICK listing \in Listings :
            loc' = [loc EXCEPT ![t].got = [fp |-> listing, rows |-> listing]]
    BY <1>3 DEF Fetch
  <2>2. loc'[t].got = [fp |-> listing, rows |-> listing]
    BY <2>1 DEF Local
  <2>3. loc'[t].got.fp \in Listings /\ loc'[t].got.rows \subseteq loc'[t].got.fp
    BY <2>2
  <2>4. QED
    BY <1>3, <2>1, <2>3 DEF Fetch, Goto
<1>4. ASSUME NEW t \in Tasks, Validate(t) PROVE ListingInv'
  <2>1. PICK kept \in SUBSET loc[t].got.rows : loc' = [loc EXCEPT ![t].got.rows = kept]
    BY <1>4 DEF Validate
  <2>2. loc'[t].got.fp = loc[t].got.fp /\ loc'[t].got.rows = kept
    BY <2>1 DEF Local, Payload
  <2>3. QED
    BY <1>4, <2>1, <2>2 DEF Validate, Goto
<1>5. ASSUME NEW t \in Tasks, Persist(t) PROVE ListingInv'
  BY <1>5 DEF Persist, Goto
<1>6. ASSUME NEW t \in Tasks, ReadOwn(t) PROVE ListingInv'
  BY <1>6 DEF ReadOwn, Goto
<1>7. ASSUME NEW t \in Tasks, SetMarker(t) PROVE ListingInv'
  BY <1>7 DEF SetMarker, Goto
<1>8. ASSUME NEW t \in Tasks, CacheFresh(t) PROVE ListingInv'
  BY <1>8 DEF CacheFresh, Goto
<1>9. ASSUME NEW t \in Tasks, ProcessFresh(t) PROVE ListingInv'
  BY <1>9 DEF ProcessFresh, Finish, Goto
<1>10. ASSUME NEW t \in Tasks, Abort(t) PROVE ListingInv'
  BY <1>10 DEF Abort, LeaveCommit, Finish, Goto
<1>11. ASSUME NEW t \in Tasks, LeakLock(t) PROVE ListingInv'
  BY <1>11 DEF LeakLock, Finish, Goto
<1>12. ASSUME NEW p \in Procs, Expire(p) PROVE ListingInv'
  BY <1>12 DEF Expire
<1>13. ASSUME NEW p \in Procs, Crash(p) PROVE ListingInv'
  BY <1>13 DEF Crash, LeaveCommit
<1>14. CASE Unlock
  BY <1>14 DEF Unlock
<1>15. CASE Reap
  BY <1>15 DEF Reap
<1>16. CASE CommitLands
  BY <1>16 DEF CommitLands
<1>17. CASE UNCHANGED vars
  BY <1>17 DEF vars
<1>18. QED
  BY <1>1, <1>2, <1>3, <1>4, <1>5, <1>6, <1>7, <1>8, <1>9, <1>10, <1>11, <1>12,
     <1>13, <1>14, <1>15, <1>16, <1>17, StepCases

-----------------------------------------------------------------------------
(* The refinement mapping *)

CurrentRows == IF current = 0 THEN {} ELSE RowsOf(current)
Done == \E t \in Tasks : t = lockTask /\ pc[t] \in Stored

\* The listing of the only payload, or none.
FpOf(rows, id) == UNION {row.fp : row \in {r \in rows : r.id = id}}

\* The listing of a table with one payload, which the state points at.
LEMMA FpOfOne == \A row : FpOf({row}, row.id) = row.fp
<1> SUFFICES ASSUME NEW row PROVE FpOf({row}, row.id) = row.fp
  OBVIOUS
<1>1. {q.fp : q \in {r \in {row} : r.id = row.id}} = {row.fp}
  OBVIOUS
<1>2. QED
  BY <1>1 DEF FpOf

\* The listing of an empty table.
LEMMA FpOfNone == \A id : FpOf({}, id) = {}
<1> SUFFICES ASSUME NEW id PROVE FpOf({}, id) = {}
  OBVIOUS
<1>1. {q.fp : q \in {r \in {} : r.id = id}} = {}
  OBVIOUS
<1>2. QED
  BY <1>1, Zenon DEF FpOf

\* Storing a payload is what the abstract specification calls Store.
LEMMA StoreMaps ==
  ASSUME TypeOK, DbIntegrity, NEW new \in Payload, Store(new),
         new.fp \in Listings, new.rows \subseteq new.fp
  PROVE  /\ updated' = updated + 1
         /\ \/ UNCHANGED <<CurrentFp, CurrentRows>>
            \/ \E listing \in Listings :
                  /\ listing # CurrentFp
                  /\ CurrentFp' = listing
                  /\ CurrentRows' \in SUBSET listing
<1>1. updated' = updated + 1
  BY StoreEffect
<1>2. CASE UNCHANGED <<current, payloads, owner>>
  BY <1>1, <1>2 DEF CurrentFp, CurrentRows, RowsOf
<1>3. CASE /\ \A row \in payloads : row.fp # new.fp
           /\ current' = current + 1
           /\ payloads' = {[id |-> current', fp |-> new.fp]}
           /\ owner' = [s \in Stations |-> IF s \in new.rows THEN current' ELSE 0]
  <2>1. CurrentFp' = new.fp
    <3> DEFINE row == [id |-> current', fp |-> new.fp]
    <3>1. row.id = current' /\ row.fp = new.fp
      OBVIOUS
    <3>2. CurrentFp' = FpOf({row}, row.id)
      BY <1>3, <3>1 DEF CurrentFp, FpOf
    <3>3. QED
      BY <3>1, <3>2, FpOfOne
  <2>2. current' # 0
    BY <1>3 DEF TypeOK
  <2>3. CurrentRows' \subseteq new.rows
    BY <1>3, <2>2 DEF CurrentRows, RowsOf
  <2>4. new.fp # CurrentFp
    <3>1. CASE payloads = {}
      <4>1. CurrentFp = FpOf({}, current)
        BY <3>1 DEF CurrentFp, FpOf
      <4>2. QED
        BY <4>1, FpOfNone, ListingsAssumption
    <3>2. ASSUME NEW row \in payloads PROVE CurrentFp = row.fp
      <4>1. payloads = {row} /\ row.id = current
        BY DEF DbIntegrity
      <4>2. CurrentFp = FpOf({row}, row.id)
        BY <4>1 DEF CurrentFp, FpOf
      <4>3. QED
        BY <4>2, FpOfOne
    <3>3. QED
      BY <1>3, <3>1, <3>2
  <2>5. QED
    BY <1>1, <2>1, <2>3, <2>4
<1>4. QED
  BY <1>2, <1>3, StoreEffect

\* A step that leaves the database, the lock's task and its progress alone.
Quiet ==
    /\ UNCHANGED <<updated, CurrentFp, CurrentRows, lockTask, inFlight>>
    /\ Done' = Done

LEMMA QuietFrame ==
  ASSUME UNCHANGED <<db, lockTask>>, Done' = Done
  PROVE  Quiet
  BY DEF Quiet, db, tables, CurrentFp, CurrentRows, RowsOf

\* In terms of the mapping, the actions of StationCatalogue.
MapStart(t) ==
    /\ lockTask = None
    /\ lockTask' = t
    /\ UNCHANGED <<updated, CurrentFp, CurrentRows, inFlight>>
    /\ Done' = Done
MapStore ==
    /\ updated' = updated + 1
    /\ \/ UNCHANGED <<CurrentFp, CurrentRows>>
       \/ \E listing \in Listings :
             /\ listing # CurrentFp
             /\ CurrentFp' = listing
             /\ CurrentRows' \in SUBSET listing
MapFinish ==
    /\ lockTask # None /\ ~Done /\ inFlight = NoPayload
    /\ MapStore
    /\ Done'
    /\ UNCHANGED <<lockTask, inFlight>>
MapEnd ==
    /\ lockTask # None /\ lockTask' = None /\ ~Done'
    /\ UNCHANGED inFlight \/ (~Done /\ inFlight' # NoPayload)
    /\ UNCHANGED <<updated, CurrentFp, CurrentRows>>
MapLand ==
    /\ inFlight # NoPayload /\ inFlight' = NoPayload
    /\ MapStore
    /\ Done' = Done
    /\ UNCHANGED lockTask
MapNext == (\E t \in Tasks : MapStart(t)) \/ MapFinish \/ MapEnd \/ MapLand \/ Quiet

\* A task without the guard does not bear on Done.
LEMMA DoneFrame ==
  ASSUME TypeOK, LockInv, UNCHANGED lockTask,
         NEW t \in Tasks, pc'[t] \in Stored <=> pc[t] \in Stored,
         \A u \in Tasks \ {t} : pc'[u] = pc[u]
  PROVE  Done' = Done
  BY DEF Done

\* Every step is a step of the abstract specification or leaves it alone.
LEMMA RefineStep ==
  TypeOK /\ LockInv /\ DbIntegrity /\ StoredInv /\ ListingInv /\ [Next]_vars => MapNext
<1> SUFFICES ASSUME TypeOK, LockInv, DbIntegrity, StoredInv, ListingInv, [Next]_vars
             PROVE  MapNext
  OBVIOUS
<1> USE DEF MapNext
<1>1. ASSUME NEW t \in Tasks, Outside(t) PROVE MapNext
  <2>1. Done' = Done
    BY <1>1, OutsideFrame, DoneFrame DEF Locked, lock
  <2>2. QED
    BY <1>1, <2>1, OutsideFrame, QuietFrame DEF lock
<1>2. ASSUME NEW t \in Tasks, TryLock(t) PROVE MapNext
  <2>1. /\ pc[t] = "tryLock" /\ UNCHANGED db
        /\ \A u \in Tasks \ {t} : pc'[u] = pc[u]
    <3>1. Goto(t, "fetch") \/ Goto(t, "waitInit")
      BY <1>2 DEF TryLock
    <3>2. QED
      BY <1>2, <3>1 DEF Goto, TypeOK, TryLock
  <2>2. pc'[t] \in {"fetch", "waitInit"}
    <3>1. Goto(t, "fetch") \/ Goto(t, "waitInit")
      BY <1>2 DEF TryLock
    <3>2. QED
      BY <3>1 DEF Goto, TypeOK
  <2>3. CASE UNCHANGED lock
    <3>1. Done' = Done
      BY <2>1, <2>2, <2>3, DoneFrame DEF Stored, lock
    <3>2. QED
      BY <2>1, <2>3, <3>1, QuietFrame DEF lock
  <2>4. CASE Grantable(t) /\ lockTask' = t
    <3>1. lockTask = None
      BY <2>4 DEF Grantable, LockInv
    <3>2. ~Done /\ ~Done'
      BY <2>2, <2>4, <3>1, NoneAssumption DEF Done, Stored
    <3>3. Done' = Done
      BY <3>2 DEF Done
    <3>4. UNCHANGED <<updated, CurrentFp, CurrentRows, inFlight>>
      BY <2>1 DEF db, tables, CurrentFp, CurrentRows, RowsOf
    <3>5. QED
      BY <2>4, <3>1, <3>3, <3>4 DEF MapStart
  <2>5. QED
    BY <1>2, <2>3, <2>4 DEF TryLock
<1>3. ASSUME NEW t \in Tasks, Fetch(t) \/ Validate(t) PROVE MapNext
  <2>1. /\ UNCHANGED <<db, lock>> /\ pc[t] \notin Stored /\ pc'[t] \notin Stored
        /\ \A u \in Tasks \ {t} : pc'[u] = pc[u]
    BY <1>3 DEF Fetch, Validate, Goto, TypeOK, Stored
  <2>2. QED
    BY <2>1, DoneFrame, QuietFrame DEF lock
<1>4. ASSUME NEW t \in Tasks, Persist(t) PROVE MapNext
  <2>1. lockTask = t /\ lockTask # None /\ pc[t] = "persist"
    BY <1>4, NoneAssumption DEF Persist, LockInv, Locked
  <2>2. ~Done
    BY <2>1 DEF Done, Stored
  <2>3. Done' /\ UNCHANGED <<lockTask, inFlight>> /\ inFlight = NoPayload
    BY <1>4, <2>1 DEF Persist, Goto, TypeOK, Done, Stored, lock
  <2>4. loc[t].got \in Payload /\ Store(loc[t].got)
    BY <1>4 DEF Persist, TypeOK, Local
  <2>5. loc[t].got.fp \in Listings /\ loc[t].got.rows \subseteq loc[t].got.fp
    BY <2>1 DEF ListingInv
  <2>6. MapStore
    BY <2>4, <2>5, StoreMaps DEF MapStore
  <2>7. QED
    BY <2>1, <2>2, <2>3, <2>6 DEF MapFinish
<1>5. ASSUME NEW t \in Tasks, ReadOwn(t) \/ SetMarker(t) \/ CacheFresh(t) PROVE MapNext
  <2>1. /\ UNCHANGED <<db, lock>> /\ pc[t] \in Stored /\ pc'[t] \in Stored
        /\ \A u \in Tasks \ {t} : pc'[u] = pc[u]
    BY <1>5 DEF ReadOwn, SetMarker, CacheFresh, Goto, TypeOK, Stored
  <2>2. QED
    BY <2>1, DoneFrame, QuietFrame DEF lock
<1>6. ASSUME NEW t \in Tasks, ProcessFresh(t) PROVE MapNext
  <2>1. lockTask = t /\ lockTask # None
    BY <1>6, NoneAssumption DEF ProcessFresh, LockInv, Locked, Stored
  <2>2. lockTask' = None /\ UNCHANGED db
    BY <1>6, <2>1 DEF ProcessFresh, DropGuard
  <2>3. ~Done'
    BY <2>2, NoneAssumption DEF Done
  <2>4. QED
    BY <2>1, <2>2, <2>3 DEF MapEnd, db, tables, CurrentFp, CurrentRows, RowsOf
<1>7. ASSUME NEW t \in Tasks, Abort(t) PROVE MapNext
  <2>1. UNCHANGED tables /\ LeaveCommit({t}) /\ DropGuard(t)
    BY <1>7 DEF Abort
  <2>2. UNCHANGED <<updated, CurrentFp, CurrentRows>>
    BY <2>1 DEF tables, CurrentFp, CurrentRows, RowsOf
  <2>3. CASE lockTask = t
    <3>1. lockTask # None /\ lockTask' = None
      BY <2>1, <2>3, NoneAssumption DEF DropGuard
    <3>2. ~Done'
      BY <3>1, NoneAssumption DEF Done
    <3>3. UNCHANGED inFlight \/ (~Done /\ inFlight' # NoPayload)
      <4>1. ASSUME pc[t] = "persist", inFlight' = loc[t].got
            PROVE  ~Done /\ inFlight' # NoPayload
        <5>1. ~Done
          BY <2>3, <4>1 DEF Done, Stored
        <5>2. loc[t].got.fp # {}
          BY <4>1, ListingsAssumption DEF ListingInv
        <5>3. QED
          BY <4>1, <5>1, <5>2 DEF NoPayload
      <4>2. QED
        BY <2>1, <4>1 DEF LeaveCommit
    <3>4. QED
      BY <2>2, <3>1, <3>2, <3>3 DEF MapEnd
  <2>4. CASE lockTask # t
    <3>1. pc[t] \notin Locked /\ UNCHANGED <<lockTask, inFlight>>
      BY <2>1, <2>4 DEF LockInv, DropGuard, LeaveCommit, Locked, lock
    <3>2. pc'[t] = "idle" /\ \A u \in Tasks \ {t} : pc'[u] = pc[u]
      BY <1>7 DEF Abort, Finish, Goto, TypeOK
    <3>3. Done' = Done
      BY <3>1, <3>2, DoneFrame DEF Locked, Stored
    <3>4. QED
      BY <2>2, <3>1, <3>3 DEF Quiet
  <2>5. QED
    BY <2>3, <2>4
<1>8. ASSUME NEW t \in Tasks, LeakLock(t) PROVE MapNext
  <2>1. /\ UNCHANGED <<db, lockTask>> /\ pc[t] \notin Stored /\ pc'[t] \notin Stored
        /\ \A u \in Tasks \ {t} : pc'[u] = pc[u]
    BY <1>8 DEF LeakLock, Finish, Goto, TypeOK, Stored
  <2>2. QED
    BY <2>1, DoneFrame, QuietFrame
<1>9. ASSUME NEW p \in Procs, Expire(p) PROVE MapNext
  <2>1. UNCHANGED <<db, lockTask>> /\ Done' = Done
    BY <1>9 DEF Expire, Done, lock
  <2>2. QED
    BY <2>1, QuietFrame
<1>10. ASSUME NEW p \in Procs, Crash(p) PROVE MapNext
  <2>1. UNCHANGED tables /\ LeaveCommit({t \in Tasks : ProcOf[t] = p})
    BY <1>10 DEF Crash
  <2>2. UNCHANGED <<updated, CurrentFp, CurrentRows>>
    BY <2>1 DEF tables, CurrentFp, CurrentRows, RowsOf
  <2>3. CASE lockTask # None /\ lockProc = p
    <3>1. lockTask' = None
      BY <1>10, <2>3 DEF Crash
    <3>2. ~Done'
      BY <3>1, NoneAssumption DEF Done
    <3>3. UNCHANGED inFlight \/ (~Done /\ inFlight' # NoPayload)
      <4>1. ASSUME NEW t \in Tasks, pc[t] = "persist", inFlight' = loc[t].got
            PROVE  ~Done /\ inFlight' # NoPayload
        <5>1. lockTask = t
          BY <4>1 DEF LockInv, Locked
        <5>2. ~Done
          BY <4>1, <5>1 DEF Done, Stored
        <5>3. loc[t].got.fp # {}
          BY <4>1, ListingsAssumption DEF ListingInv
        <5>4. QED
          BY <4>1, <5>2, <5>3 DEF NoPayload
      <4>2. QED
        BY <2>1, <4>1 DEF LeaveCommit
    <3>4. QED
      BY <2>2, <2>3, <3>1, <3>2, <3>3 DEF MapEnd
  <2>4. CASE ~(lockTask # None /\ lockProc = p)
    <3>1. UNCHANGED lockTask
      BY <1>10, <2>4 DEF Crash, lock
    <3>2. \A t \in Tasks : ProcOf[t] = p => pc[t] \notin Locked
      BY <2>4, NoneAssumption DEF LockInv
    <3>3. UNCHANGED inFlight
      BY <2>1, <3>2 DEF LeaveCommit, Locked
    <3>4. \A t \in Tasks : pc'[t] \in Stored <=> pc[t] \in Stored
      BY <1>10, <3>2 DEF Crash, Locked, Stored
    <3>5. Done' = Done
      BY <3>1, <3>4 DEF Done
    <3>6. QED
      BY <2>2, <3>1, <3>3, <3>5 DEF Quiet
  <2>5. QED
    BY <2>3, <2>4
<1>11. CASE Unlock \/ Reap \/ UNCHANGED vars
  <2>1. UNCHANGED <<db, lockTask>> /\ Done' = Done
    BY <1>11 DEF Unlock, Reap, vars, lock, Done
  <2>2. QED
    BY <2>1, QuietFrame
<1>12. CASE CommitLands
  <2>1. inFlight \in Payload /\ Store(inFlight) /\ inFlight # NoPayload /\ inFlight' = NoPayload
    BY <1>12 DEF CommitLands, TypeOK
  <2>2. inFlight.fp \in Listings /\ inFlight.rows \subseteq inFlight.fp
    BY <2>1 DEF ListingInv
  <2>3. MapStore
    BY <2>1, <2>2, StoreMaps DEF MapStore
  <2>4. UNCHANGED lockTask /\ Done' = Done
    BY <1>12 DEF CommitLands, Done, lock
  <2>5. QED
    BY <2>1, <2>3, <2>4 DEF MapLand
<1>13. QED
  BY <1>1, <1>2, <1>3, <1>4, <1>5, <1>6, <1>7, <1>8, <1>9, <1>10, <1>11, <1>12, StepCases

\* The stored catalogue, seen without the processes and their queries, behaves
\* as StationCatalogue says: one refresh at a time replaces it at most once and
\* whole, one that was cut short no later than the next.
THEOREM Refinement == Spec => ImplementsCatalogue
<1>1. Init => Catalogue!Init
  <2> SUFFICES ASSUME Init PROVE Catalogue!Init
    OBVIOUS
  <2>1. ~Done
    BY NoneAssumption DEF Init, Done
  <2>2. CurrentFp \in Listings \cup {{}} /\ CurrentRows \in SUBSET CurrentFp
    <3>1. CASE current = 0 /\ payloads = {}
      <4>1. CurrentFp = FpOf({}, current)
        BY <3>1 DEF CurrentFp, FpOf
      <4>2. QED
        BY <3>1, <4>1, FpOfNone DEF CurrentRows
    <3>2. ASSUME NEW listing \in Listings, NEW kept \in SUBSET listing,
                 current = 1, payloads = {[id |-> 1, fp |-> listing]},
                 owner = [s \in Stations |-> IF s \in kept THEN 1 ELSE 0]
          PROVE  CurrentFp \in Listings \cup {{}} /\ CurrentRows \in SUBSET CurrentFp
      <4> DEFINE row == [id |-> 1, fp |-> listing]
      <4>1. CurrentFp = FpOf({row}, row.id)
        BY <3>2 DEF CurrentFp, FpOf
      <4>2. CurrentFp = listing
        BY <4>1, FpOfOne
      <4>3. CurrentRows \subseteq kept
        BY <3>2 DEF CurrentRows, RowsOf
      <4>4. QED
        BY <4>2, <4>3
    <3>3. QED
      BY <3>1, <3>2 DEF Init, InitDb
  <2>3. QED
    BY <2>1, <2>2 DEF Init, InitDb, Catalogue!Init, CurrentRows, Done
<1>2. MapNext => [Catalogue!Next]_Catalogue!vars
  BY DEF MapNext, MapStart, MapFinish, MapEnd, MapLand, MapStore, Quiet, CurrentRows, Done,
         Catalogue!Next, Catalogue!Start, Catalogue!Finish, Catalogue!End, Catalogue!Land,
         Catalogue!Store, Catalogue!vars
<1>3. TypeOK /\ LockInv /\ CatalogueInv /\ ListingInv /\ [Next]_vars
        => [Catalogue!Next]_Catalogue!vars
  BY <1>2, RefineStep DEF CatalogueInv
<1>4. Init => ListingInv
  BY DEF Init, ListingInv
<1>5. Spec => []ListingInv
  BY <1>4, ListingStep, LockCorrect, PTL DEF Spec
<1>6. QED
  BY <1>1, <1>3, <1>5, LockCorrect, CatalogueCorrect, PTL
     DEF Spec, ImplementsCatalogue, Catalogue!Spec
=============================================================================
