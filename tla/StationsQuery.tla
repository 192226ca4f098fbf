--------------------------- MODULE StationsQuery ---------------------------
(***************************************************************************)
(* What GET /stations answers for a catalogue that was loaded: the indexes *)
(* that ProcessedStations::build makes (stations/processed.rs) and the     *)
(* page project_stations cuts out of them (http.rs).                       *)
(*                                                                         *)
(* A station has a country, a country code, languages and tags, which are  *)
(* labels, and the words it is found by.                                   *)
(***************************************************************************)
EXTENDS Lists, SequencesExt

CONSTANTS
    Catalogue,      \* the stations of the payload, in its order
    Lower,          \* str::to_lowercase of every label
    AsciiLower,     \* the same for ASCII letters only: what eq_ignore_ascii_case compares
    NoFilter,       \* an absent filter, and an absent country or code of a station
    MaxPageSize     \* max_page_size

Indexes == 1 .. Len(Catalogue)

\* What to_lowercase leaves has no capitals for ASCII to lower.
ASSUME QueryConstants ==
    /\ MaxPageSize \in Nat \ {0}
    /\ Len(Catalogue) \in Nat
    /\ \A k \in Indexes :
        /\ {Catalogue[k].country, Catalogue[k].code} \subseteq DOMAIN Lower \cup {NoFilter}
        /\ Catalogue[k].languages \in Seq(DOMAIN Lower) /\ Catalogue[k].tags \in Seq(DOMAIN Lower)
    /\ \A label \in DOMAIN Lower : AsciiLower[Lower[label]] = Lower[label]

----------------------------------------------------------------------------
(* ProcessedStations: for each label the stations that carry it, in order. *)
(* A station that carries it twice is listed twice.                        *)

CountryLabels(station) ==
    Only(<<station.country, station.code>>, {station.country, station.code} \ {NoFilter})

FilterNames == <<"country", "language", "tag", "genre">>

Labels == [k \in Indexes |-> [filter \in Range(FilterNames) |->
    CASE filter = "country" -> CountryLabels(Catalogue[k])
      [] filter = "language" -> Catalogue[k].languages
      [] OTHER -> Catalogue[k].tags]]

\* The places of a station's labels that are the wanted one.
Carries(k, filter, wanted) == {i \in DOMAIN Labels[k][filter] : Lower[Labels[k][filter][i]] = wanted}

\* The wanted labels that are met up to a station.
Met(filter, wanted, k) == UNION {{j} \X Carries(j, filter, wanted) : j \in 1 .. k}

\* Entry n is the station at which the nth is met.
Index == [filter \in Range(FilterNames) |-> [wanted \in Range(Lower) |->
    [n \in 1 .. Cardinality(Met(filter, wanted, Len(Catalogue))) |->
        CHOOSE k \in Indexes : /\ Cardinality(Met(filter, wanted, k - 1)) < n
                               /\ n <= Cardinality(Met(filter, wanted, k))]]]

\* The lists to intersect, of the filters that are given.  An empty one stands
\* for a label that is not indexed: either way the answer is empty.
CandidateLists(query) ==
    LET given == Only(FilterNames, {filter \in Range(FilterNames) : query[filter] # NoFilter})
    IN  [i \in DOMAIN given |-> Index[given[i]][Lower[query[given[i]]]]]

\* intersect_lists: what the shortest list holds and all others do too.
Intersect(lists) ==
    IF lists = << >> THEN [k \in Indexes |-> k]
    ELSE LET shortest == CHOOSE i \in DOMAIN lists : \A j \in DOMAIN lists :
                             \/ Len(lists[i]) < Len(lists[j])
                             \/ Len(lists[i]) = Len(lists[j]) /\ i <= j
         IN  Only(lists[shortest], {k \in Indexes : \A j \in DOMAIN lists : k \in Range(lists[j])})

EqIgnoreAsciiCase(label, wanted) == AsciiLower[label] = AsciiLower[wanted]

\* station_matches_filters: a second look, by another comparison of letters.
MatchesFilters(k, query) ==
    \A filter \in Range(FilterNames) :
        \/ query[filter] = NoFilter
        \/ \E label \in Range(Labels[k][filter]) : EqIgnoreAsciiCase(label, Lower[query[filter]])

Found(query) ==
    Only(Intersect(CandidateLists(query)), {k \in Indexes :
        /\ query.search = NoFilter \/ query.search \in Catalogue[k].words
        /\ MatchesFilters(k, query)})

\* StationsQueryParams::normalized.
Limit(query) == IF query.limit < MaxPageSize THEN query.limit ELSE MaxPageSize

\* Mutant: a page that ends with the last match announces another.
ProjectWithOneMore(query) ==
    LET found == Found(query)
        start == IF query.offset < Len(found) THEN query.offset ELSE Len(found)
        end == IF start + Limit(query) < Len(found) THEN start + Limit(query) ELSE Len(found)
    IN  [items |-> SubSeq(found, start + 1, end), hasMore |-> end <= Len(found) /\ found # << >>,
         offset |-> query.offset, limit |-> Limit(query)]

\* project_stations cuts the page.
Project(query) ==
    LET found == Found(query)
        start == IF query.offset < Len(found) THEN query.offset ELSE Len(found)
        end == IF start + Limit(query) < Len(found) THEN start + Limit(query) ELSE Len(found)
    IN  [items |-> SubSeq(found, start + 1, end), hasMore |-> end < Len(found),
         offset |-> query.offset, limit |-> Limit(query)]

----------------------------------------------------------------------------
(* The reference: which stations a query asks for *)

\* Every filter that is given is one of the station's labels, in any case.
Fits(k, query) ==
    /\ \A filter \in Range(FilterNames) :
        query[filter] = NoFilter \/ Carries(k, filter, Lower[query[filter]]) # {}
    /\ query.search = NoFilter \/ query.search \in Catalogue[k].words

Listing(query) == Only([k \in Indexes |-> k], {k \in Indexes : Fits(k, query)})

\* No station carries a wanted label twice, or in capitals outside ASCII.
Plain(query) ==
    \A k \in Indexes, filter \in Range(FilterNames) :
        query[filter] # NoFilter =>
            LET labels == Labels[k][filter]
                wanted == Carries(k, filter, Lower[query[filter]])
            IN  \A i, j \in wanted : i = j /\ AsciiLower[labels[i]] = Lower[labels[i]]
=============================================================================
