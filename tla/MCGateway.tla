----------------------------- MODULE MCGateway -----------------------------
(***************************************************************************)
(* Two requests at a time for three lists, one more than the cache holds,  *)
(* until every entry could have been filled, answered and expired.         *)
(***************************************************************************)
EXTENDS Gateway, TLC

CONSTANTS r1, r2, k1, k2, k3

Plain(name) == [name |-> name, coded |-> 0]
Param(name, value) == [name |-> name, value |-> value]
Get(path) == [method |-> "GET", wellFormed |-> TRUE, path |-> path, query |-> << >>]
Stations == Get(<<Plain("radio"), Plain("stations")>>)

\* Each list is asked for in four ways.
Lists(k) ==
    LET asked == [Stations EXCEPT !.query = <<Param("country", k), Param("limit", k)>>]
    IN  {asked,
         [asked EXCEPT !.query = <<Param("limit", k), Param("country", k)>>],
         [asked EXCEPT !.path = <<Plain("radio")>> \o @],
         [asked EXCEPT !.path[2].coded = 3]}

\* Calls that are refused at once: up the tree, an unknown path, a full URI.
Strays ==
    {Get(<<Plain("radio"), [name |-> "..", coded |-> n], Plain("stations")>>) : n \in 0 .. 4}
    \cup {Get(<<Plain("blog")>>), [Stations EXCEPT !.wellFormed = FALSE]}

MCCalls ==
    UNION {Lists(k) : k \in {k1, k2, k3}} \cup Strays
    \cup {Get(<<Plain("terminal"), Plain("docs")>>),
          [Get(<<Plain("fmd"), Plain("fetch")>>) EXCEPT !.method = "POST"]}

\* A stray has no target; the four ways to a list lead to one key, another
\* for each list.
ASSUME MCRouting ==
    /\ \A stray \in Strays : DetermineTarget(stray) = {}
    /\ \A k, j \in {k1, k2, k3} : \A asked \in Lists(k), other \in Lists(j) :
          {Route(asked, t) : t \in DetermineTarget(asked)}
              = {Route(other, t) : t \in DetermineTarget(other)} <=> k = j

\* The requests and the values of the parameters differ by name only.
MCSymmetry == Permutations(Requests) \cup Permutations({k1, k2, k3})
=============================================================================
