-------------------------- MODULE MCStationSource --------------------------
(***************************************************************************)
(* Two mirrors, of three entries in pages of two: a mirror may lose its    *)
(* first entry between two pages, or come by one that is not let through.  *)
(* Two entries share a URL and differ in the time they were changed; a     *)
(* stream may move to another's URL, to one that is not public, or fall    *)
(* silent.                                                                 *)
(***************************************************************************)
EXTENDS StationSource

CONSTANTS a, b, c, u1, u2, u3

Entry(id, url, changed, sound) == [id |-> id, url |-> url, changed |-> changed, sound |-> sound]

MCHosts == <<"default", "fallback">>
MCDirectories == {
    <<Entry(a, u1, 1, TRUE), Entry(b, u2, 1, TRUE)>>,
    <<Entry(c, u3, 1, FALSE), Entry(b, u1, 2, TRUE), Entry(a, u1, 1, TRUE)>> }
MCStreams == {[u \in Urls |-> u], [u \in Urls |-> u2], [u \in Urls |-> IF u = u1 THEN u3 ELSE Silent]}
=============================================================================
