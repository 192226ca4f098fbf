---------------------------- MODULE StreamProxy ----------------------------
(***************************************************************************)
(* A station played by hls.js through the radio service (http.rs:          *)
(* stream_station, stream_segment): the service fetches a playlist and     *)
(* rewrites every line of it to an address of its own, relative to the one *)
(* it was asked at; the player follows one after the other.                *)
(*                                                                         *)
(* A URL of a stream has a scheme and a host, the sequence of its labels.  *)
(* The lines of a playlist are named by the URLs they resolve to.          *)
(***************************************************************************)
EXTENDS Sequences, SequencesExt

CONSTANTS
    StreamUrl,   \* the address of each station's stream: its domain are the stations
    Playlist,    \* the lines of the URLs that should_treat_as_playlist is true of
    Tokens,      \* the CSRF tokens of the sessions, each with its proof
    NoToken,     \* a request without a token
    NoUrl        \* a request without a source

ASSUME StreamConstants ==
    /\ NoToken \notin Tokens
    /\ \A url \in DOMAIN Playlist : NoUrl \notin Playlist[url]

Stations == DOMAIN StreamUrl

VARIABLE player  \* the address it is at, its session's token, and what it was answered

NowhereYet == [path |-> << >>, source |-> NoUrl, token |-> NoToken]
Stopped == [at |-> NowhereYet, session |-> NoToken, answer |-> "none", offers |-> {}]

PlayerInit == player = Stopped
PlayerReset == player' = Stopped

----------------------------------------------------------------------------
\* The last two labels of a host that has as many.
BaseDomain(host) == IF Len(host) < 2 THEN << >> ELSE SubSeq(host, Len(host) - 1, Len(host))

\* A segment may come from the stream's host, from the domain its host is in,
\* or from any host of the same base domain.
SegmentAllowed(stream, target) ==
    \/ stream.host = target.host
    \/ Len(stream.host) > 1 /\ IsSuffix(Tail(stream.host), target.host)
    \/ BaseDomain(stream.host) # << >> /\ BaseDomain(stream.host) = BaseDomain(target.host)

\* The header's token, which the gateway sets, before that of the query.
CsrfParams(request, session) == IF session # NoToken THEN session ELSE request.token

Upgraded(url) == IF url.scheme = "http" THEN [url EXCEPT !.scheme = "https"] ELSE url

\* What is not a stream's scheme becomes a comment.
RewritePlaylist(lines, token, segmentPath) ==
    {[path |-> segmentPath, source |-> Upgraded(url), token |-> token] :
        url \in {line \in lines : Upgraded(line).scheme = "https"}}

Replied(answer, offers) == player' = [player EXCEPT !.answer = answer, !.offers = offers]

\* An answer that is a playlist is rewritten, any other passed on.
Forwarded(url, segmentPath) ==
    IF url \in DOMAIN Playlist
    THEN Replied("playlist", RewritePlaylist(Playlist[url], CsrfParams(player.at, player.session), segmentPath))
    ELSE Replied("media", {})

Asking == player.at # NowhereYet /\ player.answer = "none"

\* The router's two paths.
IsStream(station) == player.at.path = <<"stations", station, "stream">>
IsSegment(station) == player.at.path = <<"stations", station, "stream", "segment">>

StreamStation(station) ==
    /\ Asking /\ IsStream(station)
    /\ Forwarded(StreamUrl[station], <<"stream", "segment">>)

\* Mutant: a nested playlist is rewritten as the first one is.
StreamSegmentNested(station) ==
    /\ Asking /\ IsSegment(station)
    /\ IF /\ player.at.source # NoUrl /\ player.at.source.scheme = "https"
          /\ SegmentAllowed(StreamUrl[station], player.at.source)
       THEN Forwarded(player.at.source, <<"stream", "segment">>)
       ELSE Replied("refused", {})

\* 400 without a source, 403 for another origin or a scheme that is not https.
StreamSegment(station) ==
    /\ Asking /\ IsSegment(station)
    /\ IF /\ player.at.source # NoUrl /\ player.at.source.scheme = "https"
          /\ SegmentAllowed(StreamUrl[station], player.at.source)
       THEN Forwarded(player.at.source, <<"segment">>)
       ELSE Replied("refused", {})

\* Too many requests, a station that has left the catalogue, an upstream that
\* cannot be reached in time, or its own error.
StreamFails ==
    /\ Asking
    /\ \E station \in Stations : IsStream(station) \/ IsSegment(station)
    /\ Replied("failed", {})

\* resolve_stream_url: hls.js begins at the station's stream, the gateway
\* adds the token of its session.
OpenStream(station, session) ==
    player' = [Stopped EXCEPT !.at = [path |-> <<"stations", station, "stream">>, source |-> NoUrl,
                                      token |-> NoToken],
                              !.session = session]

\* A line is relative to the address of its playlist.
Follow(offer) ==
    /\ offer \in player.offers
    /\ player' = [player EXCEPT !.at = [offer EXCEPT !.path = Front(player.at.path) \o @],
                                !.answer = "none", !.offers = {}]

StreamNext ==
    \/ \E station \in Stations : StreamStation(station) \/ StreamSegment(station)
    \/ StreamFails
    \/ \E offer \in player.offers : Follow(offer)

----------------------------------------------------------------------------
\* "keep the path relative to the segment handler so we don't accumulate
\* extra "/stream" segments as the player walks deeper": however deep the
\* playlists are nested, the player asks at a path that is routed, of the
\* station it began with, for a source over https, with its session's token.
PlayerIsRouted ==
    player # Stopped =>
        /\ \E station \in Stations : IsStream(station) \/ IsSegment(station)
        /\ player.at.source # NoUrl =>
              player.at.source.scheme = "https" /\ player.at.token = player.session
=============================================================================
