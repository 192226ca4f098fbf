----------------------------- MODULE PageProofs -----------------------------
(***************************************************************************)
(* What the pages keep to wherever the router goes: the contact page, the  *)
(* tools, the player of a stream, the radio page with the answers to its   *)
(* queries, and the terminal with the paths its service resolves; for any  *)
(* addresses, files, playlists, catalogues, filters and directories.       *)
(***************************************************************************)
EXTENDS Frontend, ListsProofs

-----------------------------------------------------------------------------
(* The contact page *)

LEMMA OpenedOffers ==
  ASSUME NEW script \in Scripts
  PROVE  Opened(script) \in Contact /\ Opened(script).siteKey = "asked"
BY DEF Scripts, Opened, Contact

\* A page keeps its type when a part of it is replaced by one of that type.
LEMMA ContactParts ==
  /\ \A c \in Contact, v \in {"asked", "ready", "failed"} : [c EXCEPT !.session = v] \in Contact
  /\ \A c \in Contact, v \in {"asked", "none", "known"} : [c EXCEPT !.siteKey = v] \in Contact
  /\ \A c \in Contact, v \in {"absent", "asked", "elsewhere", "loaded"} :
        [c EXCEPT !.script = v] \in Contact
  /\ \A c \in Contact, v \in BOOLEAN :
        /\ [c EXCEPT !.ready = v] \in Contact /\ [c EXCEPT !.widget = v] \in Contact
        /\ [c EXCEPT !.drawn = v] \in Contact /\ [c EXCEPT !.token = v] \in Contact
        /\ [c EXCEPT !.written = v] \in Contact /\ [c EXCEPT !.sending = v] \in Contact
        /\ [c EXCEPT !.success = v] \in Contact /\ [c EXCEPT !.error = v] \in Contact
BY DEF Contact

\* What the challenge depends on: a widget stands in the form that is open,
\* and only a visit that met another one's script awaits that.
Drawable(c) ==
  /\ c \in Contact
  /\ c.widget /\ ~c.success => c.drawn
  /\ c.script = "elsewhere" => c.late

Shows(c) ==
  c.siteKey = "known" /\ ~c.success /\ ~c.token
     => c.drawn \/ c.error \/ c.script = "asked" \/ c.late

LEMMA OpenedShows ==
  ASSUME NEW script \in Scripts
  PROVE  Drawable(Opened(script)) /\ Shows(Opened(script))
BY DEF Scripts, Opened, Contact, Drawable, Shows

\* Once the effect has run, the challenge is shown.
LEMMA OfferedShows ==
  ASSUME NEW c, Drawable(c), NEW d \in Offered(c)
  PROVE  Drawable(d) /\ Shows(d)
<1>1. c \in Contact
  BY DEF Drawable
<1>2. CASE c.success \/ c.siteKey # "known" \/ c.widget
  <2>1. d = c
    BY <1>2 DEF Offered
  <2> QED BY <1>2, <2>1 DEF Drawable, Shows
<1>3. CASE ~(c.success \/ c.siteKey # "known" \/ c.widget) /\ ~c.ready /\ c.script = "absent"
  <2>1. d = [c EXCEPT !.script = "asked"]
    BY <1>3 DEF Offered
  <2>2. d \in Contact
    BY <1>1, <2>1, ContactParts
  <2> QED BY <1>1, <1>3, <2>1, <2>2 DEF Drawable, Shows, Contact
<1>4. CASE /\ ~(c.success \/ c.siteKey # "known" \/ c.widget)
           /\ ~c.ready /\ c.script \in {"asked", "elsewhere"}
  <2>1. d = c
    BY <1>4 DEF Offered
  <2> QED BY <1>4, <2>1 DEF Drawable, Shows
<1>5. CASE ~(c.success \/ c.siteKey # "known" \/ c.widget)
           /\ (c.ready \/ c.script \notin {"absent", "asked", "elsewhere"})
  <2>1. \/ d = [c EXCEPT !.ready = TRUE, !.widget = TRUE, !.drawn = TRUE]
        \/ d = [c EXCEPT !.ready = TRUE, !.error = TRUE]
    <3>1. ~(~c.ready /\ c.script = "absent") /\ ~(~c.ready /\ c.script # "loaded")
      BY <1>1, <1>5 DEF Contact
    <3> QED BY <1>5, <3>1 DEF Offered
  <2>2. d \in Contact
    BY <1>1, <2>1, ContactParts
  <2>3. d.drawn \/ d.error
    BY <1>1, <2>1 DEF Contact
  <2>4. d.script = c.script /\ d.late = c.late /\ d.success = c.success
    BY <1>1, <2>1 DEF Contact
  <2>5. d.widget => d.drawn
    BY <1>1, <1>5, <2>1 DEF Contact
  <2> QED BY <2>2, <2>3, <2>4, <2>5 DEF Drawable, Shows
<1> QED BY <1>1, <1>2, <1>3, <1>4, <1>5 DEF Contact

LEMMA ContactStep ==
  ASSUME Drawable(contact), Shows(contact), ContactNext
  PROVE  Drawable(contact') /\ Shows(contact')
<1>1. contact \in Contact
  BY DEF Drawable
<1>2. ASSUME NEW ok \in BOOLEAN, SessionAnswered(ok)
      PROVE  Drawable(contact') /\ Shows(contact')
  BY <1>1, <1>2 DEF SessionAnswered, Drawable, Shows, Contact
<1>3. ASSUME NEW key \in {"none", "known"}, ConfigAnswered(key)
      PROVE  Drawable(contact') /\ Shows(contact')
  <2>1. Drawable([contact EXCEPT !.siteKey = key])
    BY <1>1, ContactParts DEF Drawable, Contact
  <2> QED BY <1>3, <2>1, OfferedShows DEF ConfigAnswered
<1>4. CASE ConfigFails
  BY <1>1, <1>4 DEF ConfigFails, Drawable, Shows, Contact
<1>5. CASE ScriptLoads
  <2>1. Drawable([contact EXCEPT !.script = "loaded", !.ready = TRUE])
    <3>1. PICK c : c = [contact EXCEPT !.script = "loaded", !.ready = TRUE]
      OBVIOUS
    <3>2. c \in Contact
      BY <1>1, <3>1, ContactParts
    <3>3. c.script = "loaded" /\ c.widget = contact.widget /\ c.success = contact.success
          /\ c.drawn = contact.drawn
      BY <1>1, <3>1 DEF Contact
    <3> QED BY <3>1, <3>2, <3>3 DEF Drawable
  <2>2. CASE contact' \in Offered([contact EXCEPT !.script = "loaded", !.ready = TRUE])
    BY <2>1, <2>2, OfferedShows
  <2>3. CASE contact.script = "elsewhere" /\ contact' = [contact EXCEPT !.script = "loaded"]
    BY <1>1, <2>3 DEF Drawable, Shows, Contact
  <2> QED BY <1>5, <2>2, <2>3 DEF ScriptLoads
<1>6. CASE Solved \/ Unsolved
  BY <1>1, <1>6 DEF Solved, Unsolved, Drawable, Shows, Contact
<1>7. ASSUME NEW written \in BOOLEAN, EditForm(written)
      PROVE  Drawable(contact') /\ Shows(contact')
  BY <1>1, <1>7 DEF EditForm, Drawable, Shows, Contact
<1>8. CASE SendMessage
  BY <1>1, <1>8 DEF SendMessage, Drawable, Shows, Contact
<1>9. CASE MessageAccepted
  BY <1>1, <1>9 DEF MessageAccepted, Drawable, Shows, Contact
<1>10. CASE MessageRejected
  BY <1>1, <1>10 DEF MessageRejected, Drawable, Shows, Contact
<1>11. CASE SendAnother
  <2>1. PICK c : c = [contact EXCEPT !.success = FALSE, !.error = FALSE,
                                     !.token = FALSE, !.widget = FALSE]
    OBVIOUS
  <2>2. c \in Contact
    BY <1>1, <2>1, ContactParts
  <2>3. ~c.widget /\ c.script = contact.script /\ c.late = contact.late
    BY <1>1, <2>1 DEF Contact
  <2>4. Drawable(c)
    BY <2>2, <2>3 DEF Drawable
  <2> QED BY <1>11, <2>1, <2>4, OfferedShows DEF SendAnother
<1> QED BY <1>2, <1>3, <1>4, <1>5, <1>6, <1>7, <1>8, <1>9, <1>10, <1>11 DEF ContactNext

-----------------------------------------------------------------------------
(* The tools *)

\* A conversion that is shown is one of those under way, and the only one
\* unless they are mixed.
Tells(t) ==
  /\ t \in Tool
  /\ t.state = "loading" => t.asked \in t.calls
  /\ ~t.mixed => t.calls \subseteq {t.asked}
  /\ t.state = "success" /\ ~t.mixed => t.shown = t.asked

LEMMA UnusedTells ==
  ASSUME NEW kind \in {"markdown", "ascii"}
  PROVE  Tells(Unused(kind))
BY ToolConstants DEF Unused, Tells, Tool

LEMMA ToolStep ==
  ASSUME Tells(tool), ToolNext
  PROVE  Tells(tool')
<1>1. tool \in Tool
  BY DEF Tells
<1>2. ASSUME NEW source \in Sources, EnterSource(source)
      PROVE  Tells(tool')
  BY <1>1, <1>2 DEF EnterSource, Cleared, Tells, Tool
<1>3. ASSUME NEW source \in Sources, Converted(source) \/ ConvertFails(source)
      PROVE  Tells(tool')
  <2>1. CASE Converted(source)
    BY <1>1, <2>1 DEF Converted, Tells, Tool
  <2>2. CASE ConvertFails(source)
    BY <1>1, <2>2 DEF ConvertFails, Tells, Tool
  <2> QED BY <1>3, <2>1, <2>2
<1>4. CASE Convert
  BY <1>1, <1>4 DEF Convert, Tells, Tool
<1>5. CASE ClearTool
  BY <1>1, <1>5 DEF ClearTool, Cleared, Tells, Tool
<1>6. CASE Download \/ Copy \/ Copied
  BY <1>1, <1>6 DEF Download, Copy, Copied, Tells, Tool
<1> QED BY <1>2, <1>3, <1>4, <1>5, <1>6 DEF ToolNext

-----------------------------------------------------------------------------
(* The player of a stream *)

\* A player that asks for a source asks over https, with its session's token;
\* and so it will with each line that it was offered.
Routed(p) ==
  /\ p = [at |-> p.at, session |-> p.session, answer |-> p.answer, offers |-> p.offers]
  /\ \E station \in Stations :
        \/ /\ p.at = [path |-> <<"stations", station, "stream">>, source |-> NoUrl, token |-> NoToken]
           /\ \A offer \in p.offers : offer.path = <<"stream", "segment">>
        \/ /\ p.at.path = <<"stations", station, "stream", "segment">>
           /\ p.at.source # NoUrl => p.at.source.scheme = "https" /\ p.at.token = p.session
           /\ p.at.token = p.session
           /\ \A offer \in p.offers : offer.path = <<"segment">>
  /\ \A offer \in p.offers :
        /\ offer = [path |-> offer.path, source |-> offer.source, token |-> offer.token]
        /\ offer.source.scheme = "https" /\ offer.token = p.session

LEMMA Paths ==
  ASSUME NEW station
  PROVE  /\ Front(<<"stations", station, "stream">>) \o <<"stream", "segment">>
               = <<"stations", station, "stream", "segment">>
         /\ Front(<<"stations", station, "stream", "segment">>) \o <<"segment">>
               = <<"stations", station, "stream", "segment">>
<1> DEFINE S == {"stations", station, "stream", "segment"}
           four == <<"stations", station, "stream", "segment">>
           three == <<"stations", station, "stream">>
           two == <<"stations", station>>
           tail == <<"stream", "segment">>
           last == <<"segment">>
<1>1. /\ four \in Seq(S) /\ Len(four) = 4 /\ four[1] = "stations" /\ four[2] = station
      /\ four[3] = "stream" /\ four[4] = "segment"
  OBVIOUS
<1>2. three \in Seq(S) /\ Len(three) = 3 /\ three[1] = "stations" /\ three[2] = station /\ three[3] = "stream"
  OBVIOUS
<1>3. two \in Seq(S) /\ Len(two) = 2 /\ two[1] = "stations" /\ two[2] = station
  OBVIOUS
<1>4. tail \in Seq(S) /\ Len(tail) = 2 /\ tail[1] = "stream" /\ tail[2] = "segment"
  OBVIOUS
<1>5. last \in Seq(S) /\ Len(last) = 1 /\ last[1] = "segment"
  OBVIOUS
<1>6. Front(three) = SubSeq(three, 1, 2) /\ Front(four) = SubSeq(four, 1, 3)
  BY DEF Front
<1> HIDE DEF S, four, three, two, tail, last
<1>7. SubSeq(three, 1, 2) = two
  <2>1. /\ SubSeq(three, 1, 2) \in Seq(S) /\ Len(SubSeq(three, 1, 2)) = 2
        /\ \A i \in 1 .. 2 : SubSeq(three, 1, 2)[i] = three[i]
    <3>1. \A i \in 1 .. 2 : three[i] \in S
      BY <1>2
    <3>2. 2 \in Int /\ 1 \in Int /\ 2 - 1 + 1 = 2 /\ \A i \in 1 .. 2 : 1 + i - 1 = i
      OBVIOUS
    <3> QED BY <3>1, <3>2, SubSeqProperties
  <2>2. \A i \in 1 .. 2 : SubSeq(three, 1, 2)[i] = two[i]
    BY <1>2, <1>3, <2>1
  <2> QED BY <1>3, <2>1, <2>2, SeqEqual
<1>8. SubSeq(four, 1, 3) = three
  <2>1. /\ SubSeq(four, 1, 3) \in Seq(S) /\ Len(SubSeq(four, 1, 3)) = 3
        /\ \A i \in 1 .. 3 : SubSeq(four, 1, 3)[i] = four[i]
    BY <1>1, SubSeqProperties
  <2>2. \A i \in 1 .. 3 : SubSeq(four, 1, 3)[i] = three[i]
    BY <1>1, <1>2, <2>1
  <2> QED BY <1>2, <2>1, <2>2, SeqEqual
<1>9. two \o tail = four
  <2>1. /\ two \o tail \in Seq(S) /\ Len(two \o tail) = 4
        /\ \A i \in 1 .. 4 : (two \o tail)[i] = IF i <= 2 THEN two[i] ELSE tail[i - 2]
    <3>1. /\ two \o tail \in Seq(S) /\ Len(two \o tail) = Len(two) + Len(tail)
          /\ \A i \in 1 .. Len(two) + Len(tail) :
                (two \o tail)[i] = IF i <= Len(two) THEN two[i] ELSE tail[i - Len(two)]
      BY <1>3, <1>4, ConcatProperties
    <3> QED BY <1>3, <1>4, <3>1
  <2>2. \A i \in 1 .. 4 : (two \o tail)[i] = four[i]
    BY <1>1, <1>3, <1>4, <2>1
  <2> QED BY <1>1, <2>1, <2>2, SeqEqual
<1>10. three \o last = four
  <2>1. /\ three \o last \in Seq(S) /\ Len(three \o last) = 4
        /\ \A i \in 1 .. 4 : (three \o last)[i] = IF i <= 3 THEN three[i] ELSE last[i - 3]
    <3>1. /\ three \o last \in Seq(S) /\ Len(three \o last) = Len(three) + Len(last)
          /\ \A i \in 1 .. Len(three) + Len(last) :
                (three \o last)[i] = IF i <= Len(three) THEN three[i] ELSE last[i - Len(three)]
      BY <1>2, <1>5, ConcatProperties
    <3> QED BY <1>2, <1>5, <3>1
  <2>2. \A i \in 1 .. 4 : (three \o last)[i] = four[i]
    BY <1>1, <1>2, <1>5, <2>1
  <2> QED BY <1>1, <2>1, <2>2, SeqEqual
<1> QED BY <1>6, <1>7, <1>8, <1>9, <1>10 DEF four, three, two, tail, last

LEMMA PathsDiffer ==
  \A a, b : <<"stations", a, "stream">> # <<"stations", b, "stream", "segment">>
<1>1. \A a, b : Len(<<"stations", a, "stream">>) = 3 /\ Len(<<"stations", b, "stream", "segment">>) = 4
  OBVIOUS
<1> QED BY <1>1

\* The lines of a playlist are offered with the token of the session.
LEMMA RewrittenLines ==
  ASSUME NEW lines, NEW token, NEW path, NEW offer \in RewritePlaylist(lines, token, path)
  PROVE  /\ offer = [path |-> offer.path, source |-> offer.source, token |-> offer.token]
         /\ offer.path = path /\ offer.source.scheme = "https" /\ offer.token = token
BY DEF RewritePlaylist

LEMMA OpenRoutes ==
  ASSUME NEW station \in Stations, NEW session, OpenStream(station, session)
  PROVE  Routed(player')
<1>1. player' = [at |-> [path |-> <<"stations", station, "stream">>, source |-> NoUrl, token |-> NoToken],
                 session |-> session, answer |-> "none", offers |-> {}]
  BY DEF OpenStream, Stopped
<1> QED BY <1>1 DEF Routed

\* An answer keeps the player where it is, and offers lines of one path.
LEMMA ReplyRoutes ==
  ASSUME Routed(player), NEW answer, NEW offers, Replied(answer, offers)
  PROVE  /\ player' = [at |-> player.at, session |-> player.session, answer |-> answer, offers |-> offers]
         /\ offers = {} => Routed(player')
<1>1. player' = [at |-> player.at, session |-> player.session, answer |-> answer, offers |-> offers]
  BY DEF Routed, Replied
<1> QED BY <1>1 DEF Routed

LEMMA StreamStep ==
  ASSUME Routed(player), StreamNext
  PROVE  Routed(player')
<1>0. /\ player = [at |-> player.at, session |-> player.session, answer |-> player.answer,
                   offers |-> player.offers]
      /\ \A offer \in player.offers :
            /\ offer = [path |-> offer.path, source |-> offer.source, token |-> offer.token]
            /\ offer.source.scheme = "https" /\ offer.token = player.session
  BY DEF Routed
<1>1. PICK here \in Stations :
        \/ /\ player.at = [path |-> <<"stations", here, "stream">>, source |-> NoUrl, token |-> NoToken]
           /\ \A offer \in player.offers : offer.path = <<"stream", "segment">>
        \/ /\ player.at.path = <<"stations", here, "stream", "segment">>
           /\ player.at.source # NoUrl
                 => player.at.source.scheme = "https" /\ player.at.token = player.session
           /\ player.at.token = player.session
           /\ \A offer \in player.offers : offer.path = <<"segment">>
  BY DEF Routed
<1>2. ASSUME NEW offers, NEW answer, Replied(answer, offers), NEW path,
             \A offer \in offers :
               /\ offer = [path |-> offer.path, source |-> offer.source, token |-> offer.token]
               /\ offer.path = path /\ offer.source.scheme = "https" /\ offer.token = player.session,
             \/ /\ player.at = [path |-> <<"stations", here, "stream">>, source |-> NoUrl, token |-> NoToken]
                /\ path = <<"stream", "segment">>
             \/ /\ player.at.path = <<"stations", here, "stream", "segment">>
                /\ path = <<"segment">>
      PROVE  Routed(player')
  <2>1. player' = [at |-> player.at, session |-> player.session, answer |-> answer, offers |-> offers]
    BY <1>2, ReplyRoutes
  <2>2. /\ player'.at = player.at /\ player'.session = player.session /\ player'.offers = offers
        /\ player' = [at |-> player'.at, session |-> player'.session, answer |-> player'.answer,
                      offers |-> player'.offers]
    BY <2>1
  <2>3. \A offer \in player'.offers :
          /\ offer = [path |-> offer.path, source |-> offer.source, token |-> offer.token]
          /\ offer.source.scheme = "https" /\ offer.token = player'.session
    BY <1>2, <2>2
  <2>4. CASE player.at = [path |-> <<"stations", here, "stream">>, source |-> NoUrl, token |-> NoToken]
    <3>1. player.at.path = <<"stations", here, "stream">>
      BY <2>4
    <3>2. path = <<"stream", "segment">>
      BY <1>2, <3>1, PathsDiffer
    <3> QED BY <1>2, <2>2, <2>3, <2>4, <3>2 DEF Routed
  <2>5. CASE player.at # [path |-> <<"stations", here, "stream">>, source |-> NoUrl, token |-> NoToken]
    <3>1. /\ player'.at.path = <<"stations", here, "stream", "segment">>
          /\ player'.at.source # NoUrl
                => player'.at.source.scheme = "https" /\ player'.at.token = player'.session
          /\ player'.at.token = player'.session
          /\ \A offer \in player'.offers : offer.path = <<"segment">>
      BY <1>1, <1>2, <2>2, <2>5
    <3> QED BY <2>2, <2>3, <3>1 DEF Routed
  <2> QED BY <2>4, <2>5
<1>3. ASSUME NEW answer, Replied(answer, {})
      PROVE  Routed(player')
  BY <1>3, ReplyRoutes
<1>4. ASSUME NEW station \in Stations, StreamStation(station)
      PROVE  Routed(player')
  <2>1. player.at.path = <<"stations", station, "stream">>
    BY <1>4 DEF StreamStation, IsStream
  <2>2. player.at = [path |-> <<"stations", here, "stream">>, source |-> NoUrl, token |-> NoToken]
    BY <1>1, <2>1, PathsDiffer
  <2>3. CsrfParams(player.at, player.session) = player.session
    BY <2>2 DEF CsrfParams
  <2>4. CASE StreamUrl[station] \notin DOMAIN Playlist
    BY <1>3, <1>4, <2>4 DEF StreamStation, Forwarded
  <2>5. CASE StreamUrl[station] \in DOMAIN Playlist
    <3>1. Replied("playlist", RewritePlaylist(Playlist[StreamUrl[station]], player.session, <<"stream", "segment">>))
      BY <1>4, <2>3, <2>5 DEF StreamStation, Forwarded
    <3> QED BY <1>2, <2>2, <3>1, RewrittenLines
  <2> QED BY <2>4, <2>5
<1>5. ASSUME NEW station \in Stations, StreamSegment(station)
      PROVE  Routed(player')
  <2>1. player.at.path = <<"stations", station, "stream", "segment">>
    BY <1>5 DEF StreamSegment, IsSegment
  <2>2. player.at.path = <<"stations", here, "stream", "segment">> /\ player.at.token = player.session
    <3>1. player.at # [path |-> <<"stations", here, "stream">>, source |-> NoUrl, token |-> NoToken]
      BY <2>1, PathsDiffer
    <3> QED BY <1>1, <3>1
  <2>3. CsrfParams(player.at, player.session) = player.session
    BY <2>2 DEF CsrfParams
  <2>4. CASE ~\E path : Replied("playlist", RewritePlaylist(Playlist[player.at.source], player.session, path))
    <3>1. Replied("media", {}) \/ Replied("refused", {})
      BY <1>5, <2>3, <2>4 DEF StreamSegment, Forwarded
    <3> QED BY <1>3, <3>1
  <2>5. CASE Replied("playlist", RewritePlaylist(Playlist[player.at.source], player.session, <<"segment">>))
    BY <1>2, <2>2, <2>5, RewrittenLines
  <2> QED BY <1>3, <1>5, <2>3, <2>4, <2>5 DEF StreamSegment, Forwarded
<1>6. CASE StreamFails
  BY <1>3, <1>6 DEF StreamFails
<1>7. ASSUME NEW offer \in player.offers, Follow(offer)
      PROVE  Routed(player')
  <2>1. player' = [player EXCEPT !.at = [offer EXCEPT !.path = Front(player.at.path) \o offer.path],
                                 !.answer = "none", !.offers = {}]
    BY <1>7 DEF Follow
  <2>2. Front(player.at.path) \o offer.path = <<"stations", here, "stream", "segment">>
    <3>1. CASE player.at = [path |-> <<"stations", here, "stream">>, source |-> NoUrl, token |-> NoToken]
      <4>1. player.at.path = <<"stations", here, "stream">>
        BY <3>1
      <4>2. offer.path = <<"stream", "segment">>
        BY <1>1, <1>7, <4>1, PathsDiffer
      <4> QED BY <4>1, <4>2, Paths
    <3>2. CASE player.at # [path |-> <<"stations", here, "stream">>, source |-> NoUrl, token |-> NoToken]
      <4>1. player.at.path = <<"stations", here, "stream", "segment">> /\ offer.path = <<"segment">>
        BY <1>1, <1>7, <3>2
      <4> QED BY <4>1, Paths
    <3> QED BY <3>1, <3>2
  <2>3. [offer EXCEPT !.path = Front(player.at.path) \o offer.path]
          = [path |-> <<"stations", here, "stream", "segment">>, source |-> offer.source, token |-> offer.token]
    BY <1>0, <1>7, <2>2
  <2>4. player' = [at |-> [path |-> <<"stations", here, "stream", "segment">>, source |-> offer.source,
                           token |-> offer.token],
                   session |-> player.session, answer |-> "none", offers |-> {}]
    BY <1>0, <2>1, <2>3
  <2>5. offer.source.scheme = "https" /\ offer.token = player.session
    BY <1>0, <1>7
  <2> QED BY <2>4, <2>5 DEF Routed
<1> QED BY <1>4, <1>5, <1>6, <1>7 DEF StreamNext

LEMMA StoppedStays == player = Stopped => ~StreamNext
<1> SUFFICES ASSUME player = Stopped, StreamNext PROVE FALSE
  OBVIOUS
<1>1. player.at = NowhereYet /\ player.offers = {}
  BY DEF Stopped
<1> QED BY <1>1 DEF StreamNext, StreamStation, StreamSegment, StreamFails, Asking

-----------------------------------------------------------------------------
(* The stations that a query finds *)

LEMMA Names == Range(FilterNames) = {"country", "language", "tag", "genre"}
<1>1. DOMAIN FilterNames = {1, 2, 3, 4}
  BY DEF FilterNames
<1>2. /\ FilterNames[1] = "country" /\ FilterNames[2] = "language"
      /\ FilterNames[3] = "tag" /\ FilterNames[4] = "genre"
  BY DEF FilterNames
<1> QED BY <1>1, <1>2 DEF Range

LEMMA CountryLabelsAre ==
  ASSUME NEW station
  PROVE  \E X : CountryLabels(station) \in Seq(X)
<1> DEFINE X == {station.country, station.code} \ {NoFilter}
           Y == {station.country, station.code}
           both == <<station.country, station.code>>
<1>1. both \in Seq(Y)
  OBVIOUS
<1>2. CountryLabels(station) = Only(both, X)
  BY DEF CountryLabels
<1> HIDE DEF X, Y, both
<1>3. Only(both, X) \in Seq(X)
  BY <1>1, OnlyIs
<1> QED BY <1>2, <1>3

\* Labels are finitely many.
LEMMA LabelsAre ==
  ASSUME NEW k \in Indexes, NEW filter \in Range(FilterNames)
  PROVE  \E X : Labels[k][filter] \in Seq(X)
<1>1. Labels[k][filter] = CASE filter = "country" -> CountryLabels(Catalogue[k])
                            [] filter = "language" -> Catalogue[k].languages
                            [] OTHER -> Catalogue[k].tags
  BY DEF Labels
<1>2. Catalogue[k].languages \in Seq(DOMAIN Lower) /\ Catalogue[k].tags \in Seq(DOMAIN Lower)
  BY QueryConstants
<1>3. CASE filter = "country"
  BY <1>1, <1>3, CountryLabelsAre
<1>4. CASE filter = "language"
  BY <1>1, <1>2, <1>4
<1>5. CASE filter \notin {"country", "language"}
  BY <1>1, <1>2, <1>5
<1> QED BY <1>3, <1>4, <1>5

LEMMA CarriesFinite ==
  ASSUME NEW k \in Indexes, NEW filter \in Range(FilterNames), NEW wanted
  PROVE  IsFiniteSet(Carries(k, filter, wanted))
<1>1. PICK X : Labels[k][filter] \in Seq(X)
  BY LabelsAre
<1> DEFINE labels == Labels[k][filter]
<1>2. Len(labels) \in Nat /\ DOMAIN labels = 1 .. Len(labels)
  <2> HIDE DEF labels
  <2>1. labels \in Seq(X)
    BY <1>1 DEF labels
  <2> QED BY <2>1, LenProperties
<1>3. Carries(k, filter, wanted) \subseteq DOMAIN labels
  BY DEF Carries
<1> HIDE DEF labels
<1>4. IsFiniteSet(DOMAIN labels)
  BY <1>2, IntervalOf
<1> QED BY <1>3, <1>4, FS_Subset

LEMMA IndexesAre == Len(Catalogue) \in Nat /\ Indexes = 1 .. Len(Catalogue)
BY QueryConstants DEF Indexes

LEMMA MetIs ==
  ASSUME NEW filter \in Range(FilterNames), NEW wanted, NEW k \in 0 .. Len(Catalogue)
  PROVE  /\ IsFiniteSet(Met(filter, wanted, k)) /\ Cardinality(Met(filter, wanted, k)) \in Nat
         /\ \A o : o \in Met(filter, wanted, k) <=>
              \E j \in 1 .. k : \E i \in Carries(j, filter, wanted) : o = <<j, i>>
<1> DEFINE Of(j) == {j} \X Carries(j, filter, wanted)
           T == {Of(j) : j \in 1 .. k}
           h == [j \in 1 .. k |-> Of(j)]
<1>1. k \in Nat /\ 1 .. k \subseteq Indexes
  BY IndexesAre
<1>2. IsFiniteSet(1 .. k)
  BY <1>1, IntervalOf
<1>3. \A j \in 1 .. k : IsFiniteSet(Of(j))
  <2> TAKE j \in 1 .. k
  <2>1. IsFiniteSet({j}) /\ IsFiniteSet(Carries(j, filter, wanted))
    BY <1>1, CarriesFinite, FS_Singleton
  <2> QED BY <2>1, FS_Product
<1>4. IsFiniteSet(T)
  <2>1. h \in Surjection(1 .. k, T)
    <3> HIDE DEF Of
    <3> QED BY DEF Surjection
  <2> HIDE DEF h, T
  <2> QED BY <1>2, <2>1, FS_Surjection
<1>5. Met(filter, wanted, k) = UNION T
  BY DEF Met
<1>6. \A S \in T : IsFiniteSet(S)
  <2> HIDE DEF Of
  <2> QED BY <1>3
<1>7. IsFiniteSet(UNION T)
  <2> HIDE DEF T
  <2> QED BY <1>4, <1>6, FS_UNION
<1>8. \A o : o \in UNION T <=> \E j \in 1 .. k : \E i \in Carries(j, filter, wanted) : o = <<j, i>>
  OBVIOUS
<1> HIDE DEF T
<1> QED BY <1>5, <1>7, <1>8, FS_CardinalityType

LEMMA IndexIs ==
  ASSUME NEW filter \in Range(FilterNames), NEW wanted \in Range(Lower)
  PROVE  Index[filter][wanted] =
           [n \in 1 .. Cardinality(Met(filter, wanted, Len(Catalogue))) |->
              CHOOSE k \in Indexes : Cardinality(Met(filter, wanted, k - 1)) < n
                                       /\ n <= Cardinality(Met(filter, wanted, k))]
BY DEF Index

\* An index is a list.
LEMMA IndexIsList ==
  ASSUME NEW filter \in Range(FilterNames), NEW wanted \in Range(Lower)
  PROVE  \E X : Index[filter][wanted] \in Seq(X)
<1> DEFINE N == Cardinality(Met(filter, wanted, Len(Catalogue)))
           e(n) == CHOOSE k \in Indexes : Cardinality(Met(filter, wanted, k - 1)) < n
                                       /\ n <= Cardinality(Met(filter, wanted, k))
           X == {e(n) : n \in 1 .. N}
<1>1. Index[filter][wanted] = [n \in 1 .. N |-> e(n)]
  BY DEF Index
<1>2. N \in Nat
  <2>1. Len(Catalogue) \in 0 .. Len(Catalogue)
    BY IndexesAre
  <2> QED BY <2>1, MetIs
<1> HIDE DEF e, N
<1>3. [n \in 1 .. N |-> e(n)] \in [1 .. N -> X]
  OBVIOUS
<1> HIDE DEF X
<1>4. [n \in 1 .. N |-> e(n)] \in Seq(X)
  BY <1>2, <1>3, SeqDef
<1> QED BY <1>1, <1>4

Once(filter, wanted) == \A j \in Indexes : \A a, b \in Carries(j, filter, wanted) : a = b
Carriers(filter, wanted) == {j \in Indexes : Carries(j, filter, wanted) # {}}

\* When no station carries the label twice, as many labels were met as stations.
LEMMA MetOnce ==
  ASSUME NEW filter \in Range(FilterNames), NEW wanted, NEW k \in 0 .. Len(Catalogue),
         Once(filter, wanted)
  PROVE  Cardinality(Met(filter, wanted, k)) = Cardinality({q \in Carriers(filter, wanted) : q <= k})
<1> DEFINE K == Carriers(filter, wanted)
           M == Met(filter, wanted, k)
           Q == {q \in K : q <= k}
           h == [o \in M |-> o[1]]
<1>1. IsFiniteSet(M) /\ \A o : o \in M <=>
         \E j \in 1 .. k : \E i \in Carries(j, filter, wanted) : o = <<j, i>>
  BY MetIs
<1>2. k \in Nat /\ 1 .. k \subseteq Indexes /\ \A j \in Indexes : j \in Nat /\ (j <= k => j \in 1 .. k)
  BY IndexesAre
<1> USE DEF Carriers
<1> HIDE DEF M
<1>3. ASSUME NEW o \in M PROVE h[o] \in Q
  <2>1. PICK j \in 1 .. k : \E i \in Carries(j, filter, wanted) : o = <<j, i>>
    BY <1>1, <1>3
  <2>2. o[1] = j
    BY <2>1
  <2> QED BY <1>2, <2>1, <2>2
<1>4. ASSUME NEW o \in M, NEW p \in M, h[o] = h[p] PROVE o = p
  <2>1. PICK j \in 1 .. k : \E i \in Carries(j, filter, wanted) : o = <<j, i>>
    BY <1>1
  <2>2. PICK a \in Carries(j, filter, wanted) : o = <<j, a>>
    BY <2>1
  <2>3. PICK l \in 1 .. k : \E i \in Carries(l, filter, wanted) : p = <<l, i>>
    BY <1>1
  <2>4. PICK b \in Carries(l, filter, wanted) : p = <<l, b>>
    BY <2>3
  <2>5. j = l
    BY <1>4, <2>2, <2>4
  <2> QED BY <1>2, <2>2, <2>4, <2>5 DEF Once
<1>5. ASSUME NEW q \in Q PROVE \E o \in M : h[o] = q
  <2>1. q \in 1 .. k /\ Carries(q, filter, wanted) # {}
    BY <1>2
  <2>2. PICK a \in Carries(q, filter, wanted) : TRUE
    BY <2>1
  <2>3. <<q, a>> \in M
    BY <1>1, <2>1, <2>2
  <2>4. h[<<q, a>>] = q
    BY <2>3
  <2> QED BY <2>3, <2>4
<1>6. h \in Bijection(M, Q)
  <2>1. h \in [M -> Q]
    <3> HIDE DEF Q
    <3> QED BY <1>3
  <2> HIDE DEF h, Q
  <2> QED BY <1>4, <1>5, <2>1 DEF Bijection, Injection, IsInjective, Surjection
<1> HIDE DEF h, Q
<1>7. Cardinality(Q) = Cardinality(M)
  <2>1. ExistsBijection(M, Q)
    BY <1>6 DEF ExistsBijection
  <2> QED BY <1>1, <2>1, FS_Bijection
<1> QED BY <1>7 DEF M, Q

\* Then the index of the label lists them once each, in their order.
LEMMA IndexPlain ==
  ASSUME NEW filter \in Range(FilterNames), NEW wanted \in Range(Lower), Once(filter, wanted)
  PROVE  Index[filter][wanted] = InOrder(Carriers(filter, wanted))
<1>1. PICK N : N = Len(Catalogue)
  OBVIOUS
<1>2. PICK K : K = Carriers(filter, wanted)
  OBVIOUS
<1>3. PICK g : g = InOrder(K)
  OBVIOUS
<1>4. PICK m : m = Cardinality(K)
  OBVIOUS
<1>5. PICK c : c = [k \in 0 .. N |-> Cardinality(Met(filter, wanted, k))]
  OBVIOUS
<1>6. N \in Nat /\ Indexes = 1 .. N /\ K \subseteq Indexes /\ K \subseteq Nat /\ IsFiniteSet(K)
  <2>1. N \in Nat /\ Indexes = 1 .. N
    BY <1>1, IndexesAre
  <2>2. IsFiniteSet(Indexes)
    BY <2>1, IntervalOf
  <2>3. K \subseteq Indexes
    BY <1>2 DEF Carriers
  <2>4. IsFiniteSet(K)
    BY <2>2, <2>3, FS_Subset
  <2>5. \A q \in Indexes : q \in Nat
    BY <2>1
  <2> QED BY <2>1, <2>3, <2>4, <2>5
<1>a. \A q \in K : q \in 1 .. N /\ q \in Int /\ q <= N
  <2>1. \A q \in 1 .. N : q \in Int /\ q <= N
    BY <1>6
  <2> QED BY <1>6, <2>1
<1>7. /\ m \in Nat /\ g \in [1 .. m -> K]
      /\ \A i, j \in 1 .. m : i < j => g[i] < g[j]
      /\ \A p \in K : \E i \in 1 .. m : g[i] = p
  BY <1>3, <1>4, <1>6, InOrderIs
<1>8. \A k \in 0 .. N : c[k] = Cardinality({q \in K : q <= k}) /\ c[k] \in Nat
  BY <1>1, <1>2, <1>5, MetOnce, MetIs
<1>9. \A n \in 1 .. m : /\ Cardinality({q \in K : q < g[n]}) = n - 1
                        /\ Cardinality({q \in K : q <= g[n]}) = n
  <2>1. K \subseteq Nat /\ IsFiniteSet(K)
    BY <1>6
  <2>2. \A n \in 1 .. Cardinality(K) : /\ Cardinality({q \in K : q < InOrder(K)[n]}) = n - 1
                                      /\ Cardinality({q \in K : q <= InOrder(K)[n]}) = n
    BY ONLY <2>1, CountBefore
  <2> QED BY <1>3, <1>4, <2>2
<1>10. Index[filter][wanted] = [n \in 1 .. m |-> CHOOSE k \in Indexes : c[k - 1] < n /\ n <= c[k]]
  <2>1. N \in 0 .. N /\ \A k \in Indexes : k \in 0 .. N /\ k - 1 \in 0 .. N
    BY <1>6
  <2>2. c[N] = m
    <3>1. {q \in K : q <= N} = K
      BY <1>a
    <3> QED BY <1>4, <1>8, <2>1, <3>1
  <2>3. \A k \in Indexes : /\ Cardinality(Met(filter, wanted, k - 1)) = c[k - 1]
                           /\ Cardinality(Met(filter, wanted, k)) = c[k]
    BY <1>5, <2>1
  <2>4. Cardinality(Met(filter, wanted, Len(Catalogue))) = m
    BY <1>1, <1>5, <2>1, <2>2
  <2>5. Index[filter][wanted] =
          [n \in 1 .. m |-> CHOOSE k \in Indexes : /\ Cardinality(Met(filter, wanted, k - 1)) < n
                                                   /\ n <= Cardinality(Met(filter, wanted, k))]
    BY <2>4 DEF Index
  <2>6. ASSUME NEW n \in 1 .. m
        PROVE  (CHOOSE k \in Indexes : /\ Cardinality(Met(filter, wanted, k - 1)) < n
                                       /\ n <= Cardinality(Met(filter, wanted, k)))
                 = CHOOSE k \in Indexes : c[k - 1] < n /\ n <= c[k]
    BY <2>3
  <2> QED BY <2>5, <2>6
<1>11. ASSUME NEW k \in 0 .. N, NEW l \in 0 .. N, k <= l PROVE c[k] <= c[l]
  <2>1. PICK A : A = {q \in K : q <= k}
    OBVIOUS
  <2>2. PICK B : B = {q \in K : q <= l}
    OBVIOUS
  <2>3. A \subseteq B /\ B \subseteq K
    <3>1. \A q \in K : q <= k => q <= l
      BY <1>6, <1>11, <1>a
    <3> QED BY <2>1, <2>2, <3>1
  <2>4. c[k] = Cardinality(A) /\ c[l] = Cardinality(B)
    BY <1>8, <2>1, <2>2
  <2>5. IsFiniteSet(B)
    BY <1>6, <2>3, FS_Subset
  <2> QED BY <2>3, <2>4, <2>5, FS_Subset
<1>12. ASSUME NEW n \in 1 .. m
       PROVE  (CHOOSE k \in Indexes : c[k - 1] < n /\ n <= c[k]) = g[n]
  <2>1. /\ g[n] \in K /\ g[n] \in Indexes /\ g[n] \in 1 .. N
        /\ g[n] \in 0 .. N /\ g[n] - 1 \in 0 .. N
    <3>1. g[n] \in K
      BY <1>7
    <3>2. g[n] \in 1 .. N
      BY <1>a, <3>1
    <3> QED BY <1>6, <3>1, <3>2
  <2>2. c[g[n]] = n
    BY <1>8, <1>9, <2>1
  <2>3. c[g[n] - 1] = n - 1
    <3>1. {q \in K : q <= g[n] - 1} = {q \in K : q < g[n]}
      <4>1. \A q \in K : q <= g[n] - 1 <=> q < g[n]
        BY <1>a, <2>1
      <4> QED BY <4>1
    <3>2. c[g[n] - 1] = Cardinality({q \in K : q <= g[n] - 1})
      BY <1>8, <2>1
    <3> QED BY <1>9, <3>1, <3>2
  <2>4. c[g[n] - 1] < n /\ n <= c[g[n]]
    BY <1>7, <2>2, <2>3
  <2>5. ASSUME NEW k \in Indexes, c[k - 1] < n /\ n <= c[k] PROVE k = g[n]
    <3>1. k \in 1 .. N /\ k \in 0 .. N /\ k - 1 \in 0 .. N
      BY <1>6
    <3>2. k <= g[n] - 1 => c[k] <= n - 1
      BY <1>11, <2>1, <2>3, <3>1
    <3>3. g[n] <= k - 1 => n <= c[k - 1]
      BY <1>11, <2>1, <2>2, <3>1
    <3>4. c[k] \in Nat /\ c[k - 1] \in Nat
      BY <1>8, <3>1
    <3> QED BY <1>7, <2>1, <2>5, <3>1, <3>2, <3>3, <3>4
  <2> QED BY <2>1, <2>4, <2>5
<1>13. g = [n \in 1 .. m |-> g[n]]
  BY <1>7
<1> QED BY <1>2, <1>3, <1>10, <1>12, <1>13

\* The filters that are given, their labels in small letters.
Asked(query) == {filter \in Range(FilterNames) : query[filter] # NoFilter}
Known(query) == \A filter \in Asked(query) : query[filter] \in DOMAIN Lower
IndexFor(query, filter) == Index[filter][Lower[query[filter]]]

\* One list for every filter that is given, and no other.
LEMMA ListsAre ==
  ASSUME NEW query, NEW lists, lists = CandidateLists(query)
  PROVE  \E n \in Nat :
           /\ DOMAIN lists = 1 .. n /\ (lists = << >> <=> n = 0)
           /\ \A i \in 1 .. n : \E filter \in Asked(query) : lists[i] = IndexFor(query, filter)
           /\ \A filter \in Asked(query) : \E i \in 1 .. n : lists[i] = IndexFor(query, filter)
<1>1. PICK given : given = Only(FilterNames, Asked(query))
  OBVIOUS
<1>2. lists = [i \in DOMAIN given |-> IndexFor(query, given[i])]
  BY <1>1 DEF CandidateLists, Asked, IndexFor
<1>3. FilterNames \in Seq(Range(FilterNames))
  <2>1. FilterNames \in Seq({"country", "language", "tag", "genre"})
    BY DEF FilterNames
  <2> QED BY <2>1, Names
<1>4. /\ given \in Seq(Asked(query))
      /\ \A i \in DOMAIN FilterNames : FilterNames[i] \in Asked(query) =>
           \E j \in DOMAIN given : given[j] = FilterNames[i]
  BY <1>1, <1>3, OnlyIs
<1>5. /\ Len(given) \in Nat /\ DOMAIN given = 1 .. Len(given)
      /\ \A i \in DOMAIN given : given[i] \in Asked(query)
  BY <1>4, LenProperties, ElementOfSeq
<1>6. \A filter \in Asked(query) : \E j \in DOMAIN given : given[j] = filter
  <2>1. \A filter \in Asked(query) : \E i \in DOMAIN FilterNames : FilterNames[i] = filter
    BY DEF Asked, Range
  <2> QED BY <1>4, <2>1
<1>7. lists = << >> <=> Len(given) = 0
  <2>1. PICK X : X = {IndexFor(query, given[i]) : i \in DOMAIN given}
    OBVIOUS
  <2>2. lists \in [1 .. Len(given) -> X]
    BY <1>2, <1>5, <2>1
  <2>3. lists \in Seq(X) /\ Len(lists) = Len(given)
    BY <1>5, <2>2, SeqDef, LenProperties
  <2> QED BY <2>3, EmptySeq
<1>8. DOMAIN lists = 1 .. Len(given) /\ \A i \in 1 .. Len(given) : lists[i] = IndexFor(query, given[i])
  BY <1>2, <1>5
<1>9. ASSUME NEW filter \in Asked(query)
      PROVE  \E i \in 1 .. Len(given) : lists[i] = IndexFor(query, filter)
  <2>1. PICK j \in DOMAIN given : given[j] = filter
    BY <1>6
  <2>2. j \in 1 .. Len(given) /\ lists[j] = IndexFor(query, filter)
    BY <1>5, <1>8, <2>1
  <2> QED BY <2>2
<1>10. \A i \in 1 .. Len(given) : \E filter \in Asked(query) : lists[i] = IndexFor(query, filter)
  BY <1>5, <1>8
<1>11. PICK n \in Nat : n = Len(given)
  BY <1>5
<1> QED BY <1>7, <1>8, <1>9, <1>10, <1>11

\* A list that is not longer than any, and the first of these.
LEMMA ShortestIs ==
  ASSUME NEW n \in Nat, n # 0, NEW lists, DOMAIN lists = 1 .. n,
         \A i \in 1 .. n : Len(lists[i]) \in Nat
  PROVE  \E s \in 1 .. n : \A j \in 1 .. n :
           Len(lists[s]) < Len(lists[j]) \/ (Len(lists[s]) = Len(lists[j]) /\ s <= j)
<1>1. PICK L : L = {Len(lists[i]) : i \in 1 .. n}
  OBVIOUS
<1>2. L \subseteq Nat /\ L # {}
  <2>1. 1 \in 1 .. n
    OBVIOUS
  <2> QED BY <1>1, <2>1
<1>3. PICK l \in L : \A k \in L : l <= k
  BY <1>2, LeastNatural
<1>4. PICK I : I = {i \in 1 .. n : Len(lists[i]) = l}
  OBVIOUS
<1>5. I \subseteq Nat /\ I # {}
  BY <1>1, <1>3, <1>4
<1>6. PICK s \in I : \A i \in I : s <= i
  BY <1>5, LeastNatural
<1>7. s \in 1 .. n /\ Len(lists[s]) = l
  BY <1>4, <1>6
<1>8. ASSUME NEW j \in 1 .. n
      PROVE  Len(lists[s]) < Len(lists[j]) \/ (Len(lists[s]) = Len(lists[j]) /\ s <= j)
  <2>1. l <= Len(lists[j]) /\ l \in Nat /\ Len(lists[j]) \in Nat
    BY <1>1, <1>2, <1>3
  <2>2. Len(lists[j]) = l => s <= j
    BY <1>4, <1>6
  <2> QED BY <1>7, <2>1, <2>2
<1> QED BY <1>7, <1>8

\* The intersection is what one of the lists holds and all others do too.
LEMMA IntersectIs ==
  ASSUME NEW query, NEW lists, lists = CandidateLists(query), Known(query)
  PROVE  \/ Asked(query) = {} /\ Intersect(lists) = [k \in Indexes |-> k]
         \/ \E filter \in Asked(query) :
              Intersect(lists) = Only(IndexFor(query, filter), {k \in Indexes :
                 \A other \in Asked(query) : k \in Range(IndexFor(query, other))})
<1>1. PICK n \in Nat :
           /\ DOMAIN lists = 1 .. n /\ (lists = << >> <=> n = 0)
           /\ \A i \in 1 .. n : \E filter \in Asked(query) : lists[i] = IndexFor(query, filter)
           /\ \A filter \in Asked(query) : \E i \in 1 .. n : lists[i] = IndexFor(query, filter)
  BY ListsAre
<1>2. CASE n = 0
  <2>1. Asked(query) = {}
    BY <1>1, <1>2
  <2>2. Intersect(lists) = [k \in Indexes |-> k]
    BY <1>1, <1>2 DEF Intersect
  <2> QED BY <2>1, <2>2
<1>3. CASE n # 0
  <2>1. \A i \in 1 .. n : Len(lists[i]) \in Nat
    <3> TAKE i \in 1 .. n
    <3>1. PICK filter \in Asked(query) : lists[i] = IndexFor(query, filter)
      BY <1>1
    <3>2. filter \in Range(FilterNames) /\ Lower[query[filter]] \in Range(Lower)
      BY DEF Asked, Known, Range
    <3>3. PICK X : IndexFor(query, filter) \in Seq(X)
      BY <3>2, IndexIsList DEF IndexFor
    <3> QED BY <3>1, <3>3, LenProperties
  <2>2. \E s \in 1 .. n : \A j \in 1 .. n :
           Len(lists[s]) < Len(lists[j]) \/ (Len(lists[s]) = Len(lists[j]) /\ s <= j)
    BY <1>1, <1>3, <2>1, ShortestIs
  <2>3. PICK s : s = CHOOSE i \in DOMAIN lists : \A j \in DOMAIN lists :
                             \/ Len(lists[i]) < Len(lists[j])
                             \/ Len(lists[i]) = Len(lists[j]) /\ i <= j
    OBVIOUS
  <2>4. s \in 1 .. n
    BY <1>1, <2>2, <2>3
  <2>5. PICK common : common = {k \in Indexes : \A j \in DOMAIN lists : k \in Range(lists[j])}
    OBVIOUS
  <2>6. Intersect(lists) = Only(lists[s], common)
    BY <1>1, <1>3, <2>3, <2>5 DEF Intersect
  <2>7. common = {k \in Indexes : \A other \in Asked(query) : k \in Range(IndexFor(query, other))}
    <3>1. ASSUME NEW k
          PROVE  (\A j \in 1 .. n : k \in Range(lists[j]))
                    <=> \A other \in Asked(query) : k \in Range(IndexFor(query, other))
      BY <1>1
    <3> QED BY <1>1, <2>5, <3>1
  <2>8. PICK filter \in Asked(query) : lists[s] = IndexFor(query, filter)
    BY <1>1, <2>4
  <2> QED BY <2>6, <2>7, <2>8
<1> QED BY <1>2, <1>3

\* What a query finds are stations of the catalogue.
LEMMA FoundIsList ==
  ASSUME NEW query, Known(query)
  PROVE  Found(query) \in Seq(Indexes)
<1>1. PICK among : among = Intersect(CandidateLists(query))
  OBVIOUS
<1>2. \E X : among \in Seq(X)
  <2>1. CASE among = [k \in Indexes |-> k]
    <3>1. among \in [1 .. Len(Catalogue) -> Indexes] /\ Len(Catalogue) \in Nat
      BY <2>1, IndexesAre
    <3> QED BY <3>1, SeqDef
  <2>2. CASE \E filter \in Asked(query) : \E Y : among = Only(IndexFor(query, filter), Y)
    <3>1. PICK filter \in Asked(query) : \E Y : among = Only(IndexFor(query, filter), Y)
      BY <2>2
    <3>2. PICK Y : among = Only(IndexFor(query, filter), Y)
      BY <3>1
    <3>3. filter \in Range(FilterNames) /\ Lower[query[filter]] \in Range(Lower)
      BY DEF Asked, Known, Range
    <3>4. PICK X : IndexFor(query, filter) \in Seq(X)
      BY <3>3, IndexIsList DEF IndexFor
    <3>5. Only(IndexFor(query, filter), Y) \in Seq(Y)
      BY <3>4, OnlyIs
    <3> QED BY <3>2, <3>5
  <2> QED BY <1>1, <2>1, <2>2, IntersectIs
<1>3. PICK X : among \in Seq(X)
  BY <1>2
<1>4. PICK Y : Y = {k \in Indexes :
        /\ query.search = NoFilter \/ query.search \in Catalogue[k].words
        /\ MatchesFilters(k, query)}
  OBVIOUS
<1>5. Found(query) = Only(among, Y)
  BY <1>1, <1>4 DEF Found
<1>6. Only(among, Y) \in Seq(Y)
  BY <1>3, OnlyIs
<1>7. Y \subseteq Indexes
  BY <1>4
<1> QED BY <1>5, <1>6, <1>7, SeqMonotonic

LEMMA AllIndexes == [k \in Indexes |-> k] = InOrder(Indexes) /\ Indexes \subseteq Nat /\ IsFiniteSet(Indexes)
<1>1. PICK N \in Nat : N = Len(Catalogue) /\ Indexes = 1 .. N
  BY IndexesAre
<1>2. PICK h : h = [k \in 1 .. N |-> k]
  OBVIOUS
<1>3. 1 .. N \subseteq Nat /\ h \in [1 .. N -> 1 .. N]
  BY <1>2
<1>4. /\ \A i, j \in 1 .. N : i < j => h[i] < h[j]
      /\ \A p \in 1 .. N : \E i \in 1 .. N : h[i] = p
  BY <1>2
<1>5. IsFiniteSet(1 .. N) /\ InOrder(1 .. N) = h
  <2>1. PICK P : P = 1 .. N
    OBVIOUS
  <2>2. /\ P \subseteq Nat /\ h \in [1 .. N -> P]
        /\ \A i, j \in 1 .. N : i < j => h[i] < h[j]
        /\ \A p \in P : \E i \in 1 .. N : h[i] = p
    BY <1>3, <1>4, <2>1
  <2>3. IsFiniteSet(P) /\ InOrder(P) = h
    BY ONLY <1>1, <2>2, InOrderUnique
  <2> QED BY <2>1, <2>3
<1> QED BY <1>1, <1>2, <1>3, <1>5

\* The stations of numbers in order are those numbers.
LEMMA RangeInOrder ==
  ASSUME NEW K, K \subseteq Nat, IsFiniteSet(K)
  PROVE  Range(InOrder(K)) = K
<1>1. PICK n : n = Cardinality(K)
  OBVIOUS
<1>2. PICK g : g = InOrder(K)
  OBVIOUS
<1>3. g \in [1 .. n -> K] /\ \A p \in K : \E i \in 1 .. n : g[i] = p
  BY <1>1, <1>2, InOrderIs
<1> QED BY <1>2, <1>3 DEF Range

\* When no station carries a wanted label twice, or in capitals that are not
\* ASCII's, the indexes find the stations that fit the query, in their order.
LEMMA FoundIsTheListing ==
  ASSUME NEW query, Known(query), Plain(query)
  PROVE  Found(query) = Listing(query)
<1>1. PICK lists : lists = CandidateLists(query)
  OBVIOUS
<1>2. PICK B : B = {k \in Indexes : \A filter \in Asked(query) :
                       Carries(k, filter, Lower[query[filter]]) # {}}
  OBVIOUS
<1>3. PICK Y : Y = {k \in Indexes :
        /\ query.search = NoFilter \/ query.search \in Catalogue[k].words
        /\ MatchesFilters(k, query)}
  OBVIOUS
<1>4. PICK F : F = {k \in Indexes : Fits(k, query)}
  OBVIOUS
<1>5. ASSUME NEW filter \in Asked(query)
      PROVE  /\ filter \in Range(FilterNames) /\ Lower[query[filter]] \in Range(Lower)
             /\ IndexFor(query, filter) = InOrder(Carriers(filter, Lower[query[filter]]))
             /\ Carriers(filter, Lower[query[filter]]) \subseteq Indexes
  <2>1. filter \in Range(FilterNames) /\ Lower[query[filter]] \in Range(Lower) /\ query[filter] # NoFilter
    BY DEF Asked, Known, Range
  <2>2. Once(filter, Lower[query[filter]])
    BY <2>1 DEF Plain, Once
  <2>3. Carriers(filter, Lower[query[filter]]) \subseteq Indexes
    BY DEF Carriers
  <2> QED BY <2>1, <2>2, <2>3, IndexPlain DEF IndexFor
<1>6. ASSUME NEW filter \in Asked(query)
      PROVE  Range(IndexFor(query, filter)) = Carriers(filter, Lower[query[filter]])
  <2>1. PICK K : K = Carriers(filter, Lower[query[filter]])
    OBVIOUS
  <2>2. K \subseteq Nat /\ IsFiniteSet(K)
    BY <1>5, <2>1, AllIndexes, FS_Subset
  <2> QED BY <1>5, <2>1, <2>2, RangeInOrder
<1>7. Intersect(lists) = InOrder(B)
  <2>1. CASE Asked(query) = {} /\ Intersect(lists) = [k \in Indexes |-> k]
    <3>1. B = Indexes
      BY <1>2, <2>1
    <3> QED BY <2>1, <3>1, AllIndexes
  <2>2. ASSUME NEW filter \in Asked(query),
               Intersect(lists) = Only(IndexFor(query, filter), {k \in Indexes :
                 \A other \in Asked(query) : k \in Range(IndexFor(query, other))})
        PROVE  Intersect(lists) = InOrder(B)
    <3>1. PICK K : K = Carriers(filter, Lower[query[filter]])
      OBVIOUS
    <3>2. K \subseteq Nat /\ IsFiniteSet(K)
      BY <1>5, <3>1, AllIndexes, FS_Subset
    <3>3. {k \in Indexes : \A other \in Asked(query) : k \in Range(IndexFor(query, other))} = B
      <4>1. ASSUME NEW k \in Indexes, NEW other \in Asked(query)
            PROVE  k \in Range(IndexFor(query, other)) <=> Carries(k, other, Lower[query[other]]) # {}
        BY <1>6 DEF Carriers
      <4> QED BY <1>2, <4>1
    <3>4. Intersect(lists) = Only(InOrder(K), B)
      BY <1>5, <2>2, <3>1, <3>3
    <3>5. K \cap B = B
      BY <1>2, <3>1 DEF Carriers
    <3> QED BY <3>2, <3>4, <3>5, OnlyOfOrdered
  <2> QED BY <1>1, <2>1, <2>2, IntersectIs
<1>8. Found(query) = InOrder(B \cap Y)
  <2>1. Found(query) = Only(InOrder(B), Y)
    BY <1>1, <1>3, <1>7 DEF Found
  <2>2. B \subseteq Nat /\ IsFiniteSet(B)
    <3>1. B \subseteq Indexes
      BY <1>2
    <3> QED BY <3>1, AllIndexes, FS_Subset
  <2> QED BY <2>1, <2>2, OnlyOfOrdered
<1>9. Listing(query) = InOrder(Indexes \cap F)
  <2>1. Listing(query) = Only(InOrder(Indexes), F)
    BY <1>4, AllIndexes DEF Listing
  <2> QED BY <2>1, AllIndexes, OnlyOfOrdered
<1>10. ASSUME NEW k \in B PROVE MatchesFilters(k, query)
  <2>1. SUFFICES ASSUME NEW filter \in Range(FilterNames), query[filter] # NoFilter
                 PROVE  \E label \in Range(Labels[k][filter]) :
                           EqIgnoreAsciiCase(label, Lower[query[filter]])
    BY DEF MatchesFilters
  <2>2. filter \in Asked(query) /\ k \in Indexes
    BY <1>2, <2>1 DEF Asked
  <2>3. PICK i : i \in Carries(k, filter, Lower[query[filter]])
    BY <1>2, <2>2
  <2>4. i \in DOMAIN Labels[k][filter] /\ Lower[Labels[k][filter][i]] = Lower[query[filter]]
    BY <2>3 DEF Carries
  <2>5. AsciiLower[Labels[k][filter][i]] = Lower[Labels[k][filter][i]]
    BY <2>1, <2>2, <2>3 DEF Plain
  <2>6. AsciiLower[Lower[query[filter]]] = Lower[query[filter]]
    BY <2>2, QueryConstants DEF Known
  <2>7. EqIgnoreAsciiCase(Labels[k][filter][i], Lower[query[filter]])
    BY <2>4, <2>5, <2>6 DEF EqIgnoreAsciiCase
  <2>8. Labels[k][filter][i] \in Range(Labels[k][filter])
    BY <2>4 DEF Range
  <2> QED BY <2>7, <2>8
<1>11. B \cap Y = Indexes \cap F
  <2>1. ASSUME NEW k \in Indexes
        PROVE  Fits(k, query) <=> /\ k \in B
                                  /\ query.search = NoFilter \/ query.search \in Catalogue[k].words
    BY <1>2 DEF Fits, Asked
  <2> QED BY <1>2, <1>3, <1>4, <1>10, <2>1
<1> QED BY <1>8, <1>9, <1>11

\* Where the page begins makes no difference to what is found.
LEMMA SameFound ==
  ASSUME NEW q, NEW r, q.search = r.search, \A filter \in Range(FilterNames) : q[filter] = r[filter]
  PROVE  Found(q) = Found(r)
<1>1. CandidateLists(q) = CandidateLists(r)
  <2>1. {filter \in Range(FilterNames) : q[filter] # NoFilter}
          = {filter \in Range(FilterNames) : r[filter] # NoFilter}
    OBVIOUS
  <2>2. PICK given : given = Only(FilterNames, Asked(q)) /\ given = Only(FilterNames, Asked(r))
    BY <2>1 DEF Asked
  <2>3. ASSUME NEW i \in DOMAIN given PROVE given[i] \in Range(FilterNames)
    <3>1. FilterNames \in Seq({"country", "language", "tag", "genre"})
      BY DEF FilterNames
    <3>2. given \in Seq(Asked(q))
      BY <2>2, <3>1, OnlyIs
    <3>3. given[i] \in Asked(q)
      BY <3>2, LenProperties, ElementOfSeq
    <3> QED BY <3>3 DEF Asked
  <2>4. CandidateLists(q) = [i \in DOMAIN given |-> Index[given[i]][Lower[q[given[i]]]]]
    BY <2>2 DEF CandidateLists, Asked
  <2>5. CandidateLists(r) = [i \in DOMAIN given |-> Index[given[i]][Lower[r[given[i]]]]]
    BY <2>2 DEF CandidateLists, Asked
  <2> QED BY <2>3, <2>4, <2>5
<1>2. \A k : MatchesFilters(k, q) <=> MatchesFilters(k, r)
  BY DEF MatchesFilters
<1> QED BY <1>1, <1>2 DEF Found

-----------------------------------------------------------------------------
(* The radio page *)

\* The listing for a choice of filters, and as much of it as was asked for.
Answer(wanted) == Found(Query(wanted, 0))
UpTo(n, length) == IF n < length THEN n ELSE length
ShownUpTo(wanted, n) == SubSeq(Answer(wanted), 1, UpTo(n, Len(Answer(wanted))))

LEMMA QueryIs ==
  ASSUME NEW wanted \in Filters, NEW offset \in Nat
  PROVE  /\ Known(Query(wanted, offset))
         /\ Found(Query(wanted, offset)) = Answer(wanted)
         /\ Answer(wanted) \in Seq(Indexes) /\ Len(Answer(wanted)) \in Nat
<1>1. ASSUME NEW n \in Nat PROVE Known(Query(wanted, n))
  <2>1. SUFFICES ASSUME NEW filter \in Range(FilterNames), Query(wanted, n)[filter] # NoFilter
                 PROVE  Query(wanted, n)[filter] \in DOMAIN Lower
    BY DEF Known, Asked
  <2>2. CASE filter = "country"
    BY <2>1, <2>2, PageConstants DEF Query, Filters
  <2>3. CASE filter = "genre"
    BY <2>1, <2>3, PageConstants DEF Query, Filters
  <2>4. CASE filter \in {"language", "tag"}
    BY <2>1, <2>4 DEF Query
  <2> QED BY <2>2, <2>3, <2>4, Names
<1>2. Found(Query(wanted, offset)) = Answer(wanted)
  <2>1. Query(wanted, offset).search = Query(wanted, 0).search
    BY DEF Query
  <2>2. \A filter \in Range(FilterNames) : Query(wanted, offset)[filter] = Query(wanted, 0)[filter]
    BY Names DEF Query
  <2> QED BY <2>1, <2>2, SameFound DEF Answer
<1>3. Answer(wanted) \in Seq(Indexes)
  BY <1>1, FoundIsList DEF Answer
<1> QED BY <1>1, <1>2, <1>3, LenProperties

\* A page continues the list that was shown up to its offset.
LEMMA PageIs ==
  ASSUME NEW wanted \in Filters, NEW offset \in Nat,
         NEW page, page = Project(Query(wanted, offset)),
         NEW length, length = Len(Answer(wanted))
  PROVE  /\ page.items \in Seq(Indexes) /\ page.hasMore \in BOOLEAN
         /\ page.offset + page.limit \in Nat
         /\ offset = 0 => page.items = ShownUpTo(wanted, page.offset + page.limit)
         /\ offset < length =>
               ShownUpTo(wanted, offset) \o page.items = ShownUpTo(wanted, page.offset + page.limit)
         /\ page.hasMore <=> page.offset + page.limit < length
<1>1. PICK list : list = Answer(wanted)
  OBVIOUS
<1>2. PICK limit : limit = Limit(Query(wanted, offset))
  OBVIOUS
<1>3. limit \in Nat /\ limit # 0
  BY <1>2, PageConstants, QueryConstants DEF Limit, Query
<1>4. PICK start : start = UpTo(offset, length)
  OBVIOUS
<1>5. PICK end : end = UpTo(start + limit, length)
  OBVIOUS
<1>6. list \in Seq(Indexes) /\ length \in Nat /\ length = Len(list)
  BY <1>1, QueryIs
<1>a. PICK items : items = SubSeq(list, start + 1, end)
  OBVIOUS
<1>b. PICK more : more = (end < length)
  OBVIOUS
<1>7. page = [items |-> items, hasMore |-> more, offset |-> offset, limit |-> limit]
  <2>1. Found(Query(wanted, offset)) = list /\ Query(wanted, offset).offset = offset
    BY <1>1, QueryIs DEF Query
  <2> QED BY <1>2, <1>4, <1>5, <1>6, <1>a, <1>b, <2>1 DEF Project, UpTo
<1>8. start \in 0 .. length /\ end \in start .. length
  BY <1>3, <1>4, <1>5, <1>6 DEF UpTo
<1>9. \A m, n \in Int : 1 <= m /\ n <= length => SubSeq(list, m, n) \in Seq(Indexes)
  <2> TAKE m, n \in Int
  <2>1. SUFFICES ASSUME 1 <= m /\ n <= length PROVE \A i \in m .. n : list[i] \in Indexes
    BY SubSeqProperties
  <2>2. \A i \in m .. n : i \in 1 .. Len(list)
    BY <1>6, <2>1
  <2> QED BY <1>6, <2>2, ElementOfSeq
<1>10. SubSeq(list, start + 1, end) \in Seq(Indexes)
  BY <1>8, <1>6, <1>9
<1>11. end < length <=> offset + limit < length
  BY <1>3, <1>4, <1>5, <1>6 DEF UpTo
<1>12. ASSUME offset = 0 PROVE SubSeq(list, start + 1, end) = ShownUpTo(wanted, offset + limit)
  <2>1. start + 1 = 1 /\ end = UpTo(offset + limit, length)
    BY <1>3, <1>4, <1>5, <1>6, <1>12 DEF UpTo
  <2> QED BY <1>1, <1>6, <2>1 DEF ShownUpTo
<1>13. ASSUME offset < length
       PROVE  ShownUpTo(wanted, offset) \o SubSeq(list, start + 1, end) = ShownUpTo(wanted, offset + limit)
  <2>1. start = offset /\ end = UpTo(offset + limit, length) /\ UpTo(offset, length) = offset
    BY <1>4, <1>5, <1>13 DEF UpTo
  <2>2. ShownUpTo(wanted, offset) = SubSeq(list, 1, offset) /\ ShownUpTo(wanted, offset + limit) = SubSeq(list, 1, end)
    BY <1>1, <1>6, <2>1 DEF ShownUpTo
  <2>3. SubSeq(list, 1, offset) \o SubSeq(list, offset + 1, end) = SubSeq(list, 1, end)
    <3>1. offset \in 0 .. end /\ end <= length /\ end \in Nat
      BY <1>6, <1>8, <2>1
    <3>2. PICK s : s = SubSeq(list, 1, offset)
      OBVIOUS
    <3>3. PICK t : t = SubSeq(list, offset + 1, end)
      OBVIOUS
    <3>4. PICK u : u = SubSeq(list, 1, end)
      OBVIOUS
    <3>5. s \in Seq(Indexes) /\ t \in Seq(Indexes) /\ u \in Seq(Indexes)
      BY <1>6, <1>9, <3>1, <3>2, <3>3, <3>4
    <3>6. Len(s) = offset /\ (\A i \in 1 .. offset : s[i] = list[i])
      BY <1>6, <3>1, <3>2
    <3>7. Len(t) = end - offset /\ (\A i \in 1 .. end - offset : t[i] = list[offset + i])
      BY <1>6, <3>1, <3>3
    <3>8. Len(u) = end /\ (\A i \in 1 .. end : u[i] = list[i])
      BY <1>6, <3>1, <3>4
    <3>9. s \o t \in Seq(Indexes) /\ Len(s \o t) = end
          /\ \A i \in 1 .. end : (s \o t)[i] = IF i <= offset THEN s[i] ELSE t[i - offset]
      <4>1. /\ s \o t \in Seq(Indexes) /\ Len(s \o t) = Len(s) + Len(t)
            /\ \A i \in 1 .. Len(s) + Len(t) :
                 (s \o t)[i] = IF i <= Len(s) THEN s[i] ELSE t[i - Len(s)]
        BY ONLY <3>5, ConcatProperties
      <4>2. Len(s) + Len(t) = end
        BY <3>1, <3>6, <3>7
      <4> QED BY <3>6, <4>1, <4>2
    <3>10. \A i \in 1 .. end : (s \o t)[i] = u[i]
      <4> TAKE i \in 1 .. end
      <4>1. CASE i <= offset
        BY <3>1, <3>6, <3>8, <3>9, <4>1
      <4>2. CASE ~(i <= offset)
        <5>1. i - offset \in 1 .. end - offset /\ offset + (i - offset) = i
          BY <3>1, <4>2
        <5> QED BY <3>1, <3>7, <3>8, <3>9, <4>2, <5>1
      <4> QED BY <4>1, <4>2
    <3>11. s \o t = u
      BY <3>5, <3>8, <3>9, <3>10, SeqEqual
    <3> QED BY <3>2, <3>3, <3>4, <3>11
  <2> QED BY <2>1, <2>2, <2>3
<1>14. page.items = items /\ page.hasMore = more /\ page.offset = offset /\ page.limit = limit
  BY <1>7
<1>15. page.offset + page.limit = offset + limit /\ offset + limit \in Nat
  BY <1>3, <1>14
<1>16. page.hasMore \in BOOLEAN /\ (page.hasMore <=> end < length)
  <2>1. more \in BOOLEAN
    BY <1>b
  <2>2. more <=> end < length
    BY <1>b, Zenon
  <2> QED BY <1>14, <2>1, <2>2
<1> QED BY <1>10, <1>11, <1>12, <1>13, <1>14, <1>15, <1>16, <1>a

\* An address is only waited for by the station that is selected, as long as
\* no choice overtook another.
TunerOK ==
  /\ selected \in Indexes \cup {Nothing} /\ resolved \in Indexes \cup {Nothing}
  /\ resolving \in [Hls -> Nat] /\ overtaken \in BOOLEAN
  /\ ~overtaken => \A s \in Hls : resolving[s] <= 1 /\ (resolving[s] > 0 => s = selected)
  /\ PlaysTheSelected

LEMMA NothingIs == Nothing \notin Indexes /\ Hls \subseteq Indexes /\ Indexes \subseteq Nat
BY PageConstants, AllIndexes

LEMMA TuneKeeps ==
  ASSUME TunerOK, NEW station \in Indexes \cup {Nothing}, Tune(station)
  PROVE  TunerOK'
<1>1. \A s \in Hls : resolving[s] \in Nat
  BY DEF TunerOK
<1>2. resolving' \in [Hls -> Nat]
  BY DEF TunerOK, Tune
<1>3. selected' = station /\ selected' \in Indexes \cup {Nothing} /\ overtaken' \in BOOLEAN
  BY DEF Tune
<1>4. /\ station = Nothing => resolved' = Nothing
      /\ station \in Indexes \ Hls => resolved' = station
      /\ station \in Hls => resolved' = resolved
  BY NothingIs DEF Tune
<1>5. resolved' \in Indexes \cup {Nothing}
  BY <1>4, NothingIs DEF TunerOK
<1>6. ASSUME ~overtaken'
      PROVE  /\ \A s \in Hls : resolving'[s] <= 1 /\ (resolving'[s] > 0 => s = selected')
             /\ Resolving' = {} => resolved' = selected'
  <2>1. \A s \in Hls : resolving[s] = 0
    <3>1. overtaken' = (Resolving # {})
      BY DEF Tune
    <3>2. Resolving = {}
      BY <1>6, <3>1, Zenon
    <3> QED BY <1>1, <3>2 DEF Resolving
  <2>2. CASE station \in Hls
    <3>1. resolving' = [resolving EXCEPT ![station] = @ + 1]
      BY <2>2 DEF Tune
    <3>2. resolving'[station] = 1 /\ \A s \in Hls : s # station => resolving'[s] = 0
      BY <2>1, <2>2, <3>1 DEF TunerOK
    <3>3. station \in Resolving'
      BY <2>2, <3>2 DEF Resolving
    <3> QED BY <1>3, <3>2, <3>3
  <2>3. CASE station \notin Hls
    <3>1. resolving' = resolving
      BY <2>3 DEF Tune
    <3> QED BY <1>3, <1>4, <2>1, <2>3, <3>1
  <2> QED BY <2>2, <2>3
<1> QED BY <1>2, <1>3, <1>5, <1>6 DEF TunerOK, PlaysTheSelected

LEMMA ResolvedKeeps ==
  ASSUME TunerOK, NEW station \in Hls, Resolved(station)
  PROVE  TunerOK'
<1>1. \A s \in Hls : resolving[s] \in Nat
  BY DEF TunerOK
<1>2. /\ resolving[station] > 0 /\ resolved' = station
      /\ resolving' = [resolving EXCEPT ![station] = @ - 1]
      /\ selected' = selected /\ overtaken' = overtaken
  BY DEF Resolved
<1>3. resolving'[station] = resolving[station] - 1 /\ \A s \in Hls : s # station => resolving'[s] = resolving[s]
  BY <1>2 DEF TunerOK
<1>4. resolving' \in [Hls -> Nat]
  BY <1>1, <1>2 DEF TunerOK
<1>5. ASSUME ~overtaken'
      PROVE  /\ \A s \in Hls : resolving'[s] <= 1 /\ (resolving'[s] > 0 => s = selected')
             /\ resolved' = selected'
  <2>1. \A s \in Hls : resolving[s] <= 1 /\ (resolving[s] > 0 => s = selected)
    BY <1>2, <1>5 DEF TunerOK
  <2>2. station = selected
    BY <1>2, <2>1
  <2> QED BY <1>1, <1>2, <1>3, <2>1, <2>2
<1> QED BY <1>2, <1>4, <1>5, NothingIs DEF TunerOK, PlaysTheSelected

\* While the filters were never changed under a call: there is one call at
\* most, and it asks for what comes next.
CallsInOrder ==
  /\ \A a, b \in Busy : a = b
  /\ \A a \in Busy :
       /\ fetches[a].filters = filters
       /\ IF fetches[a].first THEN fetches[a].offset = 0 /\ nextOffset = Nothing
          ELSE /\ fetchingNext /\ hasMore
               /\ nextOffset # Nothing /\ fetches[a].offset = nextOffset

\* The list is the answer as far as it was asked for.
ListInOrder ==
  IF nextOffset = Nothing THEN stations = << >> /\ ~hasMore
  ELSE /\ stations = ShownUpTo(filters, nextOffset)
       /\ hasMore <=> nextOffset < Len(Answer(filters))

ListTypes ==
  /\ filters \in Filters /\ stations \in Seq(Indexes) /\ nextOffset \in Nat \cup {Nothing}
  /\ hasMore \in BOOLEAN /\ fetching \in BOOLEAN /\ fetchingNext \in BOOLEAN
  /\ fetchError \in BOOLEAN /\ inOrder \in BOOLEAN
  /\ timer \in Filters \cup {Nothing} /\ fetches \in [Slots -> Calls \cup {Nothing}]

ListOK == ListTypes /\ (inOrder => CallsInOrder /\ ListInOrder)

LEMMA StartIs ==
  ASSUME ListTypes, NEW asked \in Calls, Start(asked)
  PROVE  \E c \in Slots :
           /\ fetches' = [fetches EXCEPT ![c] = asked]
           /\ fetches' \in [Slots -> Calls \cup {Nothing}]
           /\ Busy' \subseteq Busy \cup {c} /\ fetches'[c] = asked
<1>1. PICK c : c = CHOOSE slot \in Slots : Idle(slot)
  OBVIOUS
<1>2. \E slot \in Slots : Idle(slot)
  BY DEF Start, Busy
<1>3. c \in Slots
  BY <1>1, <1>2
<1>4. fetches' = [fetches EXCEPT ![c] = asked]
  BY <1>1 DEF Start
<1>5. fetches' \in [Slots -> Calls \cup {Nothing}]
  BY <1>3, <1>4 DEF ListTypes
<1>6. fetches'[c] = asked /\ \A s \in Slots : s # c => fetches'[s] = fetches[s]
  BY <1>3, <1>4 DEF ListTypes
<1>7. Busy' \subseteq Busy \cup {c}
  BY <1>6 DEF Busy, Idle
<1> QED BY <1>3, <1>4, <1>5, <1>6, <1>7

LEMMA FetchIs ==
  ASSUME NEW wanted \in Filters, NEW offset \in Nat, NEW first \in BOOLEAN
  PROVE  /\ Fetch(wanted, offset, first) \in Calls
         /\ Fetch(wanted, offset, first).filters = wanted
         /\ Fetch(wanted, offset, first).offset = offset
         /\ Fetch(wanted, offset, first).first = first
BY DEF Fetch, Calls

\* Other filters: the list begins anew.
LEMMA NewListKeeps ==
  ASSUME ListTypes, NEW wanted \in Filters, inOrder' => Busy = {},
         filters' = wanted, stations' = << >>, nextOffset' = Nothing, hasMore' = FALSE,
         fetching' = TRUE, fetchingNext' = FALSE, fetchError' = FALSE, timer' = wanted,
         Start(Fetch(wanted, 0, TRUE)), inOrder' \in BOOLEAN
  PROVE  ListOK'
<1>1. PICK asked : asked = Fetch(wanted, 0, TRUE)
  OBVIOUS
<1>2. asked \in Calls /\ asked.filters = wanted /\ asked.offset = 0 /\ asked.first
  <2>1. 0 \in Nat /\ TRUE \in BOOLEAN
    OBVIOUS
  <2> QED BY <1>1, <2>1, FetchIs
<1>3. PICK c \in Slots :
           /\ fetches' \in [Slots -> Calls \cup {Nothing}]
           /\ Busy' \subseteq Busy \cup {c} /\ fetches'[c] = asked
  BY <1>1, <1>2, StartIs
<1>4. ListTypes'
  <2>1. << >> \in Seq(Indexes)
    OBVIOUS
  <2> QED BY <1>3, <2>1 DEF ListTypes
<1>5. inOrder' => CallsInOrder'
  BY <1>2, <1>3 DEF CallsInOrder
<1>6. ListInOrder'
  BY DEF ListInOrder
<1> QED BY <1>4, <1>5, <1>6 DEF ListOK

LEMMA RefilterKeeps ==
  ASSUME ListOK, TunerOK, NEW wanted \in Filters, Refilter(wanted)
  PROVE  ListOK' /\ TunerOK'
<1>1. ListOK'
  BY NewListKeeps DEF ListOK, Refilter
<1>2. TunerOK'
  <2>1. CASE selected = Nothing
    BY <2>1 DEF Refilter, TunerOK, tunerVars, PlaysTheSelected, Resolving
  <2>2. CASE selected # Nothing
    BY <2>2, TuneKeeps DEF Refilter
  <2> QED BY <2>1, <2>2
<1> QED BY <1>1, <1>2

\* What the radio page keeps to, and no call outlives it.
RadioInv ==
  /\ ListOK /\ TunerOK
  /\ search \in Searches \cup {NoFilter} /\ debounce \in Searches \cup {Nothing}
  /\ route # "radio" => Busy = {}

LEMMA UnfilteredIs == Unfiltered \in Filters
BY DEF Unfiltered, Filters

LEMMA RadioInitKeeps == RadioInit => ListOK /\ TunerOK /\ Busy = {}
<1> SUFFICES ASSUME RadioInit PROVE ListOK /\ TunerOK /\ Busy = {}
  OBVIOUS
<1>1. Busy = {}
  BY DEF RadioInit, Busy, Idle
<1>2. ListTypes
  <2>1. << >> \in Seq(Indexes)
    OBVIOUS
  <2> QED BY <2>1, UnfilteredIs DEF RadioInit, ListTypes
<1>3. CallsInOrder /\ ListInOrder
  BY <1>1 DEF RadioInit, CallsInOrder, ListInOrder
<1>4. TunerOK
  <2>1. resolving = [s \in Hls |-> 0] /\ selected = Nothing /\ resolved = Nothing /\ overtaken = FALSE
    BY DEF RadioInit
  <2>2. resolving \in [Hls -> Nat] /\ \A s \in Hls : resolving[s] = 0
    BY <2>1
  <2>3. \A s \in Hls : resolving[s] <= 1 /\ ~(resolving[s] > 0)
    BY <2>2
  <2> QED BY <2>1, <2>2, <2>3 DEF TunerOK, PlaysTheSelected
<1> QED BY <1>1, <1>2, <1>3, <1>4 DEF ListOK

LEMMA ResetKeeps == RadioReset => ListOK' /\ TunerOK' /\ Busy' = {}
<1> SUFFICES ASSUME RadioReset PROVE ListOK' /\ TunerOK' /\ Busy' = {}
  OBVIOUS
<1>1. Busy' = {}
  BY DEF RadioReset, Busy, Idle
<1>2. ListTypes'
  <2>1. << >> \in Seq(Indexes)
    OBVIOUS
  <2> QED BY <2>1, UnfilteredIs DEF RadioReset, ListTypes
<1>3. CallsInOrder' /\ ListInOrder'
  BY <1>1 DEF RadioReset, CallsInOrder, ListInOrder
<1>4. TunerOK'
  <2>1. resolving' = [s \in Hls |-> 0] /\ selected' = Nothing /\ resolved' = Nothing /\ overtaken' = FALSE
    BY DEF RadioReset
  <2>2. resolving' \in [Hls -> Nat] /\ \A s \in Hls : resolving'[s] = 0
    BY <2>1
  <2>3. \A s \in Hls : resolving'[s] <= 1 /\ ~(resolving'[s] > 0)
    BY <2>2
  <2> QED BY <2>1, <2>2, <2>3 DEF TunerOK, PlaysTheSelected
<1> QED BY <1>1, <1>2, <1>3, <1>4 DEF ListOK

LEMMA OpenKeeps ==
  ASSUME ListTypes, Busy = {}, NEW shared \in Indexes \cup {Nothing}, OpenRadio(shared)
  PROVE  ListOK' /\ TunerOK'
<1>1. ListOK'
  BY NewListKeeps, UnfilteredIs DEF OpenRadio
<1>2. TunerOK'
  <2>1. resolving' = [s \in Hls |-> IF s = shared THEN 1 ELSE 0]
        /\ selected' = shared /\ overtaken' = FALSE
        /\ resolved' = IF shared \in Hls THEN Nothing ELSE shared
    BY DEF OpenRadio
  <2>2. resolving' \in [Hls -> Nat] /\ \A s \in Hls : resolving'[s] = IF s = shared THEN 1 ELSE 0
    BY <2>1
  <2>3. shared \in Hls => Resolving' # {}
    BY <2>2 DEF Resolving
  <2>4. \A s \in Hls : resolving'[s] <= 1 /\ (resolving'[s] > 0 => s = selected')
    BY <2>1, <2>2
  <2>5. resolved' \in Indexes \cup {Nothing} /\ (Resolving' = {} => resolved' = selected')
    BY <2>1, <2>3
  <2>6. selected' \in Indexes \cup {Nothing} /\ overtaken' \in BOOLEAN
    BY <2>1
  <2> QED BY <2>2, <2>4, <2>5, <2>6 DEF TunerOK, PlaysTheSelected
<1> QED BY <1>1, <1>2

LEMMA TunerStays == ASSUME TunerOK, UNCHANGED tunerVars PROVE TunerOK'
BY DEF TunerOK, tunerVars, PlaysTheSelected, Resolving

LEMMA ListStays == ASSUME ListOK, UNCHANGED <<filters, listVars>> PROVE ListOK'
BY DEF ListOK, ListTypes, CallsInOrder, ListInOrder, listVars, Busy, Idle

LEMMA TimeoutKeeps ==
  ASSUME ListOK, FetchTimeout
  PROVE  ListOK'
<1>1. ListTypes'
  BY DEF ListOK, ListTypes, FetchTimeout, filterVars
<1>2. Busy' = Busy
  BY DEF FetchTimeout, Busy, Idle
<1>3. inOrder' => CallsInOrder' /\ ListInOrder'
  BY <1>2 DEF ListOK, FetchTimeout, CallsInOrder, ListInOrder, filterVars
<1> QED BY <1>1, <1>3 DEF ListOK

LEMMA LoadKeeps ==
  ASSUME ListOK, LoadNextPage
  PROVE  ListOK'
<1>1. PICK offset : offset = IF nextOffset = Nothing THEN Len(stations) ELSE nextOffset
  OBVIOUS
<1>2. offset \in Nat
  <2>1. Len(stations) \in Nat
    BY LenProperties DEF ListOK, ListTypes
  <2> QED BY <1>1, <2>1 DEF ListOK, ListTypes
<1>3. PICK asked : asked = Fetch(filters, offset, FALSE)
  OBVIOUS
<1>4. asked \in Calls /\ asked.filters = filters /\ asked.offset = offset /\ ~asked.first
  <2>1. filters \in Filters /\ FALSE \in BOOLEAN
    BY DEF ListOK, ListTypes
  <2> QED BY <1>2, <1>3, <2>1, FetchIs
<1>5. PICK c \in Slots :
           /\ fetches' \in [Slots -> Calls \cup {Nothing}]
           /\ Busy' \subseteq Busy \cup {c} /\ fetches'[c] = asked
  BY <1>1, <1>3, <1>4, StartIs DEF ListOK, LoadNextPage
<1>6. ListTypes'
  BY <1>5 DEF ListOK, ListTypes, LoadNextPage, filterVars
<1>7. ASSUME inOrder' PROVE CallsInOrder' /\ ListInOrder'
  <2>1. inOrder /\ CallsInOrder /\ ListInOrder /\ hasMore /\ ~fetchingNext
    BY <1>7 DEF ListOK, LoadNextPage
  <2>2. nextOffset # Nothing /\ offset = nextOffset
    BY <1>1, <2>1 DEF ListInOrder
  <2>3. Busy = {}
    BY <2>1, <2>2 DEF CallsInOrder
  <2>4. Busy' \subseteq {c}
    BY <1>5, <2>3
  <2>5. CallsInOrder'
    BY <1>4, <1>5, <2>1, <2>2, <2>4 DEF CallsInOrder, LoadNextPage, filterVars
  <2>6. ListInOrder'
    BY <2>1 DEF ListInOrder, LoadNextPage, filterVars
  <2> QED BY <2>5, <2>6
<1> QED BY <1>6, <1>7 DEF ListOK

LEMMA ArrivesKeeps ==
  ASSUME ListOK, TunerOK, NEW slot \in Slots, Arrives(slot)
  PROVE  ListOK' /\ TunerOK'
<1>1. PICK asked : asked = fetches[slot]
  OBVIOUS
<1>2. PICK page : page = Project(Query(asked.filters, asked.offset))
  OBVIOUS
<1>3. asked \in Calls /\ slot \in Busy
  BY <1>1 DEF Arrives, ListOK, ListTypes, Busy, Idle
<1>4. asked.filters \in Filters /\ asked.offset \in Nat /\ asked.first \in BOOLEAN
  BY <1>3 DEF Calls
<1>5. PICK wanted \in Filters : wanted = asked.filters
  BY <1>4
<1>6. PICK next : next = page.offset + page.limit
  OBVIOUS
<1>7. /\ page.items \in Seq(Indexes) /\ page.hasMore \in BOOLEAN
      /\ next \in Nat
      /\ asked.offset = 0 => page.items = ShownUpTo(wanted, next)
      /\ asked.offset < Len(Answer(wanted)) =>
            ShownUpTo(wanted, asked.offset) \o page.items = ShownUpTo(wanted, next)
      /\ page.hasMore <=> next < Len(Answer(wanted))
  BY <1>2, <1>4, <1>5, <1>6, PageIs
<1>8. next # Nothing
  BY <1>7, PageConstants
<1>9. /\ asked.first => stations' = page.items /\ fetching' = FALSE /\ timer' = Nothing
                         /\ fetchingNext' = fetchingNext
      /\ ~asked.first => stations' = stations \o page.items /\ fetchingNext' = FALSE
                         /\ fetching' = fetching /\ timer' = timer
  BY <1>1, <1>2 DEF Arrives, FirstPage, LaterPage
<1>10. /\ nextOffset' = next /\ hasMore' = page.hasMore /\ fetchError' = FALSE
       /\ fetches' = [fetches EXCEPT ![slot] = Nothing]
       /\ filters' = filters /\ inOrder' = inOrder
  BY <1>1, <1>2, <1>6 DEF Arrives, filterVars
<1>11. stations' \in Seq(Indexes)
  <2>1. stations \in Seq(Indexes)
    BY DEF ListOK, ListTypes
  <2>2. stations \o page.items \in Seq(Indexes)
    BY <1>7, <2>1, ConcatProperties
  <2> QED BY <1>4, <1>7, <1>9, <2>2
<1>12. ListTypes'
  <2>1. fetches' \in [Slots -> Calls \cup {Nothing}]
    BY <1>10 DEF ListOK, ListTypes
  <2> QED BY <1>4, <1>7, <1>9, <1>10, <1>11, <2>1 DEF ListOK, ListTypes
<1>13. ASSUME inOrder' PROVE CallsInOrder' /\ ListInOrder'
  <2>1. CallsInOrder /\ ListInOrder
    BY <1>10, <1>13 DEF ListOK
  <2>2. wanted = filters /\ \A a \in Busy : a = slot
    BY <1>1, <1>3, <1>5, <2>1 DEF CallsInOrder
  <2>3. Busy' = {}
    <3>1. fetches'[slot] = Nothing /\ \A s \in Slots : s # slot => fetches'[s] = fetches[s]
      BY <1>10 DEF ListOK, ListTypes
    <3> QED BY <2>2, <3>1 DEF Busy, Idle
  <2>4. stations' = ShownUpTo(filters, next)
    <3>1. CASE asked.first
      BY <1>1, <1>3, <1>7, <1>9, <2>1, <2>2, <3>1 DEF CallsInOrder
    <3>2. CASE ~asked.first
      <4>1. hasMore /\ nextOffset # Nothing /\ asked.offset = nextOffset
        BY <1>1, <1>3, <2>1, <3>2 DEF CallsInOrder
      <4>2. stations = ShownUpTo(filters, asked.offset) /\ asked.offset < Len(Answer(filters))
        BY <2>1, <4>1 DEF ListInOrder
      <4> QED BY <1>7, <1>9, <2>2, <3>2, <4>2
    <3> QED BY <3>1, <3>2
  <2>5. ListInOrder'
    BY <1>7, <1>8, <1>10, <2>2, <2>4 DEF ListInOrder
  <2>6. CallsInOrder'
    BY <2>3 DEF CallsInOrder
  <2> QED BY <2>5, <2>6
<1>14. TunerOK'
  <2>1. CASE selected = Nothing /\ stations' # << >>
    <3>1. Head(stations') \in Indexes
      BY <1>11, <2>1, HeadTailProperties
    <3>2. Tune(Head(stations'))
      BY <2>1 DEF Arrives, AutoTune
    <3> QED BY <3>1, <3>2, TuneKeeps
  <2>2. CASE ~(selected = Nothing /\ stations' # << >>)
    <3>1. UNCHANGED tunerVars
      BY <2>2 DEF Arrives, AutoTune
    <3> QED BY <3>1, TunerStays
  <2> QED BY <2>1, <2>2
<1> QED BY <1>12, <1>13, <1>14 DEF ListOK

LEMMA RetryKeeps ==
  ASSUME ListOK, NEW slot \in Slots, Retry(slot)
  PROVE  ListOK'
<1>1. PICK asked : asked = fetches[slot]
  OBVIOUS
<1>2. asked \in Calls /\ slot \in Busy
  BY <1>1 DEF Retry, ListOK, ListTypes, Busy, Idle
<1>3. PICK again : again = [asked EXCEPT !.attempt = @ + 1]
  OBVIOUS
<1>4. /\ again \in Calls /\ again.filters = asked.filters
      /\ again.offset = asked.offset /\ again.first = asked.first
  BY <1>2, <1>3 DEF Calls
<1>5. fetches' = [fetches EXCEPT ![slot] = again]
  BY <1>1, <1>3 DEF Retry
<1>6. fetches'[slot] = again /\ \A s \in Slots : s # slot => fetches'[s] = fetches[s]
  BY <1>5 DEF ListOK, ListTypes
<1>7. fetches' \in [Slots -> Calls \cup {Nothing}]
  BY <1>4, <1>5 DEF ListOK, ListTypes
<1>8. ListTypes'
  BY <1>7 DEF ListOK, ListTypes, Retry, filterVars
<1>9. Busy' \subseteq Busy
  BY <1>2, <1>6 DEF Busy, Idle
<1>10. ASSUME inOrder' PROVE CallsInOrder' /\ ListInOrder'
  <2>1. CallsInOrder /\ ListInOrder
    BY <1>10 DEF ListOK, Retry
  <2>2. filters' = filters /\ nextOffset' = nextOffset /\ fetchingNext' = fetchingNext
        /\ hasMore' = hasMore /\ stations' = stations
    BY DEF Retry, filterVars
  <2>3. CallsInOrder'
    <3>1. ASSUME NEW a \in Busy'
          PROVE  /\ a \in Busy /\ fetches'[a].filters = fetches[a].filters
                 /\ fetches'[a].offset = fetches[a].offset /\ fetches'[a].first = fetches[a].first
      BY <1>1, <1>4, <1>6, <1>9 DEF Busy
    <3> QED BY <2>1, <2>2, <3>1 DEF CallsInOrder
  <2>4. ListInOrder'
    BY <2>1, <2>2 DEF ListInOrder
  <2> QED BY <2>3, <2>4
<1> QED BY <1>8, <1>10 DEF ListOK

LEMMA FailsKeeps ==
  ASSUME ListOK, NEW slot \in Slots, FetchFails(slot)
  PROVE  ListOK'
<1>1. fetches' = [fetches EXCEPT ![slot] = Nothing] /\ slot \in Busy
  BY DEF FetchFails, Busy
<1>2. fetches'[slot] = Nothing /\ \A s \in Slots : s # slot => fetches'[s] = fetches[s]
  BY <1>1 DEF ListOK, ListTypes
<1>3. fetches' \in [Slots -> Calls \cup {Nothing}]
  BY <1>1 DEF ListOK, ListTypes
<1>4. ListTypes'
  BY <1>3 DEF ListOK, ListTypes, FetchFails, filterVars
<1>5. ASSUME inOrder' PROVE CallsInOrder' /\ ListInOrder'
  <2>1. CallsInOrder /\ ListInOrder
    BY <1>5 DEF ListOK, FetchFails
  <2>2. Busy' = {}
    <3>1. \A a \in Busy : a = slot
      BY <1>1, <2>1 DEF CallsInOrder
    <3> QED BY <1>2, <3>1 DEF Busy, Idle
  <2>3. CallsInOrder'
    BY <2>2 DEF CallsInOrder
  <2>4. ListInOrder'
    BY <2>1 DEF ListInOrder, FetchFails, filterVars
  <2> QED BY <2>3, <2>4
<1> QED BY <1>4, <1>5 DEF ListOK

\* A search that is typed is a search.
LEMMA TypedKeeps ==
  ASSUME ListOK, TunerOK, NEW text \in Searches \cup {NoFilter}, TypeSearch(text),
         debounce \in Searches \cup {Nothing}
  PROVE  /\ ListOK' /\ TunerOK'
         /\ search' \in Searches \cup {NoFilter} /\ debounce' \in Searches \cup {Nothing}
<1>1. search' = text
  BY DEF TypeSearch
<1>2. CASE text = filters.search /\ debounce = Nothing
  <2>1. UNCHANGED <<debounce, filters, listVars, tunerVars>>
    BY <1>2 DEF TypeSearch
  <2>2. UNCHANGED <<filters, listVars>> /\ UNCHANGED tunerVars /\ debounce' = debounce
    BY <2>1
  <2> QED BY <1>1, <2>2, ListStays, TunerStays
<1>3. CASE text = NoFilter /\ filters.search = NoFilter /\ debounce # Nothing
  <2>1. debounce' = Nothing /\ UNCHANGED <<filters, listVars, tunerVars>>
    BY <1>3 DEF TypeSearch
  <2>2. UNCHANGED <<filters, listVars>> /\ UNCHANGED tunerVars /\ debounce' = Nothing
    BY <2>1
  <2> QED BY <1>1, <2>2, ListStays, TunerStays
<1>4. CASE text = NoFilter /\ filters.search # NoFilter
  <2>1. debounce' = Nothing /\ Refilter([filters EXCEPT !.search = NoFilter])
    BY <1>4 DEF TypeSearch
  <2>2. [filters EXCEPT !.search = NoFilter] \in Filters
    BY DEF ListOK, ListTypes, Filters
  <2> QED BY <1>1, <2>1, <2>2, RefilterKeeps
<1>5. CASE /\ ~(text = filters.search /\ debounce = Nothing) /\ text # NoFilter
  <2>1. debounce' = text /\ UNCHANGED <<filters, listVars, tunerVars>>
    BY <1>5 DEF TypeSearch
  <2>2. UNCHANGED <<filters, listVars>> /\ UNCHANGED tunerVars /\ debounce' \in Searches
    BY <1>5, <2>1
  <2> QED BY <1>1, <2>2, ListStays, TunerStays
<1> QED BY <1>2, <1>3, <1>4, <1>5

LEMMA ChosenKeeps ==
  ASSUME ListOK, TunerOK, NEW field \in {"country", "genre"}, NEW value,
         value \in (IF field = "country" THEN Countries ELSE Genres) \cup {NoFilter},
         Choose(field, value)
  PROVE  ListOK' /\ TunerOK' /\ search' = search /\ debounce' = debounce
<1>1. [filters EXCEPT ![field] = value] \in Filters
  <2>1. filters \in Filters
    BY DEF ListOK, ListTypes
  <2>2. CASE field = "country"
    BY <2>1, <2>2 DEF Filters
  <2>3. CASE field = "genre"
    BY <2>1, <2>3 DEF Filters
  <2> QED BY <2>2, <2>3
<1>2. Refilter([filters EXCEPT ![field] = value]) /\ search' = search /\ debounce' = debounce
  BY DEF Choose
<1> QED BY <1>1, <1>2, RefilterKeeps

LEMMA FiresKeeps ==
  ASSUME ListOK, TunerOK, debounce \in Searches \cup {Nothing}, DebounceFires
  PROVE  ListOK' /\ TunerOK' /\ search' = search /\ debounce' = Nothing
<1>1. search' = search /\ debounce' = Nothing
  BY DEF DebounceFires
<1>2. CASE debounce = filters.search
  <2>1. UNCHANGED <<filters, listVars, tunerVars>>
    BY <1>2 DEF DebounceFires
  <2>2. UNCHANGED <<filters, listVars>> /\ UNCHANGED tunerVars
    BY <2>1
  <2> QED BY <1>1, <2>2, ListStays, TunerStays
<1>3. CASE debounce # filters.search
  <2>1. Refilter([filters EXCEPT !.search = debounce])
    BY <1>3 DEF DebounceFires
  <2>2. debounce \in Searches
    BY DEF DebounceFires
  <2>3. [filters EXCEPT !.search = debounce] \in Filters
    BY <2>2 DEF ListOK, ListTypes, Filters
  <2> QED BY <1>1, <2>1, <2>3, RefilterKeeps
<1> QED BY <1>2, <1>3

LEMMA RadioStep ==
  ASSUME RadioInv, RadioNext
  PROVE  /\ ListOK' /\ TunerOK'
         /\ search' \in Searches \cup {NoFilter} /\ debounce' \in Searches \cup {Nothing}
<1> USE DEF RadioInv
<1>1. ASSUME NEW text \in Searches \cup {NoFilter}, TypeSearch(text)
      PROVE  /\ ListOK' /\ TunerOK'
             /\ search' \in Searches \cup {NoFilter} /\ debounce' \in Searches \cup {Nothing}
  BY <1>1, TypedKeeps
<1>2. CASE DebounceFires
  BY <1>2, FiresKeeps
<1>3. ASSUME NEW value \in Countries \cup {NoFilter}, Choose("country", value)
      PROVE  /\ ListOK' /\ TunerOK' /\ search' = search /\ debounce' = debounce
  BY <1>3, ChosenKeeps
<1>4. ASSUME NEW value \in Genres \cup {NoFilter}, Choose("genre", value)
      PROVE  /\ ListOK' /\ TunerOK' /\ search' = search /\ debounce' = debounce
  BY <1>4, ChosenKeeps
<1>5. CASE FetchTimeout
  <2>1. UNCHANGED tunerVars /\ search' = search /\ debounce' = debounce
    BY <1>5 DEF FetchTimeout, filterVars
  <2> QED BY <1>5, <2>1, TimeoutKeeps, TunerStays
<1>6. CASE LoadNextPage
  <2>1. UNCHANGED tunerVars /\ search' = search /\ debounce' = debounce
    BY <1>6 DEF LoadNextPage, filterVars
  <2> QED BY <1>6, <2>1, LoadKeeps, TunerStays
<1>7. ASSUME NEW slot \in Slots, Arrives(slot)
      PROVE  /\ ListOK' /\ TunerOK' /\ search' = search /\ debounce' = debounce
  <2>1. search' = search /\ debounce' = debounce
    BY <1>7 DEF Arrives, filterVars
  <2> QED BY <1>7, <2>1, ArrivesKeeps
<1>8. ASSUME NEW slot \in Slots, Retry(slot) \/ FetchFails(slot)
      PROVE  /\ ListOK' /\ TunerOK' /\ search' = search /\ debounce' = debounce
  <2>1. UNCHANGED tunerVars /\ search' = search /\ debounce' = debounce
    BY <1>8 DEF Retry, FetchFails, filterVars
  <2> QED BY <1>8, <2>1, RetryKeeps, FailsKeeps, TunerStays
<1>9. ASSUME NEW station \in Indexes, Select(station)
      PROVE  /\ ListOK' /\ TunerOK' /\ search' = search /\ debounce' = debounce
  <2>1. Tune(station) /\ UNCHANGED <<filters, listVars>> /\ search' = search /\ debounce' = debounce
    BY <1>9 DEF Select, filterVars
  <2> QED BY <2>1, TuneKeeps, ListStays
<1>10. ASSUME NEW station \in Hls, Resolved(station)
       PROVE  /\ ListOK' /\ TunerOK' /\ search' = search /\ debounce' = debounce
  <2>1. UNCHANGED <<filters, listVars>> /\ search' = search /\ debounce' = debounce
    BY <1>10 DEF Resolved, filterVars
  <2> QED BY <1>10, <2>1, ResolvedKeeps, ListStays
<1> QED BY <1>1, <1>2, <1>3, <1>4, <1>5, <1>6, <1>7, <1>8, <1>9, <1>10 DEF RadioNext

LEMMA RadioNextInv == RadioInv /\ [Next]_vars => RadioInv'
<1> SUFFICES ASSUME RadioInv, [Next]_vars PROVE RadioInv'
  OBVIOUS
<1>1. ASSUME UNCHANGED radioVars, route' = route \/ Busy = {} PROVE RadioInv'
  <2>1. UNCHANGED <<filters, listVars>> /\ UNCHANGED tunerVars /\ search' = search
        /\ debounce' = debounce /\ Busy' = Busy
    BY <1>1 DEF radioVars, filterVars, listVars, Busy, Idle
  <2> QED BY <1>1, <2>1, ListStays, TunerStays DEF RadioInv
<1>2. ASSUME NEW page \in Routes, NEW shared \in Indexes \cup {Nothing}, Visit(page, shared)
      PROVE  RadioInv'
  <2>1. CASE page = "radio"
    <3>1. OpenRadio(shared) /\ route' = "radio" /\ Busy = {} /\ ListTypes
      BY <1>2, <2>1 DEF Visit, RadioInv, ListOK
    <3>2. search' = NoFilter /\ debounce' = Nothing
      BY <3>1 DEF OpenRadio
    <3> QED BY <3>1, <3>2, OpenKeeps DEF RadioInv
  <2>2. CASE page # "radio"
    <3>1. RadioReset
      BY <1>2, <2>2 DEF Visit
    <3>2. search' = NoFilter /\ debounce' = Nothing
      BY <3>1 DEF RadioReset
    <3> QED BY <3>1, <3>2, ResetKeeps DEF RadioInv
  <2> QED BY <2>1, <2>2
<1>3. CASE route = "terminal" /\ UNCHANGED radioVars
  BY <1>1, <1>3 DEF RadioInv
<1>4. CASE route = "radio" /\ RadioNext /\ route' = route
  BY <1>4, RadioStep DEF RadioInv
<1>5. CASE UNCHANGED <<route, radioVars>>
  BY <1>1, <1>5
<1> QED BY <1>2, <1>3, <1>4, <1>5 DEF Next, vars

LEMMA RadioInitInv == Init => RadioInv
BY RadioInitKeeps DEF Init, RadioInv, RadioInit

LEMMA RadioHolds == Spec => []RadioInv
BY RadioInitInv, RadioNextInv, PTL DEF Spec

LEMMA TunerPlays == RadioInv => PlaysTheSelected
BY DEF RadioInv, TunerOK

LEMMA ListBegins == RadioInv => ListIsABeginning
<1> SUFFICES ASSUME RadioInv, inOrder, Plain(Query(filters, 0))
             PROVE  LET listing == Listing(Query(filters, 0))
                    IN  /\ IsPrefix(stations, listing)
                        /\ nextOffset # Nothing => (hasMore <=> Len(stations) < Len(listing))
  BY DEF ListIsABeginning
<1>1. PICK listing : listing = Listing(Query(filters, 0))
  OBVIOUS
<1>2. filters \in Filters /\ nextOffset \in Nat \cup {Nothing} /\ ListInOrder
  BY DEF RadioInv, ListOK, ListTypes
<1>3. listing = Answer(filters) /\ listing \in Seq(Indexes) /\ Len(listing) \in Nat
  BY <1>1, <1>2, QueryIs, FoundIsTheListing DEF Answer
<1>4. CASE nextOffset = Nothing
  <2>1. stations = << >> /\ SubSeq(listing, 1, 0) = << >>
    BY <1>2, <1>4, SubSeqEmpty DEF ListInOrder
  <2>2. Len(stations) = 0 /\ SubSeq(stations, 1, 0) = << >>
    BY <2>1
  <2> QED BY <1>1, <1>3, <1>4, <2>1, <2>2 DEF IsPrefix
<1>5. CASE nextOffset # Nothing
  <2>1. PICK n \in 0 .. Len(listing) : n = UpTo(nextOffset, Len(listing))
    BY <1>2, <1>3, <1>5 DEF UpTo
  <2>2. stations = SubSeq(listing, 1, n) /\ (hasMore <=> nextOffset < Len(listing))
    BY <1>2, <1>3, <1>5, <2>1 DEF ListInOrder, ShownUpTo
  <2>3. \A i \in 1 .. n : listing[i] \in Indexes
    BY <1>3, <2>1, ElementOfSeq
  <2>4. stations \in Seq(Indexes) /\ Len(stations) = n
    BY <2>1, <2>2, <2>3, SubSeqProperties
  <2>5. SubSeq(stations, 1, n) = stations
    BY <2>4, SubSeqFull
  <2>6. nextOffset < Len(listing) <=> n < Len(listing)
    BY <1>2, <1>3, <1>5, <2>1 DEF UpTo
  <2> QED BY <1>1, <1>3, <2>1, <2>2, <2>4, <2>5, <2>6 DEF IsPrefix
<1> QED BY <1>4, <1>5

-----------------------------------------------------------------------------
(* The directory of the terminal *)

\* A list is gone through, from a first value on, one step after the other.
Through(f, first, step, list) ==
  /\ f[0] = first
  /\ \A n \in 1 .. Len(list) : f[n] = step[f[n - 1]][list[n]]

LEMMA GoneThrough ==
  ASSUME NEW S, NEW X, NEW first \in S, NEW step \in [S -> [X -> S]], NEW list \in Seq(X)
  PROVE  \E f \in [0 .. Len(list) -> S] : Through(f, first, step, list)
<1> DEFINE Goes(f, k) ==
             /\ f \in [0 .. k -> S]
             /\ f[0] = first
             /\ \A n \in 1 .. k : f[n] = step[f[n - 1]][list[n]]
           Bad == {k \in 0 .. Len(list) : ~\E f : Goes(f, k)}
<1>1. Len(list) \in Nat /\ \A n \in 1 .. Len(list) : list[n] \in X
  OBVIOUS
<1>2. Bad = {}
  <2> SUFFICES ASSUME Bad # {} PROVE FALSE
    OBVIOUS
  <2>1. PICK k \in Bad : \A j \in Bad : k <= j
    <3>1. Bad \subseteq Nat
      OBVIOUS
    <3> HIDE DEF Bad
    <3> QED BY <3>1, LeastNatural
  <2>2. k \in 0 .. Len(list) /\ ~\E f : Goes(f, k)
    BY <2>1
  <2>3. k # 0
    <3> SUFFICES ASSUME k = 0 PROVE FALSE
      OBVIOUS
    <3>1. Goes([n \in 0 .. 0 |-> first], 0)
      OBVIOUS
    <3> HIDE DEF Goes
    <3> QED BY <2>2, <3>1
  <2>4. PICK f : Goes(f, k - 1)
    <3>1. k - 1 \in 0 .. Len(list) /\ ~(k <= k - 1)
      BY <2>2, <2>3
    <3> HIDE DEF Goes
    <3> QED BY <2>1, <3>1
  <2> DEFINE g == [n \in 0 .. k |-> IF n = k THEN step[f[k - 1]][list[k]] ELSE f[n]]
  <2>5. Goes(g, k)
    <3>1. k \in 1 .. Len(list) /\ k - 1 \in 0 .. k - 1
      BY <2>2, <2>3
    <3>2. /\ f \in [0 .. k - 1 -> S] /\ f[0] = first
          /\ \A n \in 1 .. k - 1 : f[n] = step[f[n - 1]][list[n]]
      BY <2>4
    <3>3. list[k] \in X /\ f[k - 1] \in S
      BY <1>1, <3>1, <3>2
    <3>4. step[f[k - 1]][list[k]] \in S
      BY <3>3
    <3>5. g \in [0 .. k -> S]
      BY <3>1, <3>2, <3>4
    <3>6. g[0] = first
      BY <3>1, <3>2
    <3>7. ASSUME NEW n \in 1 .. k PROVE g[n] = step[g[n - 1]][list[n]]
      <4>1. g[n - 1] = f[n - 1]
        BY <3>1
      <4>2. CASE n = k
        BY <4>1, <4>2
      <4>3. CASE n # k
        <5>1. n \in 1 .. k - 1 /\ g[n] = f[n]
          BY <3>1, <4>3
        <5> QED BY <3>2, <4>1, <5>1
      <4> QED BY <4>2, <4>3
    <3> HIDE DEF g
    <3> QED BY <3>5, <3>6, <3>7
  <2> HIDE DEF Goes
  <2> QED BY <2>2, <2>5
<1>3. PICK f : Goes(f, Len(list))
  <2>1. Len(list) \in 0 .. Len(list)
    BY <1>1
  <2> HIDE DEF Goes
  <2> QED BY <1>2, <2>1
<1> QED BY <1>3 DEF Through

LEMMA FrontIs ==
  ASSUME NEW S, NEW path \in Seq(S), path # << >>
  PROVE  /\ Front(path) = SubSeq(path, 1, Len(path) - 1)
         /\ Len(path) \in Nat \ {0}
         /\ Front(path) \in Seq(S)
<1>1. Front(path) = SubSeq(path, 1, Len(path) - 1)
  BY DEF Front
<1>2. Len(path) \in Nat \ {0}
  BY EmptySeq
<1>3. \A i \in 1 .. Len(path) - 1 : path[i] \in S
  BY <1>2, ElementOfSeq
<1>4. SubSeq(path, 1, Len(path) - 1) \in Seq(S)
  <2>1. 1 \in Int /\ Len(path) - 1 \in Int
    BY <1>2
  <2> QED BY <1>3, <2>1, SubSeqProperties
<1> QED BY <1>1, <1>2, <1>4

LEMMA Directory ==
  /\ Directories \subseteq Seq(STRING) /\ None \notin Directories /\ Home \in Directories
  /\ << >> \in Directories
  /\ \A path \in Directories : path # << >> => Front(path) \in Directories
  /\ \A path \in Directories : \A i \in 1 .. Len(path) : path[i] \notin {"", ".", ".."}
<1>1. /\ Directories \subseteq Seq(STRING) /\ None \notin Directories /\ Home \in Directories
      /\ \A path \in Directories : Ancestors(path) \subseteq Directories
      /\ \A path \in Directories : Range(path) \cap {"", ".", "..", "~"} = {}
  BY SandboxConstants
<1>2. ASSUME NEW path \in Directories, NEW n \in 0 .. Len(path)
      PROVE  SubSeq(path, 1, n) \in Directories
  BY <1>1 DEF Ancestors
<1>3. << >> \in Directories
  <2>1. Home \in Seq(STRING) /\ 0 \in 0 .. Len(Home)
    <3>1. Home \in Seq(STRING)
      BY <1>1
    <3>2. Len(Home) \in Nat
      BY <3>1, LenProperties
    <3> QED BY <3>1, <3>2
  <2>2. SubSeq(Home, 1, 0) = << >>
    BY SubSeqEmpty
  <2> QED BY <1>1, <1>2, <2>1, <2>2
<1>4. ASSUME NEW path \in Directories, path # << >> PROVE Front(path) \in Directories
  <2>1. Front(path) = SubSeq(path, 1, Len(path) - 1) /\ Len(path) \in Nat \ {0}
    BY <1>1, <1>4, FrontIs
  <2>2. Len(path) - 1 \in 0 .. Len(path)
    BY <2>1
  <2> QED BY <1>2, <2>1, <2>2
<1>5. ASSUME NEW path \in Directories, NEW i \in 1 .. Len(path)
      PROVE  path[i] \notin {"", ".", ".."}
  <2>1. path \in Seq(STRING)
    BY <1>1
  <2>2. path[i] \in Range(path)
    BY <2>1 DEF Range
  <2> QED BY <1>1, <2>2
<1> QED BY <1>1, <1>3, <1>4, <1>5

\* A path that is normalised takes one segment after the other.
LEMMA NormalizeIs ==
  ASSUME NEW segments \in Seq(STRING)
  PROVE  \E f \in [0 .. Len(segments) -> Seq(STRING)] :
            /\ f[0] = << >>
            /\ \A n \in 1 .. Len(segments) : f[n] = Step(f[n - 1], segments[n])
            /\ Normalize(segments) = f[Len(segments)]
<1> DEFINE S == Seq(STRING)
           step == [p \in S |-> [x \in STRING |-> Step(p, x)]]
           Follows(f) == f = [n \in 0 .. Len(segments) |->
                                IF n = 0 THEN << >> ELSE Step(f[n - 1], segments[n])]
           f == CHOOSE f : Follows(f)
<1>1. Len(segments) \in Nat /\ \A n \in 1 .. Len(segments) : segments[n] \in STRING
  OBVIOUS
<1>2. ASSUME NEW p \in S, NEW x \in STRING PROVE Step(p, x) \in S
  <2>1. p # << >> => Front(p) \in S
    BY FrontIs
  <2>2. Append(p, x) \in S
    BY AppendProperties
  <2> QED BY <2>1, <2>2 DEF Step
<1>3. step \in [S -> [STRING -> S]] /\ << >> \in S
  <2>1. << >> \in S
    OBVIOUS
  <2>2. step \in [S -> [STRING -> S]]
    <3> HIDE DEF S
    <3> QED BY <1>2
  <2> QED BY <2>1, <2>2
<1>4. PICK g \in [0 .. Len(segments) -> S] :
        g[0] = << >> /\ \A n \in 1 .. Len(segments) : g[n] = step[g[n - 1]][segments[n]]
  <2>1. segments \in Seq(STRING)
    OBVIOUS
  <2>2. PICK T, go : T = S /\ go = step
    OBVIOUS
  <2>3. go \in [T -> [STRING -> T]] /\ << >> \in T
    BY <1>3, <2>2
  <2>4. \E h \in [0 .. Len(segments) -> T] : Through(h, << >>, go, segments)
    BY ONLY <2>1, <2>3, GoneThrough
  <2> HIDE DEF S, step
  <2> QED BY <2>2, <2>4 DEF Through
<1>5. Follows(g)
  <2> DEFINE h == [n \in 0 .. Len(segments) |-> IF n = 0 THEN << >> ELSE Step(g[n - 1], segments[n])]
  <2>1. ASSUME NEW n \in 0 .. Len(segments) PROVE g[n] = h[n]
    <3>1. CASE n = 0
      BY <1>4, <3>1
    <3>2. CASE n # 0
      <4>1. n \in 1 .. Len(segments) /\ n - 1 \in 0 .. Len(segments)
        BY <1>1, <3>2
      <4>2. g[n - 1] \in S /\ segments[n] \in STRING
        BY <1>1, <4>1
      <4>3. g[n] = step[g[n - 1]][segments[n]]
        BY <1>4, <4>1
      <4> QED BY <3>2, <4>2, <4>3
    <3> QED BY <3>1, <3>2
  <2>2. g = [n \in 0 .. Len(segments) |-> g[n]] /\ h = [n \in 0 .. Len(segments) |-> h[n]]
    OBVIOUS
  <2>3. g = h
    <3> HIDE DEF h
    <3> QED BY <2>1, <2>2
  <2> QED BY <2>3
<1>6. Follows(f)
  <2> HIDE DEF Follows
  <2> QED BY <1>5
<1>7. Normalize(segments) = f[Len(segments)]
  BY DEF Normalize
<1> HIDE DEF f
<1>8. f[0] = << >> /\ \A n \in 1 .. Len(segments) : f[n] = Step(f[n - 1], segments[n])
  BY <1>1, <1>6
<1> DEFINE Bad == {n \in 0 .. Len(segments) : f[n] \notin S}
<1>9. Bad = {}
  <2> SUFFICES ASSUME Bad # {} PROVE FALSE
    OBVIOUS
  <2>1. PICK k \in Bad : \A j \in Bad : k <= j
    <3>1. Bad \subseteq Nat
      OBVIOUS
    <3> HIDE DEF Bad
    <3> QED BY <3>1, LeastNatural
  <2>2. k \in 1 .. Len(segments)
    <3>1. k \in 0 .. Len(segments) /\ f[k] \notin S /\ << >> \in S
      BY <2>1
    <3> HIDE DEF S
    <3> QED BY <1>1, <1>8, <3>1
  <2>3. f[k - 1] \in S
    BY <2>1, <2>2
  <2> QED BY <1>1, <1>2, <1>8, <2>1, <2>2, <2>3
<1>10. f \in [0 .. Len(segments) -> S]
  BY <1>6, <1>9
<1> QED BY <1>7, <1>8, <1>10

LEMMA EnterIs ==
  ASSUME NEW at \in Directories \cup {None}, NEW segment
  PROVE  Enter(at, segment) \in Directories \cup {None}
BY Directory DEF Enter

\* So does a walk through the directories.
LEMMA WalkIs ==
  ASSUME NEW from \in Directories, NEW segments \in Seq(STRING)
  PROVE  \E f \in [0 .. Len(segments) -> Directories \cup {None}] :
            /\ f[0] = from
            /\ \A n \in 1 .. Len(segments) : f[n] = Enter(f[n - 1], segments[n])
            /\ Walk(from, segments) = f[Len(segments)]
<1> DEFINE S == Directories \cup {None}
           step == [p \in S |-> [x \in STRING |-> Enter(p, x)]]
           Follows(f) == f = [n \in 0 .. Len(segments) |->
                                IF n = 0 THEN from ELSE Enter(f[n - 1], segments[n])]
           f == CHOOSE f : Follows(f)
<1>1. Len(segments) \in Nat /\ \A n \in 1 .. Len(segments) : segments[n] \in STRING
  OBVIOUS
<1>2. from \in S /\ \A p \in S, x \in STRING : Enter(p, x) \in S
  BY EnterIs
<1>3. step \in [S -> [STRING -> S]]
  <2> HIDE DEF S
  <2> QED BY <1>2
<1>4. PICK g \in [0 .. Len(segments) -> S] :
        g[0] = from /\ \A n \in 1 .. Len(segments) : g[n] = step[g[n - 1]][segments[n]]
  <2>1. segments \in Seq(STRING)
    OBVIOUS
  <2>2. PICK T, go : T = S /\ go = step
    OBVIOUS
  <2>3. go \in [T -> [STRING -> T]] /\ from \in T
    BY <1>2, <1>3, <2>2
  <2>4. \E h \in [0 .. Len(segments) -> T] : Through(h, from, go, segments)
    BY ONLY <2>1, <2>3, GoneThrough
  <2> HIDE DEF S, step
  <2> QED BY <2>2, <2>4 DEF Through
<1>5. Follows(g)
  <2> DEFINE h == [n \in 0 .. Len(segments) |-> IF n = 0 THEN from ELSE Enter(g[n - 1], segments[n])]
  <2>1. ASSUME NEW n \in 0 .. Len(segments) PROVE g[n] = h[n]
    <3>1. CASE n = 0
      BY <1>4, <3>1
    <3>2. CASE n # 0
      <4>1. n \in 1 .. Len(segments) /\ n - 1 \in 0 .. Len(segments)
        BY <1>1, <3>2
      <4>2. g[n - 1] \in S /\ segments[n] \in STRING
        BY <1>1, <4>1
      <4>3. g[n] = step[g[n - 1]][segments[n]]
        BY <1>4, <4>1
      <4> QED BY <3>2, <4>2, <4>3
    <3> QED BY <3>1, <3>2
  <2>2. g = [n \in 0 .. Len(segments) |-> g[n]] /\ h = [n \in 0 .. Len(segments) |-> h[n]]
    OBVIOUS
  <2>3. g = h
    <3> HIDE DEF h
    <3> QED BY <2>1, <2>2
  <2> QED BY <2>3
<1>6. Follows(f)
  <2> HIDE DEF Follows
  <2> QED BY <1>5
<1>7. Walk(from, segments) = f[Len(segments)]
  BY DEF Walk
<1> HIDE DEF f
<1>8. f[0] = from /\ \A n \in 1 .. Len(segments) : f[n] = Enter(f[n - 1], segments[n])
  BY <1>1, <1>6
<1> DEFINE Bad == {n \in 0 .. Len(segments) : f[n] \notin S}
<1>9. Bad = {}
  <2> SUFFICES ASSUME Bad # {} PROVE FALSE
    OBVIOUS
  <2>1. PICK k \in Bad : \A j \in Bad : k <= j
    <3>1. Bad \subseteq Nat
      OBVIOUS
    <3> HIDE DEF Bad
    <3> QED BY <3>1, LeastNatural
  <2>2. k \in 1 .. Len(segments)
    <3>1. k \in 0 .. Len(segments) /\ f[k] \notin S
      BY <2>1
    <3> HIDE DEF S
    <3> QED BY <1>1, <1>2, <1>8, <3>1
  <2>3. f[k - 1] \in S
    BY <2>1, <2>2
  <2> QED BY <1>1, <1>2, <1>8, <2>1, <2>2, <2>3
<1>10. f \in [0 .. Len(segments) -> S]
  BY <1>6, <1>9
<1> QED BY <1>7, <1>8, <1>10

\* A directory of the tree that is entered segment by segment is itself.
LEMMA NormalBeginning ==
  ASSUME NEW path \in Directories, NEW f,
         f[0] = << >>, \A n \in 1 .. Len(path) : f[n] = Step(f[n - 1], path[n])
  PROVE  f[Len(path)] = path
<1>1. path \in Seq(STRING) /\ \A n \in 1 .. Len(path) : path[n] \notin {"", ".", ".."}
  BY Directory
<1>2. Len(path) \in Nat
  BY <1>1, LenProperties
<1> DEFINE Bad == {n \in 0 .. Len(path) : f[n] # SubSeq(path, 1, n)}
<1>3. Bad = {}
  <2> SUFFICES ASSUME Bad # {} PROVE FALSE
    OBVIOUS
  <2>1. PICK k \in Bad : \A j \in Bad : k <= j
    <3>1. Bad \subseteq Nat
      OBVIOUS
    <3> HIDE DEF Bad
    <3> QED BY <3>1, LeastNatural
  <2>2. k \in 0 .. Len(path) /\ f[k] # SubSeq(path, 1, k)
    BY <2>1
  <2>3. k # 0
    <3>1. SubSeq(path, 1, 0) = << >>
      BY SubSeqEmpty
    <3> QED BY <2>2, <3>1
  <2>4. k \in 1 .. Len(path) /\ k - 1 \in 0 .. Len(path) /\ ~(k <= k - 1)
    BY <1>2, <2>2, <2>3
  <2>5. f[k - 1] = SubSeq(path, 1, k - 1)
    BY <2>1, <2>4
  <2>6. f[k] = Append(f[k - 1], path[k])
    BY <1>1, <2>4 DEF Step
  <2>7. SubSeq(path, 1, k) = Append(SubSeq(path, 1, k - 1), path[k])
    <3>1. SubSeq(path, 1, k) = SubSeq(path, 1, k - 1) \o <<path[k]>>
      <4>1. 1 \in 1 .. Len(path) /\ k \in 1 .. Len(path)
        BY <1>2, <2>4
      <4> QED BY <1>1, <4>1, SubSeqRecursiveSecond
    <3>2. SubSeq(path, 1, k - 1) \in Seq(STRING) /\ path[k] \in STRING
      <4>1. \A i \in 1 .. Len(path) : path[i] \in STRING
        BY <1>1, ElementOfSeq
      <4>2. 1 \in Int /\ k - 1 \in Int /\ \A i \in 1 .. k - 1 : path[i] \in STRING
        BY <1>2, <2>4, <4>1
      <4> QED BY <2>4, <4>1, <4>2, SubSeqProperties
    <3> QED BY <3>1, <3>2, AppendIsConcat
  <2> QED BY <2>2, <2>5, <2>6, <2>7
<1>4. f[Len(path)] = SubSeq(path, 1, Len(path))
  BY <1>2, <1>3
<1> QED BY <1>1, <1>4, SubSeqFull

\* Where a walk through the directories ends, the joined path leads too.
LEMMA WalkIsNormal ==
  ASSUME NEW from \in Directories, NEW segments \in Seq(STRING), Walk(from, segments) # None
  PROVE  Normalize(Joined(from, segments)) = Walk(from, segments)
<1> DEFINE all == Joined(from, segments)
           m == Len(from)
           n == Len(segments)
<1>1. /\ from \in Seq(STRING) /\ m \in Nat /\ n \in Nat /\ \A i \in 1 .. m : from[i] \in STRING
      /\ None \notin Directories
      /\ \A path \in Directories : path # << >> => Front(path) \in Directories
  <2>1. from \in Seq(STRING)
    BY Directory
  <2> QED BY <2>1, Directory, LenProperties, ElementOfSeq
<1>2. /\ all \in Seq(STRING) /\ Len(all) = m + n
      /\ \A i \in 1 .. m : all[i] = from[i]
      /\ \A i \in 1 .. n : all[m + i] = segments[i]
  <2>1. /\ all \in Seq(STRING) /\ Len(all) = m + n
        /\ \A i \in 1 .. m + n : all[i] = IF i <= m THEN from[i] ELSE segments[i - m]
    BY <1>1, ConcatProperties DEF Joined
  <2> HIDE DEF all, m, n
  <2> QED BY <1>1, <2>1
<1>3. PICK f \in [0 .. m + n -> Seq(STRING)] :
        /\ f[0] = << >>
        /\ \A i \in 1 .. m + n : f[i] = Step(f[i - 1], all[i])
        /\ Normalize(all) = f[m + n]
  <2>1. \E f \in [0 .. Len(all) -> Seq(STRING)] :
           /\ f[0] = << >>
           /\ \A i \in 1 .. Len(all) : f[i] = Step(f[i - 1], all[i])
           /\ Normalize(all) = f[Len(all)]
    <3> HIDE DEF all, m, n
    <3> QED BY <1>2, NormalizeIs
  <2> HIDE DEF all, m, n
  <2> QED BY <1>2, <2>1
<1>4. PICK w \in [0 .. n -> Directories \cup {None}] :
        /\ w[0] = from
        /\ \A i \in 1 .. n : w[i] = Enter(w[i - 1], segments[i])
        /\ Walk(from, segments) = w[n]
  BY WalkIs
<1> HIDE DEF all, m, n
<1>5. f[m] = from
  <2>1. \A i \in 1 .. m : f[i] = Step(f[i - 1], from[i])
    BY <1>1, <1>2, <1>3
  <2>2. f[0] = << >> /\ \A i \in 1 .. Len(from) : f[i] = Step(f[i - 1], from[i])
    BY <1>3, <2>1 DEF m
  <2>3. f[Len(from)] = from
    BY ONLY <2>2, NormalBeginning, from \in Directories
  <2> QED BY <2>3 DEF m
<1> DEFINE Bad == {i \in 0 .. n : w[i] # None /\ f[m + i] # w[i]}
<1>6. Bad = {}
  <2> SUFFICES ASSUME Bad # {} PROVE FALSE
    OBVIOUS
  <2>1. PICK k \in Bad : \A j \in Bad : k <= j
    <3>1. Bad \subseteq Nat
      OBVIOUS
    <3> HIDE DEF Bad
    <3> QED BY <3>1, LeastNatural
  <2>2. k \in 0 .. n /\ w[k] # None /\ f[m + k] # w[k]
    BY <2>1
  <2>3. k # 0
    BY <1>1, <1>4, <1>5, <2>2
  <2>4. k \in 1 .. n /\ k - 1 \in 0 .. n /\ ~(k <= k - 1)
    BY <1>1, <2>2, <2>3
  <2>5. w[k] = Enter(w[k - 1], segments[k])
    BY <1>4, <2>4
  <2>6. w[k - 1] # None
    BY <2>2, <2>5 DEF Enter
  <2>7. f[m + k - 1] = w[k - 1] /\ w[k - 1] \in Directories
    <3>1. m + (k - 1) = m + k - 1
      BY <1>1, <2>4
    <3>2. f[m + (k - 1)] = w[k - 1]
      BY <2>1, <2>4, <2>6
    <3> QED BY <1>4, <2>4, <2>6, <3>1, <3>2
  <2>8. f[m + k] = Step(w[k - 1], segments[k])
    <3>1. m + k \in 1 .. m + n /\ all[m + k] = segments[k]
      BY <1>1, <1>2, <2>4
    <3>2. f[m + k] = Step(f[m + k - 1], all[m + k])
      <4>0. PICK i : i = m + k
        OBVIOUS
      <4>1. i \in 1 .. m + n
        BY <3>1, <4>0
      <4>2. f[i] = Step(f[i - 1], all[i])
        BY ONLY <1>3, <4>1
      <4>3. i - 1 = m + k - 1
        BY <1>1, <2>4, <4>0
      <4> HIDE DEF all
      <4> QED BY <4>0, <4>2, <4>3
    <3> QED BY <2>7, <3>1, <3>2
  <2> HIDE DEF Bad
  <2>9. \A p, x : p # None /\ Enter(p, x) # None => Step(p, x) = Enter(p, x)
    BY DEF Enter, Step
  <2> QED BY <2>2, <2>5, <2>6, <2>8, <2>9
<1>7. f[m + n] = w[n]
  <2>1. n \in 0 .. n /\ w[n] # None
    BY <1>1, <1>4
  <2> QED BY <1>6, <2>1
<1> QED BY <1>3, <1>4, <1>7 DEF all

LEMMA Replies ==
  /\ \A cwd : Done(cwd).cwd = cwd
  /\ \A status, cwd : Failed(status, cwd).cwd = cwd
  /\ \A status : Unprocessed(status).cwd = None
BY DEF Done, Failed, Unprocessed, Reply

LEMMA CdStays ==
  ASSUME NEW cwd \in Directories, NEW args
  PROVE  Cd(cwd, args).cwd \in Directories
<1>1. CASE args = << >>
  <2>1. Len(args) = 0
    BY <1>1
  <2>2. Cd(cwd, args) = Done(Home)
    BY <1>1, <2>1 DEF Cd
  <2>3. Done(Home).cwd = Home
    BY Replies
  <2> QED BY <2>2, <2>3, Directory
<1>2. CASE args # << >> /\ Len(args) > 1
  BY <1>2, Replies DEF Cd
<1>3. CASE args # << >> /\ ~(Len(args) > 1)
  <2> DEFINE there == Resolve(cwd, args[1])
             fits == Len(args) = 1 /\ ~IsFlag(args[1]) /\ there \in Directories
  <2>1. CASE fits
    <3>1. Cd(cwd, args) = Done(there)
      BY <1>3, <2>1 DEF Cd
    <3> QED BY <2>1, <3>1, Replies
  <2>2. CASE ~fits
    <3>1. Cd(cwd, args) = Failed(404, cwd)
      BY <1>3, <2>2 DEF Cd
    <3> QED BY <3>1, Replies
  <2> QED BY <2>1, <2>2
<1> QED BY <1>1, <1>2, <1>3

\* No command leads out of the directories.
LEMMA ExecuteStays ==
  ASSUME NEW command, NEW cwd \in Directories
  PROVE  Execute(command, cwd).cwd \in Directories \cup {None}
<1>1. Ls(cwd, command.args).cwd = cwd
  BY Replies DEF Ls
<1>2. Cat(cwd, command.args).cwd = cwd
  BY Replies DEF Cat
<1>3. Uname(cwd, command.args).cwd = cwd
  BY Replies DEF Uname
<1>4. Cd(cwd, command.args).cwd \in Directories /\ Motd(cwd).cwd = cwd
  BY CdStays, Replies DEF Motd
<1> DEFINE reply == Execute(command, cwd)
<1>5. \/ reply \in {Unprocessed(422), Cd(cwd, command.args), Ls(cwd, command.args),
                    Cat(cwd, command.args), Uname(cwd, command.args), Motd(cwd)}
      \/ reply \in {Reply(200, cwd, FALSE, TRUE), Done(cwd), Failed(400, cwd)}
  BY DEF Execute
<1> HIDE DEF reply
<1>6. reply.cwd \in Directories \cup {None}
  <2>1. CASE reply = Unprocessed(422)
    BY <2>1, Replies
  <2>2. CASE reply \in {Cd(cwd, command.args), Ls(cwd, command.args),
                       Cat(cwd, command.args), Uname(cwd, command.args), Motd(cwd)}
    BY <1>1, <1>2, <1>3, <1>4, <2>2
  <2>3. CASE reply \in {Reply(200, cwd, FALSE, TRUE), Done(cwd), Failed(400, cwd)}
    <3>1. /\ Reply(200, cwd, FALSE, TRUE).cwd = cwd /\ Done(cwd).cwd = cwd
          /\ Failed(400, cwd).cwd = cwd
      BY DEF Reply, Done, Failed
    <3> QED BY <2>3, <3>1
  <2> QED BY <1>5, <2>1, <2>2, <2>3
<1> QED BY <1>6 DEF reply

-----------------------------------------------------------------------------
(* The terminal page *)

\* Each entry is that of a command that was run.
TerminalInv ==
  /\ TerminalTypeOK
  /\ virtualCwd \in Directories
  /\ entries + (IF call = None THEN 0 ELSE 1) <= Len(commandHistory)
  /\ call # None => ~loading /\ ~connectionError

LEMMA TerminalStarts ==
  ASSUME NEW page \in Routes
  PROVE  /\ route = page /\ TerminalInit => TerminalInv
         /\ route' = page /\ TerminalReset => TerminalInv'
<1>1. /\ << >> \in Seq(Inputs) /\ Len(<< >>) = 0 /\ MaxCommands \in Nat
      /\ Home \in Directories /\ 0 \in 0 .. MaxCommands
  <2>1. << >> \in Seq(Inputs) /\ Len(<< >>) = 0
    OBVIOUS
  <2>2. MaxCommands \in Nat
    BY ShellConstants
  <2>3. 0 \in 0 .. MaxCommands
    BY <2>2
  <2>4. Home \in Directories
    BY Directory
  <2> QED BY <2>1, <2>2, <2>3, <2>4
<1>2. ASSUME route = page, TerminalInit PROVE TerminalInv
  <2>1. /\ loading = TRUE /\ connectionError = FALSE /\ input = Blank /\ commandHistory = << >>
        /\ historyIndex = 0 /\ virtualCwd = Home /\ entries = 0 /\ call = None
    BY <1>2 DEF TerminalInit
  <2>2. /\ Len(commandHistory) = 0 /\ commandHistory \in Seq(Inputs)
        /\ Len(commandHistory) <= MaxCommands /\ historyIndex \in 0 .. Len(commandHistory)
    BY <1>1, <2>1
  <2>3. TerminalTypeOK
    BY <1>1, <1>2, <2>1, <2>2 DEF TerminalTypeOK
  <2> QED BY <1>1, <2>1, <2>2, <2>3 DEF TerminalInv
<1>3. ASSUME route' = page, TerminalReset PROVE TerminalInv'
  <2>1. /\ loading' = TRUE /\ connectionError' = FALSE /\ input' = Blank /\ commandHistory' = << >>
        /\ historyIndex' = 0 /\ virtualCwd' = Home /\ entries' = 0 /\ call' = None
    BY <1>3 DEF TerminalReset
  <2>2. /\ Len(commandHistory') = 0 /\ commandHistory' \in Seq(Inputs)
        /\ Len(commandHistory') <= MaxCommands /\ historyIndex' \in 0 .. Len(commandHistory')
    BY <1>1, <2>1
  <2>3. TerminalTypeOK'
    BY <1>1, <1>3, <2>1, <2>2 DEF TerminalTypeOK
  <2> QED BY <1>1, <2>1, <2>2, <2>3 DEF TerminalInv
<1> QED BY <1>2, <1>3

LEMMA AnsweredKeeps ==
  ASSUME TerminalInv, NEW reply, reply.cwd \in Directories \cup {None}, Answered(reply)
  PROVE  TerminalInv'
<1>1. /\ call # None /\ call' = None /\ entries' \in {0, entries + 1} /\ input' = Blank
      /\ virtualCwd' = NextCwd(reply)
      /\ UNCHANGED <<route, loading, connectionError, commandHistory, historyIndex>>
  BY DEF Answered
<1>2. NextCwd(reply) \in Directories
  BY DEF NextCwd, TerminalInv
<1>3. /\ Len(commandHistory) \in Nat /\ Len(commandHistory) <= MaxCommands /\ MaxCommands \in Nat
      /\ entries \in Nat /\ entries + 1 <= Len(commandHistory)
  <2>1. commandHistory \in Seq(Inputs)
    BY DEF TerminalInv, TerminalTypeOK
  <2>2. Len(commandHistory) \in Nat
    BY <2>1, LenProperties
  <2> QED BY <1>1, <2>2, ShellConstants DEF TerminalInv, TerminalTypeOK
<1>4. entries' \in 0 .. MaxCommands /\ entries' + 0 <= Len(commandHistory)
  BY <1>1, <1>3
<1> QED BY <1>1, <1>2, <1>4 DEF TerminalInv, TerminalTypeOK

\* What run_command does before it decides what to run.
LEMMA SubmitKeeps ==
  ASSUME TerminalInv, Submit
  PROVE  /\ call = None /\ ~loading /\ input \in Inputs
         /\ commandHistory' \in Seq(Inputs) /\ historyIndex' = 0
         /\ Len(commandHistory) \in Nat
         /\ Len(commandHistory') = Len(commandHistory) + 1 /\ Len(commandHistory') <= MaxCommands
         /\ entries \in Nat /\ entries <= Len(commandHistory) /\ MaxCommands \in Nat
         /\ UNCHANGED <<loading, connectionError, virtualCwd>>
<1>1. commandHistory \in Seq(Inputs) /\ input \in Inputs /\ call = None /\ entries \in Nat
  BY DEF TerminalInv, TerminalTypeOK, Submit, InputEnabled
<1>2. MaxCommands \in Nat /\ Len(commandHistory) \in Nat /\ Len(commandHistory) < MaxCommands
  BY <1>1, LenProperties, ShellConstants DEF Submit
<1>3. Append(commandHistory, input) \in Seq(Inputs)
      /\ Len(Append(commandHistory, input)) = Len(commandHistory) + 1
  BY <1>1, AppendProperties
<1>4. entries <= Len(commandHistory)
  BY <1>1, <1>2 DEF TerminalInv
<1> QED BY <1>1, <1>2, <1>3, <1>4 DEF Submit, InputEnabled, promptVars

LEMMA TerminalStep ==
  ASSUME TerminalInv, TerminalNext
  PROVE  TerminalInv'
<1> USE DEF typedVars, promptVars
<1>0. /\ MaxCommands \in Nat /\ None \notin Directories /\ Home \in Directories
      /\ commandHistory \in Seq(Inputs) /\ Len(commandHistory) \in Nat
  <2>1. commandHistory \in Seq(Inputs)
    BY DEF TerminalInv, TerminalTypeOK
  <2> QED BY <2>1, LenProperties, ShellConstants, Directory
<1>1. CASE InfoAnswered
  BY <1>0, <1>1, Replies DEF InfoAnswered, Info, TerminalInv, TerminalTypeOK
<1>2. CASE InfoFails
  BY <1>2 DEF InfoFails, TerminalInv, TerminalTypeOK
<1>3. ASSUME NEW text \in Inputs \cup {Blank}, Type(text) PROVE TerminalInv'
  BY <1>3 DEF Type, TerminalInv, TerminalTypeOK
<1>4. ASSUME NEW index \in 0 .. Len(commandHistory), Recall(index) PROVE TerminalInv'
  <2>1. input' \in Inputs \cup {Blank}
    <3>1. CASE index = 0
      BY <1>4, <3>1 DEF Recall
    <3>2. CASE index # 0
      <4>1. index \in 1 .. Len(commandHistory)
        BY <1>0, <3>2
      <4> QED BY <1>0, <1>4, <3>2, <4>1, ElementOfSeq DEF Recall
    <3> QED BY <3>1, <3>2
  <2> QED BY <1>4, <2>1 DEF Recall, TerminalInv, TerminalTypeOK
<1>5. CASE ArrowUp
  <2>1. Len(commandHistory) \in Nat \ {0} /\ historyIndex \in 0 .. Len(commandHistory)
    BY <1>0, <1>5, EmptySeq DEF ArrowUp, TerminalInv, TerminalTypeOK
  <2>2. PICK index \in 0 .. Len(commandHistory) : Recall(index)
    BY <1>5, <2>1 DEF ArrowUp
  <2> QED BY <1>4, <2>2
<1>6. CASE ArrowDown
  <2>1. historyIndex \in 0 .. Len(commandHistory)
    BY DEF TerminalInv, TerminalTypeOK
  <2>2. PICK index \in 0 .. Len(commandHistory) : Recall(index)
    BY <1>0, <1>6, <2>1 DEF ArrowDown
  <2> QED BY <1>4, <2>2
<1>7. ASSUME Submit, input' \in Inputs \cup {Blank}, route' = route,
             \/ call' = call /\ entries' \in {0, entries + 1}
             \/ call' = input /\ ~connectionError /\ entries' = entries
      PROVE  TerminalInv'
  <2>1. /\ call = None /\ ~loading /\ input \in Inputs
        /\ commandHistory' \in Seq(Inputs) /\ historyIndex' = 0
        /\ Len(commandHistory') = Len(commandHistory) + 1 /\ Len(commandHistory') <= MaxCommands
        /\ entries \in Nat /\ entries <= Len(commandHistory)
        /\ UNCHANGED <<loading, connectionError, virtualCwd>>
    BY <1>7, SubmitKeeps
  <2>2. entries' \in 0 .. MaxCommands /\ historyIndex' \in 0 .. Len(commandHistory')
    BY <1>0, <1>7, <2>1
  <2>3. entries' + (IF call' = None THEN 0 ELSE 1) <= Len(commandHistory')
    BY <1>0, <1>7, <2>1
  <2>4. call' \in Inputs \cup {None} /\ (call' # None => ~loading' /\ ~connectionError')
    BY <1>7, <2>1
  <2> QED BY <1>7, <2>1, <2>2, <2>3, <2>4 DEF TerminalInv, TerminalTypeOK
<1>8. CASE Clear
  BY <1>7, <1>8 DEF Clear
<1>9. CASE RunOffline
  BY <1>7, <1>9 DEF RunOffline
<1>10. CASE Post
  <2>1. input \in Inputs \cup {Blank}
    BY DEF TerminalInv, TerminalTypeOK
  <2> QED BY <1>7, <1>10, <2>1 DEF Post
<1>11. CASE BeBetter \/ LeaveOffline
  <2>1. PICK page \in Routes : route' = page /\ TerminalReset
    BY <1>11 DEF BeBetter, LeaveOffline, Leave, Routes
  <2> QED BY <2>1, TerminalStarts
<1>12. CASE PostFails
  <2>1. entries + 1 <= Len(commandHistory) /\ entries \in Nat /\ Len(commandHistory) <= MaxCommands
    BY <1>12 DEF PostFails, TerminalInv, TerminalTypeOK
  <2>2. entries + 1 \in 0 .. MaxCommands
    BY <1>0, <2>1
  <2> QED BY <1>0, <1>12, <2>1, <2>2 DEF PostFails, TerminalInv, TerminalTypeOK
<1>13. CASE Served
  <2>1. Execute(call, virtualCwd).cwd \in Directories \cup {None}
    BY ExecuteStays DEF TerminalInv
  <2> QED BY <1>13, <2>1, AnsweredKeeps DEF Served
<1>14. CASE Refused
  BY <1>14, Replies, AnsweredKeeps DEF Refused
<1> QED BY <1>1, <1>2, <1>3, <1>5, <1>6, <1>8, <1>9, <1>10, <1>11, <1>12, <1>13, <1>14
        DEF TerminalNext

LEMMA TerminalNextInv == TerminalInv /\ [Next]_vars => TerminalInv'
<1> SUFFICES ASSUME TerminalInv, [Next]_vars PROVE TerminalInv'
  OBVIOUS
<1>1. ASSUME NEW page \in Routes, NEW shared \in Indexes \cup {Nothing}, Visit(page, shared)
      PROVE  TerminalInv'
  BY <1>1, TerminalStarts DEF Visit
<1>2. CASE TerminalNext
  BY <1>2, TerminalStep
<1>3. CASE UNCHANGED <<route, terminalVars>>
  BY <1>3 DEF terminalVars, typedVars, promptVars, TerminalInv, TerminalTypeOK
<1> QED BY <1>1, <1>2, <1>3 DEF Next, vars

LEMMA TerminalHolds == Spec => []TerminalInv
<1>1. Init => TerminalInv
  BY TerminalStarts DEF Init, Routes
<1> QED BY <1>1, TerminalNextInv, PTL DEF Spec

-----------------------------------------------------------------------------
(* The router *)

Inv ==
  /\ Drawable(contact) /\ Shows(contact)
  /\ Tells(tool)
  /\ player = Stopped \/ Routed(player)

LEMMA InitInv == Init => Inv
<1> SUFFICES ASSUME Init PROVE Inv
  OBVIOUS
<1>1. Drawable(contact) /\ Shows(contact)
  BY OpenedShows DEF Init, ContactInit, Scripts
<1>2. Tells(tool)
  BY UnusedTells DEF Init, ToolInit
<1> QED BY <1>1, <1>2 DEF Inv, Init, PlayerInit

LEMMA NextInv == Inv /\ [Next]_vars => Inv'
<1> SUFFICES ASSUME Inv, [Next]_vars PROVE Inv'
  OBVIOUS
<1>1. ASSUME NEW page \in Routes, NEW shared \in Indexes \cup {Nothing}, Visit(page, shared)
      PROVE  Inv'
  <2>1. Drawable(contact') /\ Shows(contact')
    <3>1. PICK script \in Scripts : contact' = Opened(script)
      BY <1>1 DEF Visit, OpenContact, ContactReset, Scripts
    <3> QED BY <3>1, OpenedShows
  <2>2. Tells(tool')
    <3>1. PICK kind \in {"markdown", "ascii"} : tool' = Unused(kind)
      BY <1>1 DEF Visit, OpenTool, ToolReset
    <3> QED BY <3>1, UnusedTells
  <2>3. player' = Stopped \/ Routed(player')
    BY <1>1, OpenRoutes DEF Visit, PlayerReset
  <2> QED BY <2>1, <2>2, <2>3 DEF Inv
<1>2. CASE UNCHANGED <<contact, tool, player>>
  BY <1>2 DEF Inv
<1>3. CASE ContactNext /\ UNCHANGED <<tool, player>>
  BY <1>3, ContactStep DEF Inv
<1>4. CASE ToolNext /\ UNCHANGED <<contact, player>>
  BY <1>4, ToolStep DEF Inv
<1>5. CASE StreamNext /\ UNCHANGED <<contact, tool>>
  BY <1>5, StreamStep, StoppedStays DEF Inv
<1> QED BY <1>1, <1>2, <1>3, <1>4, <1>5 DEF Next, OthersStay, vars

LEMMA InvHolds == Spec => []Inv
BY InitInv, NextInv, PTL DEF Spec

-----------------------------------------------------------------------------
(* The theorems *)

\* The signals of every page keep to their types wherever the router goes.
THEOREM TypeCorrect == Spec => []FrontendTypeOK
<1>1. Inv => ContactTypeOK /\ ToolTypeOK
  BY DEF Inv, Drawable, Tells, ContactTypeOK, ToolTypeOK
<1>2. RadioInv => RadioTypeOK
  BY DEF RadioInv, ListOK, ListTypes, TunerOK, RadioTypeOK
<1>3. TerminalInv => TerminalTypeOK
  BY DEF TerminalInv
<1>4. Inv /\ RadioInv /\ TerminalInv => FrontendTypeOK
  BY <1>1, <1>2, <1>3 DEF FrontendTypeOK
<1> QED BY <1>4, InvHolds, RadioHolds, TerminalHolds, PTL

\* A form that waits for the challenge shows it, or an error, or the script
\* is still awaited, at every visit and for every message.
THEOREM ChallengeAppears == Spec => []ChallengeIsOffered
<1>1. Inv => ChallengeIsOffered
  BY DEF Inv, Shows, ChallengeIsOffered
<1> QED BY <1>1, InvHolds, PTL

\* For any number of overlapping conversions of any sources: one that is
\* shown to be in progress is, and a result that is not mixed is its own.
THEOREM ResultIsOwn == Spec => []ConversionIsShown
<1>1. Inv => ConversionIsShown
  BY DEF Inv, Tells, ConversionIsShown
<1> QED BY <1>1, InvHolds, PTL

\* However deep playlists are nested, and whatever their lines are, the player
\* asks at a path that is routed, over https and with its session's token.
THEOREM StreamStaysRouted == Spec => []PlayerIsRouted
<1>1. Inv => PlayerIsRouted
  <2> SUFFICES ASSUME Routed(player) PROVE PlayerIsRouted
    BY DEF Inv, PlayerIsRouted
  <2>1. PICK here \in Stations :
          \/ player.at = [path |-> <<"stations", here, "stream">>, source |-> NoUrl, token |-> NoToken]
          \/ /\ player.at.path = <<"stations", here, "stream", "segment">>
             /\ player.at.source # NoUrl
                   => player.at.source.scheme = "https" /\ player.at.token = player.session
    BY DEF Routed
  <2>2. CASE player.at = [path |-> <<"stations", here, "stream">>, source |-> NoUrl, token |-> NoToken]
    <3>1. player.at.path = <<"stations", here, "stream">> /\ player.at.source = NoUrl
      BY <2>2
    <3> QED BY <3>1 DEF PlayerIsRouted, IsStream
  <2>3. CASE player.at # [path |-> <<"stations", here, "stream">>, source |-> NoUrl, token |-> NoToken]
    BY <2>1, <2>3 DEF PlayerIsRouted, IsSegment
  <2> QED BY <2>2, <2>3
<1> QED BY <1>1, InvHolds, PTL

\* However long an address takes to be resolved, and whatever is chosen in the
\* meantime: once all are resolved, and none was overtaken, the station that is
\* played is the one that is selected.
THEOREM SelectedIsPlayed == Spec => []PlaysTheSelected
BY TunerPlays, RadioHolds, PTL

\* For every catalogue, filter and page size, and for any delays, retries and
\* failures: unless the filters were changed under a call, the pages that were
\* loaded are the beginning of the stations that fit, without a gap, and more
\* is announced exactly when there is more.
THEOREM ListBeginsTheListing == Spec => []ListIsABeginning
BY ListBegins, RadioHolds, PTL

\* Over any directories, and from whichever of them, a path that can be walked
\* segment by segment is where "cd" leads, though the service joins the text,
\* lets ".." take back whatever stands before it, and looks once.
THEOREM CdIsAWalk == Spec => CdWalksTheTree
<1>1. TerminalInv => \A typed \in Range(IF call = None THEN << >> ELSE call.args) :
            LET end == Walk(IF typed.absolute THEN << >> ELSE virtualCwd, typed.segments)
            IN  call.command = "cd" /\ Len(call.args) = 1 /\ ~IsFlag(typed)
                  /\ ~call.long /\ end # None /\ Served
                => virtualCwd' = end
  <2> SUFFICES ASSUME TerminalInv, Served,
                      NEW typed \in Range(IF call = None THEN << >> ELSE call.args),
                      call.command = "cd", Len(call.args) = 1, ~IsFlag(typed), ~call.long,
                      Walk(IF typed.absolute THEN << >> ELSE virtualCwd, typed.segments) # None
               PROVE  virtualCwd' = Walk(IF typed.absolute THEN << >> ELSE virtualCwd, typed.segments)
    OBVIOUS
  <2> DEFINE from == IF typed.absolute THEN << >> ELSE virtualCwd
             end == Walk(from, typed.segments)
  <2>1. call \in Inputs /\ virtualCwd \in Directories
    BY DEF TerminalInv, TerminalTypeOK, Served
  <2>2. typed = call.args[1] /\ typed.segments \in Seq(STRING)
    <3>1. call.args \in Seq([flag : STRING, absolute : BOOLEAN, segments : Seq(STRING)])
      BY <2>1, ShellConstants
    <3>2. typed \in Range(call.args) /\ DOMAIN call.args = 1 .. 1
      BY <2>1, <3>1, ShellConstants, LenProperties
    <3>3. typed = call.args[1]
      BY <3>2 DEF Range
    <3>4. call.args[1] \in [flag : STRING, absolute : BOOLEAN, segments : Seq(STRING)]
      <4>1. PICK Arg : Arg = [flag : STRING, absolute : BOOLEAN, segments : Seq(STRING)]
        OBVIOUS
      <4>2. call.args \in Seq(Arg) /\ 1 \in 1 .. Len(call.args)
        BY <3>1, <4>1
      <4>3. call.args[1] \in Arg
        BY ONLY <4>2, ElementOfSeq
      <4> QED BY <4>1, <4>3
    <3> QED BY <3>3, <3>4
  <2>3. from \in Directories
    BY <2>1, Directory
  <2>4. Normalize(Joined(from, typed.segments)) = end
    <3>1. end # None
      OBVIOUS
    <3> HIDE DEF from
    <3> QED BY <2>2, <2>3, <3>1, WalkIsNormal
  <2>5. Resolve(virtualCwd, typed) = end
    <3>1. CASE typed.absolute
      <4>1. Joined(<< >>, typed.segments) = typed.segments
        BY <2>2, ConcatEmptySeq DEF Joined
      <4> QED BY <2>4, <3>1, <4>1 DEF Resolve
    <3>2. CASE ~typed.absolute
      BY <2>4, <3>2 DEF Resolve, Joined
    <3> QED BY <3>1, <3>2
  <2>6. end \in Directories
    <3> HIDE DEF from
    <3>1. PICK f \in [0 .. Len(typed.segments) -> Directories \cup {None}] :
             end = f[Len(typed.segments)]
      BY <2>2, <2>3, WalkIs
    <3>2. Len(typed.segments) \in Nat
      BY <2>2, LenProperties
    <3> QED BY <3>1, <3>2 DEF from
  <2>7. Execute(call, virtualCwd) = Done(end)
    <3>1. ~(Len(call.args) > MaxArgs)
      <4>1. MaxArgs \in Nat \ {0} /\ Len(call.args) = 1
        BY SandboxConstants
      <4> HIDE DEF from, end
      <4> QED BY ONLY <4>1
    <3>2. Cd(virtualCwd, call.args) = Done(end)
      <4>1. call.args # << >>
        BY <2>2
      <4> HIDE DEF end
      <4> QED BY <2>2, <2>5, <2>6, <4>1 DEF Cd
    <3> HIDE DEF end
    <3> QED BY <3>1, <3>2 DEF Execute
  <2>8. NextCwd(Done(end)) = end
    <3> HIDE DEF end
    <3>1. Done(end).cwd = end
      BY Replies
    <3>2. end # None
      BY <2>6, Directory
    <3> QED BY <3>1, <3>2 DEF NextCwd
  <2> QED BY <2>7, <2>8 DEF Served, Answered
<1>2. TerminalInv /\ [Next]_vars => [ \A typed \in Range(IF call = None THEN << >> ELSE call.args) :
            LET end == Walk(IF typed.absolute THEN << >> ELSE virtualCwd, typed.segments)
            IN  call.command = "cd" /\ Len(call.args) = 1 /\ ~IsFlag(typed)
                  /\ ~call.long /\ end # None /\ Served
                => virtualCwd' = end ]_<<terminalVars, route>>
  BY <1>1
<1> QED BY <1>2, TerminalHolds, PTL DEF Spec, CdWalksTheTree
=============================================================================
