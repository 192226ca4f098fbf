----------------------------- MODULE MCFrontend -----------------------------
(***************************************************************************)
(* One visitor who goes from page to page.  In the terminal the paths go   *)
(* up past the root, through a directory that does not exist, to a file,   *)
(* and to "~"; each refusal and each way to leave occurs.  The radio's     *)
(* catalogue has four stations and pages of two, so a listing may be       *)
(* empty, one page, exactly two pages; one station carries a label twice,  *)
(* and one is played by hls.js.  Of the streams one is a playlist of       *)
(* playlists, with lines of another domain, over http and of a scheme      *)
(* that is not a stream's; the other is not a playlist.                    *)
(***************************************************************************)
EXTENDS Frontend, TLC

CONSTANTS s1, s2, t1

Path(segments) == [flag |-> "", absolute |-> FALSE, segments |-> segments]
Root(segments) == [flag |-> "", absolute |-> TRUE, segments |-> segments]
Flag(flag) == [flag |-> flag, absolute |-> FALSE, segments |-> <<flag>>]
Run(command, args) == [command |-> command, args |-> args, long |-> FALSE]

MCHome == <<"home", "demo">>
MCDirectories == {<< >>, <<"home">>, MCHome, <<"home", "demo", "projects">>, <<"etc">>}
MCFiles == {<<"home", "demo", "about">>}

MCBlank == Run("", << >>)
MCInputs == {
    Run("cd", << >>), Run("cd", <<Path(<<"..">>)>>), Run("cd", <<Path(<<"~">>)>>),
    Run("cd", <<Path(<<"..", "..", "..", "etc">>)>>), Run("cd", <<Root(<< >>)>>),
    Run("cd", <<Path(<<"about">>)>>),
    Run("cd", <<Path(<<"projects", ".", "">>)>>), Run("cd", <<Path(<<"nowhere", "..">>)>>),
    Run("ls", <<Flag("-la"), Path(<<"..">>)>>), Run("ls", <<Flag("-z")>>),
    Run("cat", <<Path(<<"about">>), Path(<<"about">>)>>),
    [command |-> "echo", args |-> << >>, long |-> TRUE],
    Run("uname", <<Flag("-a"), Flag("-r"), Flag("-m")>>),
    Run("motd", << >>), Run("clear", << >>), Run("clear", <<Flag("-x")>>), Run("be better", << >>), Run("vi", << >>) }

Station(country, code, tags, words) ==
    [country |-> country, code |-> code, tags |-> tags, languages |-> << >>, words |-> words]

MCCatalogue == <<
    Station("Malta", "MT", <<"Jazz">>, {s1}),
    Station("Malta", "MT", <<"jazz", "Rock", "rock">>, {s1, s2}),
    Station("Chad", "TD", <<"jazz">>, {s2}),
    Station("Malta", NoFilter, << >>, {s1}) >>

MCLower == [label \in {"Malta", "MT", "Jazz", "jazz", "Rock", "rock", "Chad", "TD", "malta", "mt", "chad", "td"} |->
    CASE label = "Malta" -> "malta" [] label = "MT" -> "mt" [] label = "Jazz" -> "jazz"
      [] label = "Rock" -> "rock" [] label = "Chad" -> "chad" [] label = "TD" -> "td" [] OTHER -> label]

Url(scheme, host) == [scheme |-> scheme, host |-> host]
Live == Url("https", <<"live", "radio", "fm">>)
Bitrate == Url("https", <<"cdn", "radio", "fm">>)
Lower1 == Url("http", <<"cdn", "radio", "fm">>)
Song == Url("https", <<"radio", "fm">>)
Elsewhere == Url("https", <<"cdn", "org">>)

MCStreamUrl == [a |-> Live, b |-> Song]
MCPlaylist ==
    (Live :> {Lower1, Elsewhere, Url("rtmp", <<"radio", "fm">>)}) @@ (Bitrate :> {Song, Live})
=============================================================================
