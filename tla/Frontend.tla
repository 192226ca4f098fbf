------------------------------ MODULE Frontend ------------------------------
(***************************************************************************)
(* The frontend as its router composes it (dioxus-app: routes.rs): one     *)
(* page is open at a time.  A page that is left is unmounted, its signals  *)
(* are dropped with the tasks and timers it started, and it starts anew    *)
(* when it is opened again.  "stream" stands for the player of the radio   *)
(* page, here by itself.                                                   *)
(***************************************************************************)
EXTENDS TerminalShell, RadioPage, ContactPage, ToolPage, StreamProxy

vars == <<route, terminalVars, radioVars, contact, tool, player>>

FrontendTypeOK == TerminalTypeOK /\ RadioTypeOK /\ ContactTypeOK /\ ToolTypeOK

Init ==
    /\ route = "home"
    /\ TerminalInit /\ RadioInit /\ ContactInit /\ ToolInit /\ PlayerInit

\* A link, the browser's history, or an address that is typed: it may share a
\* station with the radio page.
Visit(page, shared) ==
    /\ page # route
    /\ "home" \in {page, route}   \* bound of the model: a page starts anew, whichever was left
    /\ page # "radio" => shared = Nothing
    /\ route' = page
    /\ TerminalReset
    /\ IF page = "radio" THEN OpenRadio(shared) ELSE RadioReset
    /\ IF page = "contact" THEN OpenContact ELSE ContactReset
    /\ IF page \in {"markdown", "ascii"} THEN OpenTool(page) ELSE ToolReset
    /\ IF page = "stream"
       THEN \E station \in Stations, session \in Tokens \cup {NoToken} : OpenStream(station, session)
       ELSE PlayerReset

OthersStay == UNCHANGED <<contact, tool, player>>

Next ==
    \/ \E page \in Routes, shared \in Indexes \cup {Nothing} : Visit(page, shared)
    \/ route = "terminal" /\ TerminalNext /\ UNCHANGED radioVars /\ OthersStay
    \/ route = "radio" /\ RadioNext /\ UNCHANGED <<route, terminalVars>> /\ OthersStay
    \/ /\ route = "contact" /\ ContactNext
       /\ UNCHANGED <<route, terminalVars, radioVars, tool, player>>
    \/ /\ route \in {"markdown", "ascii"} /\ ToolNext
       /\ UNCHANGED <<route, terminalVars, radioVars, contact, player>>
    \/ /\ route = "stream" /\ StreamNext
       /\ UNCHANGED <<route, terminalVars, radioVars, contact, tool>>

\* A timer that is armed runs out; that anything is ever answered is not assumed.
TimerRunsOut ==
    /\ route = "radio" /\ FetchTimeout
    /\ UNCHANGED <<route, terminalVars>> /\ OthersStay

Spec == Init /\ [][Next]_vars
FairSpec == Spec /\ WF_vars(TimerRunsOut)
=============================================================================
