------------------------------ MODULE ToolPage ------------------------------
(***************************************************************************)
(* The two tools of the frontend (dioxus-app: web_to_markdown.rs and       *)
(* image_to_ascii.rs): an address is fetched as markdown by the service    *)
(* (Fmd), a file is drawn in characters by the page itself.  Their pages   *)
(* have the same states and the same buttons.  Nothing cancels a           *)
(* conversion: its result is stored whenever it comes.                     *)
(***************************************************************************)
EXTENDS Naturals

CONSTANTS
    Sources,   \* addresses, or files
    Unfit,     \* those that are refused without a call: an empty or long
               \* address, no file, a large one or one of another type
    Empty,     \* the empty address, or no file
    NoSource   \* nothing was converted yet

ASSUME ToolConstants ==
    /\ Unfit \subseteq Sources /\ Empty \in Unfit
    /\ NoSource \notin Sources

VARIABLE tool  \* the signals of the page

\* source is url, or file; state is ConvertState, and shown whose result
\* Success holds; toast whether there is one; calls the sources of the
\* conversions under way and copying whether the clipboard is being written.
\* Not in the code: asked, the source of the last conversion, and mixed, that
\* another one was under way when it was started.
Tool == [kind: {"markdown", "ascii"}, source: Sources,
         state: {"idle", "loading", "success", "error"},
         shown: Sources \cup {NoSource}, toast: BOOLEAN, calls: SUBSET Sources, copying: BOOLEAN,
         asked: Sources \cup {NoSource}, mixed: BOOLEAN]

ToolTypeOK == tool \in Tool

\* A page opens with an empty address, or without a file.
Unused(kind) ==
    [kind |-> kind, source |-> Empty, state |-> "idle", shown |-> NoSource, toast |-> FALSE,
     calls |-> {}, copying |-> FALSE, asked |-> NoSource, mixed |-> FALSE]

ToolInit == tool = Unused("markdown")
ToolReset == tool' = Unused("markdown")
OpenTool(kind) == tool' = Unused(kind)

----------------------------------------------------------------------------
Cleared(page) == [page EXCEPT !.state = "idle", !.toast = FALSE]

\* Typing an address leaves the result, choosing a file takes it away.
EnterSource(source) ==
    /\ source # tool.source
    /\ tool' = IF tool.kind = "markdown" THEN [tool EXCEPT !.source = source]
               ELSE Cleared([tool EXCEPT !.source = source])

\* convert, up to its first await: the button waits for the conversion that
\* is shown to be in progress, the key Enter in the address does not.
Convert ==
    /\ tool.kind = "markdown" \/ tool.state # "loading"
    /\ tool.source \notin tool.calls   \* bound of the model
    /\ tool' = IF tool.source \in Unfit
               THEN [tool EXCEPT !.state = "error",
                                 !.toast = @ /\ tool.kind = "ascii" /\ tool.source = Empty]
               ELSE [tool EXCEPT !.toast = FALSE, !.state = "loading", !.calls = @ \cup {tool.source},
                                 !.asked = tool.source, !.mixed = tool.calls # {}]

ClearTool ==
    /\ tool # Cleared(tool)
    /\ tool' = Cleared(tool)

Converted(source) ==
    /\ source \in tool.calls
    /\ tool' = [tool EXCEPT !.calls = @ \ {source}, !.state = "success", !.shown = source]

\* Mutant: a failure is forgotten where another result is shown.
ConvertFailsQuietly(source) ==
    /\ source \in tool.calls
    /\ tool' = [tool EXCEPT !.calls = @ \ {source},
                            !.state = IF tool.shown = NoSource THEN "error" ELSE @]

\* The session, the service, the file, the picture or the canvas.
ConvertFails(source) ==
    /\ source \in tool.calls
    /\ tool' = [tool EXCEPT !.calls = @ \ {source}, !.state = "error"]

Download ==
    /\ tool.state = "success" /\ ~tool.toast
    /\ tool' = [tool EXCEPT !.toast = TRUE]

Copy ==
    /\ tool.state = "success" /\ ~tool.copying
    /\ tool' = [tool EXCEPT !.copying = TRUE]

\* The clipboard tells later whether it was written.
Copied ==
    /\ tool.copying
    /\ tool' = [tool EXCEPT !.copying = FALSE, !.toast = TRUE]

ToolNext ==
    \/ \E source \in Sources : EnterSource(source) \/ Converted(source) \/ ConvertFails(source)
    \/ Convert \/ ClearTool \/ Download \/ Copy \/ Copied

----------------------------------------------------------------------------
\* "Converting..." is shown only while the conversion that was asked for last
\* is under way, whatever others are answered meanwhile; and unless another
\* was under way when it was started, the result that follows is its own.
ConversionIsShown ==
    /\ tool.state = "loading" => tool.asked \in tool.calls
    /\ tool.state = "success" /\ ~tool.mixed => tool.shown = tool.asked
=============================================================================
