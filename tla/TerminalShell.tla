--------------------------- MODULE TerminalShell ---------------------------
(***************************************************************************)
(* The terminal page of the frontend (dioxus-app: terminal_shell.rs): what *)
(* is typed, the commands that were run, the directory the page takes      *)
(* itself to be in, and the prompt that shows it.  The service (Sandbox)   *)
(* is told the directory with every command and answers with the next one. *)
(*                                                                         *)
(* Between a key and the first await of run_command no other event is      *)
(* handled: that is one action.                                            *)
(***************************************************************************)
EXTENDS Sandbox

CONSTANTS
    Inputs,       \* what may be typed: inputs in the sense of Sandbox
    Blank,        \* an empty input
    MaxCommands   \* bound of the model: commands in one visit of the page

ASSUME ShellConstants ==
    /\ \A text \in Inputs : text.args \in Seq([flag : STRING, absolute : BOOLEAN, segments : Seq(STRING)])
    /\ Blank \notin Inputs /\ None \notin Inputs
    /\ MaxCommands \in Nat

VARIABLES
    route,            \* the page that is open
    loading,          \* whether the answer to /info is awaited
    connectionError,  \* whether that answer was a failure
    input,            \* the text in the input
    commandHistory,   \* command_history
    historyIndex,     \* history_index, 0 for None
    virtualCwd,       \* virtual_cwd
    displayCwd,       \* display_cwd
    entries,          \* how many entries of history are on the screen
    call              \* the input sent to /execute, None when not is_submitting

promptVars == <<virtualCwd, displayCwd>>
typedVars == <<input, commandHistory, historyIndex>>
terminalVars == <<loading, connectionError, typedVars, promptVars, entries, call>>

Routes == {"home", "gitgud", "terminal", "radio", "contact", "markdown", "ascii", "stream"}

\* to_display_path of the page, for answers that do not say how to show a path.
PageDisplay(path) == IF path = << >> THEN Shown(TRUE, << >>) ELSE Display(path)

TerminalTypeOK ==
    /\ route \in Routes
    /\ loading \in BOOLEAN /\ connectionError \in BOOLEAN
    /\ input \in Inputs \cup {Blank}
    /\ commandHistory \in Seq(Inputs) /\ Len(commandHistory) <= MaxCommands
    /\ historyIndex \in 0 .. Len(commandHistory)
    /\ entries \in 0 .. MaxCommands
    /\ call \in Inputs \cup {None}

\* A page that is opened or left starts anew; leaving it drops its tasks.
TerminalInit ==
    /\ loading = TRUE /\ connectionError = FALSE
    /\ input = Blank /\ commandHistory = << >> /\ historyIndex = 0
    /\ virtualCwd = Home /\ displayCwd = PageDisplay(Home)
    /\ entries = 0 /\ call = None

TerminalReset ==
    /\ loading' = TRUE /\ connectionError' = FALSE
    /\ input' = Blank /\ commandHistory' = << >> /\ historyIndex' = 0
    /\ virtualCwd' = Home /\ displayCwd' = PageDisplay(Home)
    /\ entries' = 0 /\ call' = None

----------------------------------------------------------------------------
(* /info, asked for when the page opens *)

InfoAnswered ==
    /\ loading
    /\ loading' = FALSE
    /\ virtualCwd' = Info.cwd /\ displayCwd' = Info.display
    /\ UNCHANGED <<route, connectionError, typedVars, entries, call>>

InfoFails ==
    /\ loading
    /\ loading' = FALSE /\ connectionError' = TRUE
    /\ UNCHANGED <<route, typedVars, promptVars, entries, call>>

----------------------------------------------------------------------------
(* Keys: the input is disabled while the page loads or a command runs *)

InputEnabled == ~loading /\ call = None

Type(text) ==
    /\ InputEnabled
    /\ input' = text
    /\ UNCHANGED <<route, loading, connectionError, commandHistory, historyIndex, promptVars, entries, call>>

Recall(index) ==
    /\ InputEnabled
    /\ historyIndex' = index
    /\ input' = IF index = 0 THEN Blank ELSE commandHistory[index]
    /\ UNCHANGED <<route, loading, connectionError, commandHistory, promptVars, entries, call>>

ArrowUp ==
    /\ commandHistory # << >>
    /\ Recall(CASE historyIndex = 0 -> Len(commandHistory)
                [] historyIndex = 1 -> 1
                [] OTHER -> historyIndex - 1)

ArrowDown ==
    /\ historyIndex # 0
    /\ Recall(IF historyIndex = Len(commandHistory) THEN 0 ELSE historyIndex + 1)

----------------------------------------------------------------------------
(* run_command, up to its first await *)

Submit ==
    /\ InputEnabled /\ input # Blank
    /\ Len(commandHistory) < MaxCommands
    /\ commandHistory' = Append(commandHistory, input)
    /\ historyIndex' = 0
    /\ UNCHANGED <<loading, connectionError, promptVars>>

IsClear == input.command = "clear" /\ input.args = << >>
IsBeBetter == input.command = "be better"
Local == IsClear \/ IsBeBetter

\* "cd", "cd ~" and "cd /home/sandbox" leave the page, but only when it is offline.
LeavesOffline ==
    /\ input.command = "cd"
    /\ \/ input.args = << >>
       \/ input.args \in {<<[flag |-> "", absolute |-> FALSE, segments |-> <<"~">>]>>,
                          <<[flag |-> "", absolute |-> TRUE, segments |-> <<"home", "sandbox">>]>>}

Clear ==
    /\ Submit /\ IsClear
    /\ input' = Blank /\ entries' = 0
    /\ UNCHANGED <<route, call>>

Leave(page) ==
    /\ InputEnabled /\ input # Blank
    /\ Len(commandHistory) < MaxCommands
    /\ route' = page
    /\ TerminalReset

BeBetter == IsBeBetter /\ Leave("gitgud")

LeaveOffline == connectionError /\ ~Local /\ LeavesOffline /\ Leave("home")

RunOffline ==
    /\ Submit /\ connectionError /\ ~Local /\ ~LeavesOffline
    /\ input' = Blank /\ entries' = entries + 1
    /\ UNCHANGED <<route, call>>

Post ==
    /\ Submit /\ ~connectionError /\ ~Local
    /\ call' = input
    /\ UNCHANGED <<route, input, entries>>

----------------------------------------------------------------------------
(* run_command, after the answer *)

\* The session or the connection failed: an error is shown, the rest stays.
PostFails ==
    /\ call # None
    /\ entries' = entries + 1
    /\ input' = Blank /\ call' = None
    /\ UNCHANGED <<route, loading, connectionError, commandHistory, historyIndex, promptVars>>

NextCwd(reply) == IF reply.cwd = None THEN virtualCwd ELSE reply.cwd

\* connection_error is cleared too: it was clear, or nothing had been sent.
Answered(reply) ==
    /\ call # None
    /\ virtualCwd' = NextCwd(reply)
    /\ displayCwd' = IF reply.display = None THEN PageDisplay(NextCwd(reply)) ELSE reply.display
    /\ entries' = IF reply.clear THEN 0 ELSE entries + 1
    /\ input' = Blank /\ call' = None
    /\ UNCHANGED <<route, loading, connectionError, commandHistory, historyIndex>>

Served == call # None /\ Answered(Execute(call, virtualCwd))

\* A layer before the service answers: 401, 403, 413, 429, 502 and the like.
Refused == Answered(Unprocessed(429))

TerminalNext ==
    \/ InfoAnswered \/ InfoFails
    \/ \E text \in Inputs \cup {Blank} : Type(text)
    \/ ArrowUp \/ ArrowDown
    \/ Clear \/ BeBetter \/ LeaveOffline \/ RunOffline \/ Post
    \/ PostFails \/ Served \/ Refused

----------------------------------------------------------------------------
(* Properties *)

\* A file system follows a path one directory after the other.
Enter(at, segment) ==
    CASE at = None \/ segment \in {"", "."} -> at
      [] at # None /\ segment = ".." -> IF at = << >> THEN at ELSE Front(at)
      [] OTHER -> IF Append(at, segment) \in Directories THEN Append(at, segment) ELSE None

Walk(from, segments) ==
    LET at[n \in 0 .. Len(segments)] ==
            IF n = 0 THEN from ELSE Enter(at[n - 1], segments[n])
    IN  at[Len(segments)]

\* Wherever a path can be walked through the directories, "cd" leads to where
\* the walk ends, though the service joins text and asks the file system once.
CdWalksTheTree ==
    [][ \A typed \in Range(IF call = None THEN << >> ELSE call.args) :
            LET end == Walk(IF typed.absolute THEN << >> ELSE virtualCwd, typed.segments)
            IN  call.command = "cd" /\ Len(call.args) = 1 /\ ~IsFlag(typed)
                  /\ ~call.long /\ end # None /\ Served
                => virtualCwd' = end ]_<<terminalVars, route>>
=============================================================================
