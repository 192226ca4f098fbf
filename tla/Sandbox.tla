------------------------------ MODULE Sandbox ------------------------------
(***************************************************************************)
(* The terminal service (terminal-service-rs): virtual paths (sandbox.rs)  *)
(* and what each command answers (commands.rs).  The service keeps nothing *)
(* between two calls; its files are written once, when it starts.          *)
(*                                                                         *)
(* A virtual path is the sequence of its segments, <<>> the root.  A path  *)
(* as it is typed is not normalised: it may be relative, and "", "." and   *)
(* ".." may be among its segments.                                         *)
(***************************************************************************)
EXTENDS Naturals, SequencesExt

CONSTANTS
    Home,         \* DEFAULT_VIRTUAL_HOME
    Directories,  \* the directories below SANDBOX_ROOT
    Files,        \* the files in them
    MaxArgs,      \* MAX_ARGS
    MotdIsRead,   \* MOTD_PATH is empty or can be read
    None          \* no path, no display path

Ancestors(path) == {SubSeq(path, 1, n) : n \in 0 .. Len(path)}

\* ensure_sandbox_filesystem creates the parents of what it creates.
ASSUME SandboxConstants ==
    /\ Directories \cup Files \subseteq Seq(STRING)
    /\ Home \in Directories
    /\ \A path \in Directories : Ancestors(path) \subseteq Directories
    /\ \A path \in Files : path # << >> /\ Front(path) \in Directories
    /\ Directories \cap Files = {}
    /\ \A path \in Directories \cup Files : Range(path) \cap {"", ".", "..", "~"} = {}
    /\ MaxArgs \in Nat \ {0}
    /\ MotdIsRead \in BOOLEAN
    /\ None \notin Directories

----------------------------------------------------------------------------
(* Paths *)

Step(parts, segment) ==
    CASE segment \in {"", "."} -> parts
      [] segment = ".." /\ parts # << >> -> Front(parts)
      [] segment = ".." /\ parts = << >> -> parts
      [] OTHER -> Append(parts, segment)

\* normalize_virtual of "/" and the segments.
Normalize(segments) ==
    LET after[n \in 0 .. Len(segments)] ==
            IF n = 0 THEN << >> ELSE Step(after[n - 1], segments[n])
    IN  after[Len(segments)]

\* Mutant: the current directory is forgotten when the path starts with "..".
ResolveFromRoot(cwd, typed) ==
    Normalize(IF typed.absolute \/ Head(typed.segments) = ".."
              THEN typed.segments ELSE cwd \o typed.segments)

\* resolve_virtual_path: what is typed is joined to the current directory as
\* text, and ".." then takes back the segment before it, whether it exists or not.
Resolve(cwd, typed) == Normalize(IF typed.absolute THEN typed.segments ELSE cwd \o typed.segments)

\* A path as it is shown: below "~", or from the root.
Shown(tilde, path) == [tilde |-> tilde, path |-> path]

\* to_display_path.
Display(path) ==
    IF IsPrefix(Home, path)
    THEN Shown(TRUE, SubSeq(path, Len(Home) + 1, Len(path)))
    ELSE Shown(FALSE, path)

----------------------------------------------------------------------------
(* Commands: an input is a command, its arguments, and whether it is longer *)
(* than MAX_COMMAND_LENGTH.  An argument is a flag or a path.               *)

IsFlag(arg) == arg.flag # ""

Exists(path) == path \in Directories \cup Files

\* What is answered: the directory it is answered for, None in an answer that
\* names none, how that is shown, whether it is an error, and whether the
\* client is to clear its screen.
Reply(status, cwd, error, clear) ==
    [status |-> status, cwd |-> cwd, error |-> error, clear |-> clear,
     display |-> IF cwd = None THEN None ELSE Display(cwd)]

\* CommandOutcome::validation_error, and every answer that is not the terminal
\* service's own: the gateway's, the rate limiter's, that of a body too long.
Unprocessed(status) == Reply(status, None, FALSE, FALSE)

Done(cwd) == Reply(200, cwd, FALSE, FALSE)
Failed(status, cwd) == Reply(status, cwd, TRUE, FALSE)

LsFlags == {"-a", "-l", "-la", "-al", "-lh", "-hl", "-lah", "-hal"}
UnameFlags == {"-a", "-s", "-r", "-m"}

\* handle_ls.
Ls(cwd, args) ==
    LET paths == SelectSeq(args, LAMBDA arg : ~IsFlag(arg))
        target == IF paths = << >> THEN cwd ELSE Resolve(cwd, Head(paths))
    IN  IF \/ \E i \in DOMAIN args : IsFlag(args[i]) /\ args[i].flag \notin LsFlags
           \/ Len(paths) > 1
        THEN Failed(422, cwd)
        ELSE IF Exists(target) THEN Done(cwd) ELSE Failed(404, cwd)

\* handle_cat: what goes wrong is told in an answer with status 200.
Cat(cwd, args) ==
    IF Len(args) = 1 /\ ~IsFlag(args[1]) /\ Resolve(cwd, args[1]) \in Files
    THEN Done(cwd) ELSE Failed(200, cwd)

\* handle_cd.
Cd(cwd, args) ==
    CASE args = << >> -> Done(Home)
      [] Len(args) > 1 -> Failed(422, cwd)
      [] Len(args) = 1 /\ ~IsFlag(args[1]) /\ Resolve(cwd, args[1]) \in Directories ->
             Done(Resolve(cwd, args[1]))
      [] OTHER -> Failed(404, cwd)

\* handle_uname.
Uname(cwd, args) ==
    IF \A i \in DOMAIN args : args[i].flag \in UnameFlags THEN Done(cwd) ELSE Failed(422, cwd)

\* read_motd: a message that cannot be read is told in an answer with status 200.
Motd(cwd) == IF MotdIsRead THEN Done(cwd) ELSE Failed(200, cwd)

\* CommandHandlers::handle_execute, of a command that is not blank.
Execute(input, cwd) ==
    CASE input.long -> Unprocessed(422)
      [] ~input.long /\ Len(input.args) > MaxArgs -> Unprocessed(422)
      [] OTHER ->
           CASE input.command = "cd" -> Cd(cwd, input.args)
             [] input.command = "ls" -> Ls(cwd, input.args)
             [] input.command = "cat" -> Cat(cwd, input.args)
             [] input.command = "uname" -> Uname(cwd, input.args)
             [] input.command = "clear" -> Reply(200, cwd, FALSE, TRUE)
             [] input.command = "motd" -> Motd(cwd)
             [] input.command \in {"help", "pwd", "whoami", "history", "echo"} -> Done(cwd)
             [] OTHER -> Failed(400, cwd)

\* CommandHandlers::handle_info.
Info == Done(Home)
=============================================================================
