---------------------------- MODULE ContactPage ----------------------------
(***************************************************************************)
(* The contact page of the frontend (dioxus-app: contact.rs): the session  *)
(* and the configuration it asks for when it opens, the challenge of       *)
(* Turnstile, whose script stays in the document when the page is left,    *)
(* and the message that is sent (ContactForm is what receives it).         *)
(*                                                                         *)
(* Setting a signal makes the effects that read it run before the next     *)
(* event: an action contains them.                                         *)
(***************************************************************************)
EXTENDS Naturals

VARIABLE contact  \* the signals of the page

\* session is that of session_ready and its task; siteKey of
\* turnstile_site_key and its task; script says where the script is: being
\* loaded for this visit or for an earlier one; ready, widget, token, sending,
\* success and error are turnstile_ready, turnstile_widget_id.is_some(),
\* turnstile_token.is_some(), loading, success and error.is_some(); written
\* that name and message are not empty; drawn that the challenge stands in
\* the form.  Not in the code: late, that an earlier visit's load was met.
Contact == [session: {"asked", "ready", "failed"}, siteKey: {"asked", "none", "known"},
            script: {"absent", "asked", "elsewhere", "loaded"}, ready: BOOLEAN,
            widget: BOOLEAN, drawn: BOOLEAN, token: BOOLEAN, written: BOOLEAN,
            sending: BOOLEAN, success: BOOLEAN, error: BOOLEAN, late: BOOLEAN]

ContactTypeOK == contact \in Contact

\* What an earlier visit may have left of the script.
Scripts == {"absent", "elsewhere", "loaded"}

Opened(script) ==
    [session |-> "asked", siteKey |-> "asked", script |-> script, ready |-> FALSE,
     widget |-> FALSE, drawn |-> FALSE, token |-> FALSE, written |-> FALSE,
     sending |-> FALSE, success |-> FALSE, error |-> FALSE, late |-> script = "elsewhere"]

ContactInit == contact = Opened("absent")
ContactReset == contact' = Opened("absent")
OpenContact == \E script \in Scripts : contact' = Opened(script)

----------------------------------------------------------------------------
\* The effect that sees to the challenge, where success, the key, ready and
\* the widget have changed: it adds the script, or draws, which may fail.
Offered(page) ==
    IF page.success \/ page.siteKey # "known" \/ page.widget THEN {page}
    ELSE IF ~page.ready /\ page.script = "absent" THEN {[page EXCEPT !.script = "asked"]}
    ELSE IF ~page.ready /\ page.script # "loaded" THEN {page}
    ELSE {[page EXCEPT !.ready = TRUE, !.widget = TRUE, !.drawn = TRUE],
          [page EXCEPT !.ready = TRUE, !.error = TRUE]}

SessionAnswered(ok) ==
    /\ contact.session = "asked"
    /\ contact' = IF ok THEN [contact EXCEPT !.session = "ready"]
                  ELSE [contact EXCEPT !.session = "failed", !.error = TRUE]

ConfigAnswered(key) ==
    /\ contact.siteKey = "asked"
    /\ contact' \in Offered([contact EXCEPT !.siteKey = key])

\* A configuration that cannot be had takes any message away.
ConfigFails ==
    /\ contact.siteKey = "asked"
    /\ contact' = [contact EXCEPT !.siteKey = "none", !.error = FALSE]

\* The script calls the page that has added it.
ScriptLoads ==
    \/ /\ contact.script = "asked"
       /\ contact' \in Offered([contact EXCEPT !.script = "loaded", !.ready = TRUE])
    \/ /\ contact.script = "elsewhere"
       /\ contact' = [contact EXCEPT !.script = "loaded"]

\* The callbacks of the widget: a token, or an error, an expiry, a timeout.
Solved ==
    /\ contact.widget
    /\ contact' = [contact EXCEPT !.token = TRUE]

Unsolved ==
    /\ contact.widget
    /\ contact' = [contact EXCEPT !.token = FALSE, !.error = TRUE]

EditForm(written) ==
    /\ ~contact.success /\ ~contact.sending
    /\ contact' = [contact EXCEPT !.written = written]

SendMessage ==
    /\ ~contact.success /\ ~contact.sending
    /\ contact.session = "ready" /\ contact.written
    /\ contact.siteKey = "known" => contact.token
    /\ contact' = [contact EXCEPT !.sending = TRUE, !.error = FALSE]

\* The form leaves the page, and the challenge with it.
MessageAccepted ==
    /\ contact.sending
    /\ contact' = [contact EXCEPT !.sending = FALSE, !.success = TRUE, !.written = FALSE,
                                  !.token = FALSE, !.drawn = FALSE]

\* The token stays, though it was used.
MessageRejected ==
    /\ contact.sending
    /\ contact' = [contact EXCEPT !.sending = FALSE, !.error = TRUE]

\* Mutant: the widget is reset where it was, and its id kept.
SendAnotherResetsOnly ==
    /\ contact.success
    /\ contact' \in Offered([contact EXCEPT !.success = FALSE, !.error = FALSE, !.token = FALSE])

\* "Send another message": the widget is removed and drawn anew.
SendAnother ==
    /\ contact.success
    /\ contact' \in Offered([contact EXCEPT !.success = FALSE, !.error = FALSE,
                                            !.token = FALSE, !.widget = FALSE])

ContactNext ==
    \/ \E ok \in BOOLEAN : SessionAnswered(ok)
    \/ \E key \in {"none", "known"} : ConfigAnswered(key)
    \/ ConfigFails \/ ScriptLoads \/ Solved \/ Unsolved
    \/ \E written \in BOOLEAN : EditForm(written)
    \/ SendMessage \/ MessageAccepted \/ MessageRejected \/ SendAnother

----------------------------------------------------------------------------
\* A form that waits for the challenge shows it, or an error, or the script
\* is still awaited, for the first message and for every other one.  The
\* exception: while the script was loading an earlier visit was left.
ChallengeIsOffered ==
    contact.siteKey = "known" /\ ~contact.success /\ ~contact.token
        => contact.drawn \/ contact.error \/ contact.script = "asked" \/ contact.late
=============================================================================
