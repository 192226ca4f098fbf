-------------------------------- MODULE Fmd --------------------------------
(***************************************************************************)
(* The fetch-as-markdown service: requests queue for one of MaxConcurrency *)
(* permits (app.rs), try the public addresses of their host one after the  *)
(* other (fetch_md.rs), and, when the page is the shell of a single-page   *)
(* application, queue for a render permit and let a Lightpanda process     *)
(* render it (render.rs).  Every such process is told the same port.       *)
(*                                                                         *)
(* Requests overlap at every await.  A render that times out, returns      *)
(* early by `?` or is dropped with its request lets go of its process      *)
(* without killing it: Child has no kill_on_drop.  That process is then a  *)
(* stray.  A process that finds its port taken exits.  A permit is held by *)
(* the pc of a request: it goes with the handler, however that ends.       *)
(***************************************************************************)
EXTENDS Naturals, FiniteSets, Sequences

CONSTANTS
    Requests,           \* requests that may be open together
    Stray, Nobody,      \* owners of the process that serves the port, beside requests
    Addresses,          \* what host names may resolve to
    Public,             \* those of them is_public_ip lets through
    MaxTries,           \* addresses that are tried: 3
    MaxConcurrency,     \* FMD_MAX_CONCURRENCY
    RenderConcurrency,  \* FMD_RENDER_MAX_CONCURRENCY
    RenderEnabled,      \* FMD_RENDER_ENABLED
    TextThreshold,      \* FMD_RENDER_SPA_TEXT_THRESHOLD
    MaxSubrequests,     \* FMD_RENDER_MAX_SUBREQUESTS
    MaxStrays           \* bound of the model: strays that have not tried the port yet

ASSUME FmdConstants ==
    /\ Stray \notin Requests /\ Nobody \notin Requests /\ Stray # Nobody
    /\ IsFiniteSet(Requests) /\ IsFiniteSet(Addresses) /\ Public \subseteq Addresses
    /\ MaxTries \in Nat \ {0}
    /\ MaxConcurrency \in Nat \ {0} /\ RenderConcurrency \in Nat \ {0}
    /\ RenderEnabled \in BOOLEAN
    /\ TextThreshold \in Nat /\ MaxSubrequests \in Nat /\ MaxStrays \in Nat \ {0}

VARIABLES
    req,          \* the requests
    queue,        \* those that wait for a permit, in the order they came
    renderQueue,  \* those that wait for a render permit
    starting,     \* renders whose process runs and has not bound the port
    server,       \* whose process serves the port
    strays,       \* processes that nobody owns and that have not bound the port
    lost          \* history: whether a render has let go of its process

vars == <<req, queue, renderQueue, starting, server, strays, lost>>
queueVars == <<queue, renderQueue>>
processVars == <<starting, server, strays, lost>>

\* What there is to tell of a page: how much text it shows, its marks and
\* its scripts.
Page == [text: {TextThreshold - 1, TextThreshold}, marker: BOOLEAN, scripts: {2, 3}]

Rendering == {"connect", "page", "load", "content", "close", "kill"}
PCs == {"idle", "queued", "fetch", "renderQueued"} \cup Rendering

\* html: the page that was rendered; shown: it was the last answer; refused
\* (history): one of its subrequests was refused.
Idle == [pc |-> "idle", tries |-> 0, conn |-> "none", count |-> 0, blocked |-> FALSE,
         html |-> "none", shown |-> FALSE, refused |-> FALSE]

Request == [pc: PCs, tries: 0 .. MaxTries, conn: {"none", "live", "dead"},
            count: 0 .. MaxSubrequests + 1, blocked: BOOLEAN,
            html: {"none", "fits", "long"}, shown: BOOLEAN, refused: BOOLEAN]

TypeOK ==
    /\ req \in [Requests -> Request]
    /\ queue \in Seq(Requests) /\ renderQueue \in Seq(Requests)
    /\ starting \subseteq Requests
    /\ server \in Requests \cup {Stray, Nobody}
    /\ strays \in Nat /\ lost \in BOOLEAN

Init ==
    /\ req = [r \in Requests |-> Idle]
    /\ queue = << >> /\ renderQueue = << >>
    /\ starting = {} /\ server = Nobody /\ strays = 0 /\ lost = FALSE

At(pcs) == {r \in Requests : req[r].pc \in pcs}

----------------------------------------------------------------------------
\* app.rs, fetch_md.rs

\* Answered with an error or with the page that was fetched.
Answered(r) == [req EXCEPT ![r] = Idle]
Answer(r) == req' = Answered(r)

\* A request without the service's token is answered at once, 401.
Arrive(r) ==
    /\ req[r].pc = "idle"
    /\ req' = [req EXCEPT ![r] = [Idle EXCEPT !.pc = "queued"]]
    /\ queue' = Append(queue, r)
    /\ UNCHANGED <<renderQueue, processVars>>

Least(a, b) == IF a < b THEN a ELSE b

\* resolve_public_addrs: the others are left out.
PublicAddrs(resolved) == resolved \cap Public

\* A URL that is not allowed is refused, and a host without public address.
Begin(r, valid, resolved) ==
    IF valid /\ PublicAddrs(resolved) # {}
    THEN req' = [req EXCEPT ![r] = [@ EXCEPT !.pc = "fetch",
                      !.tries = Least(MaxTries, Cardinality(PublicAddrs(resolved)))]]
    ELSE Answer(r)

\* Mutant: the last to come is the first to be let in.
AdmitLast(r, valid, resolved) ==
    /\ queue # << >> /\ queue[Len(queue)] = r
    /\ Cardinality(At(PCs \ {"idle", "queued"})) < MaxConcurrency
    /\ queue' = SubSeq(queue, 1, Len(queue) - 1)
    /\ Begin(r, valid, resolved)
    /\ UNCHANGED <<renderQueue, processVars>>

Admit(r, valid, resolved) ==
    /\ queue # << >> /\ Head(queue) = r
    /\ Cardinality(At(PCs \ {"idle", "queued"})) < MaxConcurrency
    /\ queue' = Tail(queue)
    /\ Begin(r, valid, resolved)
    /\ UNCHANGED <<renderQueue, processVars>>

\* No answer from one address: the next one is tried.
AttemptFails(r) ==
    /\ req[r].pc = "fetch"
    /\ IF req[r].tries > 1
       THEN req' = [req EXCEPT ![r].tries = @ - 1]
       ELSE Answer(r)
    /\ UNCHANGED <<queueVars, processVars>>

\* A redirect, another type of content, or too long a page, is final.
Refuse(r) ==
    /\ req[r].pc = "fetch"
    /\ Answer(r)
    /\ UNCHANGED <<queueVars, processVars>>

DetectSpaShell(page) ==
    /\ page.text < TextThreshold
    /\ page.marker \/ page.scripts >= 3

Fetched(r, page) ==
    /\ req[r].pc = "fetch"
    /\ IF RenderEnabled /\ DetectSpaShell(page)
       THEN /\ req' = [req EXCEPT ![r] = [@ EXCEPT !.pc = "renderQueued", !.tries = 0]]
            /\ renderQueue' = Append(renderQueue, r)
       ELSE Answer(r) /\ UNCHANGED renderQueue
    /\ UNCHANGED <<queue, processVars>>

----------------------------------------------------------------------------
\* render.rs

\* However a render fails, the page that was fetched is answered.

\* Mutant: the render permit is let go before the process is started.
StartRenderAtOnce(r, spawned) ==
    /\ renderQueue # << >> /\ Head(renderQueue) = r
    /\ renderQueue' = Tail(renderQueue)
    /\ IF spawned
       THEN req' = [req EXCEPT ![r].pc = "connect"] /\ starting' = starting \cup {r}
       ELSE Answer(r) /\ UNCHANGED starting
    /\ UNCHANGED <<queue, server, strays, lost>>

StartRender(r, spawned) ==
    /\ renderQueue # << >> /\ Head(renderQueue) = r
    /\ Cardinality(At(Rendering)) < RenderConcurrency
    /\ renderQueue' = Tail(renderQueue)
    /\ IF spawned
       THEN req' = [req EXCEPT ![r].pc = "connect"] /\ starting' = starting \cup {r}
       ELSE Answer(r) /\ UNCHANGED starting
    /\ UNCHANGED <<queue, server, strays, lost>>

\* A process binds the port, or finds it taken and exits.
Bind(r) ==
    /\ r \in starting
    /\ starting' = starting \ {r}
    /\ server' = IF server = Nobody THEN r ELSE server
    /\ UNCHANGED <<req, queueVars, strays, lost>>

StrayBinds ==
    /\ strays > 0
    /\ strays' = strays - 1
    /\ server' = IF server = Nobody THEN Stray ELSE server
    /\ UNCHANGED <<req, queueVars, starting, lost>>

\* The serving process ends, and with it every connection.
Cut(requests) ==
    [r \in Requests |->
        IF requests[r].conn = "live" THEN [requests[r] EXCEPT !.conn = "dead"] ELSE requests[r]]

\* It may end by itself.
ServerEnds ==
    /\ server # Nobody
    /\ server' = Nobody
    /\ req' = Cut(req)
    /\ UNCHANGED <<queueVars, starting, strays, lost>>

\* Whoever serves the port is connected to.
Connect(r) ==
    /\ req[r].pc = "connect" /\ server # Nobody
    /\ req' = [req EXCEPT ![r] = [@ EXCEPT !.pc = "page", !.conn = "live"]]
    /\ UNCHANGED <<queueVars, processVars>>

\* child.kill: the process r has started, whichever one r is connected to.
KillOwn(r, requests) ==
    /\ starting' = starting \ {r}
    /\ IF server = r
       THEN server' = Nobody /\ req' = Cut(requests)
       ELSE UNCHANGED server /\ req' = requests

\* Mutant: the process that could not be reached is not killed.
ConnectFailsOnly(r) ==
    /\ req[r].pc = "connect"
    /\ Answer(r)
    /\ UNCHANGED <<queueVars, processVars>>

ConnectFails(r) ==
    /\ req[r].pc = "connect"
    /\ KillOwn(r, Answered(r))
    /\ UNCHANGED <<queueVars, strays, lost>>

\* The process of r, if it still runs, goes on without an owner.
LetGo(r) ==
    /\ starting' = starting \ {r}
    /\ server' = IF server = r THEN Stray ELSE server
    /\ strays < MaxStrays
    /\ strays' = IF r \in starting THEN strays + 1 ELSE strays
    /\ lost' = TRUE

OpenPage(r) ==
    /\ req[r].pc = "page" /\ req[r].conn = "live"
    /\ req' = [req EXCEPT ![r].pc = "load"]
    /\ UNCHANGED <<queueVars, processVars>>

\* Mutant: a subrequest over the limit is refused and not remembered.
InterceptForgets(r, allowed) ==
    /\ req[r].pc \in {"load", "content"} /\ req[r].conn = "live"
    /\ req[r].count <= MaxSubrequests
    /\ LET over == req[r].count + 1 > MaxSubrequests IN
       req' = [req EXCEPT ![r].count = @ + 1, ![r].blocked = @ \/ (~over /\ ~allowed),
                          ![r].refused = @ \/ over \/ ~allowed]
    /\ UNCHANGED <<queueVars, processVars>>

\* A request after one more subrequest.
Counted(x, refuse) ==
    [x EXCEPT !.count = @ + 1, !.blocked = @ \/ refuse, !.refused = @ \/ refuse]

\* The intercept task refuses a subrequest over the limit, or to a URL that
\* is not allowed.  The model counts up to one more than the limit.
Intercept(r, allowed) ==
    /\ req[r].pc \in {"load", "content"} /\ req[r].conn = "live"
    /\ req[r].count <= MaxSubrequests
    /\ LET refuse == req[r].count + 1 > MaxSubrequests \/ ~allowed IN
       req' = [req EXCEPT ![r] = Counted(@, refuse)]
    /\ UNCHANGED <<queueVars, processVars>>

\* After a navigation that failed the browser is closed too.
Navigate(r, succeeds) ==
    /\ req[r].pc = "load"
    /\ succeeds => req[r].conn = "live"
    /\ req' = [req EXCEPT ![r].pc = IF succeeds THEN "content" ELSE "close"]
    /\ UNCHANGED <<queueVars, processVars>>

Content(r, html) ==
    /\ req[r].pc = "content" /\ req[r].conn = "live"
    /\ req' = [req EXCEPT ![r] = [@ EXCEPT !.pc = "close", !.html = html]]
    /\ UNCHANGED <<queueVars, processVars>>

\* browser.close is sent to the browser r is connected to, its own or not.
Close(r, ends) ==
    /\ req[r].pc = "close"
    /\ LET closed == [req EXCEPT ![r].pc = "kill"] IN
       IF ends /\ req[r].conn = "live"
       THEN server' = Nobody /\ req' = Cut(closed)
       ELSE UNCHANGED server /\ req' = closed
    /\ UNCHANGED <<queueVars, starting, strays, lost>>

\* Once the child is dead the page is judged, and shown if it is all right;
\* the timeout, or a client that goes, comes too late to save the child.
Kill(r, inTime) ==
    /\ req[r].pc = "kill"
    /\ KillOwn(r, IF inTime /\ req[r].html = "fits" /\ ~req[r].blocked
                  THEN [req EXCEPT ![r] = [Idle EXCEPT !.shown = TRUE, !.refused = req[r].refused]]
                  ELSE Answered(r))
    /\ UNCHANGED <<queueVars, strays, lost>>

\* new_page, event_listener and content return by `?`, and the timeout drops
\* the render anywhere: the process is let go, unless it is being killed.
Lose(r) ==
    /\ req[r].pc \in Rendering \ {"kill"}
    /\ LetGo(r)
    /\ Answer(r)
    /\ UNCHANGED queueVars

\* A queue without r, which is in it at most once.
Others(q, r) ==
    IF \E i \in 1 .. Len(q) : q[i] = r
    THEN LET i == CHOOSE i \in 1 .. Len(q) : q[i] = r
         IN  SubSeq(q, 1, i - 1) \o SubSeq(q, i + 1, Len(q))
    ELSE q

\* The gateway gives up and hyper drops the handler.
Drop(r) ==
    /\ req[r].pc \notin {"idle", "kill"}
    /\ req' = [req EXCEPT ![r] = Idle]
    /\ queue' = Others(queue, r) /\ renderQueue' = Others(renderQueue, r)
    /\ IF req[r].pc \in Rendering THEN LetGo(r) ELSE UNCHANGED processVars

Handle(r) ==
    \/ \E valid \in BOOLEAN, resolved \in SUBSET Addresses : Admit(r, valid, resolved)
    \/ AttemptFails(r) \/ Refuse(r)
    \/ \E page \in Page : Fetched(r, page)
    \/ \E spawned \in BOOLEAN : StartRender(r, spawned)
    \/ Connect(r) \/ ConnectFails(r) \/ OpenPage(r)
    \/ \E succeeds \in BOOLEAN : Navigate(r, succeeds)
    \/ \E html \in {"fits", "long"} : Content(r, html)
    \/ \E ends \in BOOLEAN : Close(r, ends)
    \/ \E inTime \in BOOLEAN : Kill(r, inTime)
    \/ Lose(r)

Process == (\E r \in Requests : Bind(r)) \/ StrayBinds \/ ServerEnds

Next ==
    \/ \E r \in Requests :
          \/ Arrive(r) \/ Handle(r) \/ Drop(r)
          \/ \E allowed \in BOOLEAN : Intercept(r, allowed)
    \/ Process

Spec == Init /\ [][Next]_vars

\* Every step of a handler ends: an attempt by the client's timeout, a
\* render by its own; a process that was started does bind, or exits.
FairSpec == Spec /\ (\A r \in Requests : WF_vars(Handle(r))) /\ WF_vars(StrayBinds)

----------------------------------------------------------------------------
\* Every process that lives on without its render was let go of by one that
\* timed out, returned early or was dropped: the ways out of
\* render_html_inner that clean up leave nothing behind.
StraysAreLost ==
    /\ strays > 0 \/ server = Stray => lost
    /\ starting \cup ({server} \cap Requests) \subseteq At(Rendering)

\* One render at a time, and none that let go of its process: then a render
\* is connected to the process it has started, and to no other.
OwnBrowser ==
    RenderConcurrency = 1 /\ ~lost
        => \A r \in Requests : req[r].conn = "live" => server = r

\* A page is never shown as rendered when one of its subrequests was refused.
RefusedIsNotShown ==
    \A r \in Requests : req[r].shown => ~req[r].refused

\* A request that waits for a permit does not wait for ever.
Admitted == \A r \in Requests : req[r].pc = "queued" ~> req[r].pc # "queued"
=============================================================================
