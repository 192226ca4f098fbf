---------------------------- MODULE ContactForm ----------------------------
(***************************************************************************)
(* The contact form of api-gateway-service (contact.rs): a request that    *)
(* passed the checks of its own content is counted against its address,    *)
(* compared with the messages of late, verified by Turnstile and mailed.   *)
(* Each database call is one statement; any number of requests, of any     *)
(* number of gateways, are between any two of them.                        *)
(***************************************************************************)
EXTENDS Integers, Sequences, FiniteSets

CONSTANTS
    Slots,          \* request slots
    Ips,            \* client addresses
    Messages,       \* fingerprints of message and address
    Tokens,         \* Turnstile tokens
    None,           \* no address, no message, no token
    MaxPerIp,       \* CONTACT_RATE_LIMIT_MAX
    Window,         \* CONTACT_RATE_LIMIT_WINDOW_SECONDS
    DedupeWindow,   \* CONTACT_DEDUPE_WINDOW_SECONDS
    Turnstile,      \* whether Turnstile is configured
    MaxRequests,    \* bound: requests in all
    MaxTime         \* bound: the time at which the clock stops

ASSUME NoneAssumption == None \notin Ips \cup Messages \cup Tokens
ASSUME NumbersAssumption ==
    /\ MaxPerIp \in Nat
    /\ Window \in Nat
    /\ DedupeWindow \in Nat
    /\ MaxRequests \in Nat
    /\ MaxTime \in Nat
ASSUME TurnstileAssumption == Turnstile \in BOOLEAN

VARIABLES
    clock,      \* the database's clock
    limits,     \* gateway_contact_rate_limit: from addresses to rows
    dedupe,     \* gateway_contact_dedupe: from fingerprints to expires_at
    burned,     \* the tokens Turnstile has verified
    req,        \* the request of each slot
    \* not in the code
    arrivals,   \* how many requests have arrived
    hits,       \* when the requests of each address were counted
    passes,     \* when each fingerprint was recorded
    waved,      \* how often a fingerprint passed without being recorded
    sent        \* how often each message was mailed

vars == <<clock, limits, dedupe, burned, req, arrivals, hits, passes, waved, sent>>

-----------------------------------------------------------------------------
(* Requests *)

Working == {"limit", "dedupe", "turnstile", "mail"}

Refusals == {"rate_limited", "duplicate", "turnstile_failed", "email_failed"}

\* asked: when the running statement was sent; now: the NOW() of the one that
\* refused the request; count: what counting it returned.
Request == [pc    : {"idle", "received"} \cup Working \cup Refusals,
            ip    : Ips \cup {None},
            msg   : Messages \cup {None},
            token : Tokens \cup {None},
            asked : Nat,
            now   : Nat,
            count : Nat]

Idle == [pc |-> "idle", ip |-> None, msg |-> None, token |-> None,
         asked |-> 0, now |-> 0, count |-> 0]

Init ==
    /\ clock = 0
    /\ limits = [ip \in {} |-> 0]
    /\ dedupe = [msg \in {} |-> 0]
    /\ burned = {}
    /\ req = [r \in Slots |-> Idle]
    /\ arrivals = 0
    /\ hits = [ip \in Ips |-> <<>>]
    /\ passes = [msg \in Messages |-> <<>>]
    /\ waved = [msg \in Messages |-> 0]
    /\ sent = [msg \in Messages |-> 0]

Goto(r, pc) ==
    req' = [req EXCEPT ![r].pc = pc,
                       ![r].asked = IF pc \in {"limit", "dedupe"} THEN clock ELSE 0]

End(r, pc) == req' = [req EXCEPT ![r] = [Idle EXCEPT !.pc = pc]]

\* A statement runs at the server some time after it was sent and, waiting for
\* the row, may take effect later still: NOW() is in between.
StatementTimes(r) == req[r].asked .. clock

\* A request that passed the checks of its session and its content.  Those that
\* do not pass change nothing here.
Arrive(r, ip, msg, token) ==
    /\ req[r].pc \notin Working
    /\ arrivals < MaxRequests
    /\ arrivals' = arrivals + 1
    /\ Turnstile <=> token # None
    /\ req' = [req EXCEPT ![r] =
          [pc |-> IF ip = None THEN "dedupe" ELSE "limit", ip |-> ip, msg |-> msg,
           token |-> token, asked |-> clock, now |-> 0, count |-> 0]]
    /\ UNCHANGED <<clock, limits, dedupe, burned, hits, passes, waved, sent>>

-----------------------------------------------------------------------------
(* check_rate_limit *)

\* Mutant: every request begins a new window.
CountedAnew(ip, now) ==
    IF ip \in DOMAIN limits /\ limits[ip].expires > now
    THEN [count |-> limits[ip].count + 1, expires |-> now + Window]
    ELSE [count |-> 1, expires |-> now + Window]

\* The row of ip once the statement has counted it.
Counted(ip, now) ==
    IF ip \in DOMAIN limits /\ limits[ip].expires > now
    THEN [limits[ip] EXCEPT !.count = @ + 1]
    ELSE [count |-> 1, expires |-> now + Window]

\* The column is INTEGER, which does not decode as i64: fetch_one fails when the
\* row has been written already, and the request passes as if the store were
\* unavailable.
CountDecodes == FALSE

CountRequest(r) ==
    LET ip == req[r].ip IN
    /\ req[r].pc = "limit"
    /\ \E now \in StatementTimes(r) :
          LET row == Counted(ip, now) IN
          /\ limits' = [i \in DOMAIN limits \cup {ip} |->
                            IF i = ip THEN row ELSE limits[i]]
          /\ hits' = [hits EXCEPT ![ip] = Append(@, now)]
          /\ req' = [req EXCEPT
                ![r].pc = IF CountDecodes /\ row.count > MaxPerIp
                          THEN "rate_limited" ELSE "dedupe",
                ![r].asked = clock, ![r].count = row.count]
    /\ UNCHANGED <<clock, dedupe, burned, arrivals, passes, waved, sent>>

CountUnavailable(r) ==
    /\ req[r].pc = "limit"
    /\ Goto(r, "dedupe")
    /\ UNCHANGED <<clock, limits, dedupe, burned, arrivals, hits, passes, waved, sent>>

-----------------------------------------------------------------------------
(* check_duplicate *)

\* Mutant: the upsert replaces a record that is not over.
RecordReplacing(r) ==
    LET msg == req[r].msg IN
    /\ req[r].pc = "dedupe"
    /\ \E now \in StatementTimes(r) :
          /\ dedupe' = [m \in DOMAIN dedupe \cup {msg} |->
                            IF m = msg THEN now + DedupeWindow ELSE dedupe[m]]
          /\ passes' = [passes EXCEPT ![msg] = Append(@, now)]
          /\ req' = [req EXCEPT ![r].pc = IF Turnstile THEN "turnstile" ELSE "mail",
                                ![r].asked = 0, ![r].now = 0]
    /\ UNCHANGED <<clock, limits, burned, arrivals, hits, waved, sent>>

\* The fingerprint is recorded, or its record was over.  (The row returned does
\* not decode either; the error passes the request as the row would.)
Record(r) ==
    LET msg == req[r].msg IN
    /\ req[r].pc = "dedupe"
    /\ \E now \in StatementTimes(r) :
          /\ msg \in DOMAIN dedupe => dedupe[msg] <= now
          /\ dedupe' = [m \in DOMAIN dedupe \cup {msg} |->
                            IF m = msg THEN now + DedupeWindow ELSE dedupe[m]]
          /\ passes' = [passes EXCEPT ![msg] = Append(@, now)]
          /\ req' = [req EXCEPT ![r].pc = IF Turnstile THEN "turnstile" ELSE "mail",
                                ![r].asked = 0, ![r].now = 0]
    /\ UNCHANGED <<clock, limits, burned, arrivals, hits, waved, sent>>

\* Mutant: a duplicate prolongs the record.
RefuseDuplicateProlonging(r) ==
    LET msg == req[r].msg IN
    /\ req[r].pc = "dedupe"
    /\ \E now \in StatementTimes(r) :
          /\ msg \in DOMAIN dedupe
          /\ dedupe[msg] > now
          /\ dedupe' = [dedupe EXCEPT ![msg] = now + DedupeWindow]
          /\ req' = [req EXCEPT ![r].pc = "duplicate", ![r].asked = 0, ![r].now = now]
    /\ UNCHANGED <<clock, limits, burned, arrivals, hits, passes, waved, sent>>

RefuseDuplicate(r) ==
    LET msg == req[r].msg IN
    /\ req[r].pc = "dedupe"
    /\ \E now \in StatementTimes(r) :
          /\ msg \in DOMAIN dedupe
          /\ dedupe[msg] > now
          /\ req' = [req EXCEPT ![r].pc = "duplicate", ![r].asked = 0, ![r].now = now]
    /\ UNCHANGED <<clock, limits, dedupe, burned, arrivals, hits, passes, waved, sent>>

RecordUnavailable(r) ==
    /\ req[r].pc = "dedupe"
    /\ waved' = [waved EXCEPT ![req[r].msg] = @ + 1]
    /\ Goto(r, IF Turnstile THEN "turnstile" ELSE "mail")
    /\ UNCHANGED <<clock, limits, dedupe, burned, arrivals, hits, passes, sent>>

-----------------------------------------------------------------------------
(* verify_turnstile, send_contact_email *)

\* Turnstile accepts a token once.
Verify(r) ==
    /\ req[r].pc = "turnstile"
    /\ req[r].token \notin burned
    /\ burned' = burned \cup {req[r].token}
    /\ Goto(r, "mail")
    /\ UNCHANGED <<clock, limits, dedupe, arrivals, hits, passes, waved, sent>>

\* The token was used before, or the call fails, before or after Turnstile
\* accepted the token.
VerifyFails(r) ==
    /\ req[r].pc = "turnstile"
    /\ burned' \in {burned, burned \cup {req[r].token}}
    /\ End(r, "turnstile_failed")
    /\ UNCHANGED <<clock, limits, dedupe, arrivals, hits, passes, waved, sent>>

Mail(r) ==
    /\ req[r].pc = "mail"
    /\ sent' = [sent EXCEPT ![req[r].msg] = @ + 1]
    /\ End(r, "received")
    /\ UNCHANGED <<clock, limits, dedupe, burned, arrivals, hits, passes, waved>>

\* Mutant: a mail that fails is tried again.
MailFailsRetrying(r) ==
    /\ req[r].pc = "mail"
    /\ sent[req[r].msg] < MaxRequests
    /\ \E mailed \in 0 .. 1 : sent' = [sent EXCEPT ![req[r].msg] = @ + mailed]
    /\ Goto(r, "mail")
    /\ UNCHANGED <<clock, limits, dedupe, burned, arrivals, hits, passes, waved>>

\* The mail server fails, before or after it accepted the mail.
MailFails(r) ==
    /\ req[r].pc = "mail"
    /\ \E mailed \in 0 .. 1 : sent' = [sent EXCEPT ![req[r].msg] = @ + mailed]
    /\ End(r, "email_failed")
    /\ UNCHANGED <<clock, limits, dedupe, burned, arrivals, hits, passes, waved>>

\* The client leaves, or the gateway dies, at any await.
Drop(r) ==
    /\ req[r].pc \in Working
    /\ End(r, "idle")
    /\ UNCHANGED <<clock, limits, dedupe, burned, arrivals, hits, passes, waved, sent>>

Tick ==
    /\ clock < MaxTime
    /\ clock' = clock + 1
    /\ UNCHANGED <<limits, dedupe, burned, req, arrivals, hits, passes, waved, sent>>

Step(r) ==
    \/ \E ip \in Ips \cup {None}, msg \in Messages, token \in Tokens \cup {None} :
          Arrive(r, ip, msg, token)
    \/ CountRequest(r)
    \/ CountUnavailable(r)
    \/ Record(r)
    \/ RefuseDuplicate(r)
    \/ RecordUnavailable(r)
    \/ Verify(r)
    \/ VerifyFails(r)
    \/ Mail(r)
    \/ MailFails(r)
    \/ Drop(r)

Next == Tick \/ \E r \in Slots : Step(r)

Spec == Init /\ [][Next]_vars

-----------------------------------------------------------------------------
(* Properties *)

TypeOK ==
    /\ clock \in Nat
    /\ DOMAIN limits \subseteq Ips
    /\ \A ip \in DOMAIN limits : limits[ip] \in [count : Nat, expires : Nat]
    /\ DOMAIN dedupe \subseteq Messages
    /\ \A msg \in DOMAIN dedupe : dedupe[msg] \in Nat
    /\ burned \subseteq Tokens
    /\ req \in [Slots -> Request]
    /\ arrivals \in Nat
    /\ hits \in [Ips -> Seq(Nat)]
    /\ passes \in [Messages -> Seq(Nat)]
    /\ waved \in [Messages -> Nat]
    /\ sent \in [Messages -> Nat]

\* The row of an address counts the requests of one fixed window: the first of
\* them began it, and none came when it was over.  Concurrent requests count
\* once each, whatever the order in which their statements take effect.
CountsTheWindow ==
    \A ip \in DOMAIN limits :
        LET first == Len(hits[ip]) - limits[ip].count + 1 IN
            /\ first \in DOMAIN hits[ip]
            /\ limits[ip].expires = hits[ip][first] + Window
            /\ \A i \in first + 1 .. Len(hits[ip]) : hits[ip][i] < limits[ip].expires

\* A message is recorded at most once per window, however many requests carry
\* it at the same time.
RecordedOncePerWindow ==
    \A msg \in Messages : \A i, j \in DOMAIN passes[msg] :
        i < j => passes[msg][j] >= passes[msg][i] + DedupeWindow

\* A request is refused as a duplicate only within a window of a request that
\* was let through: refusals do not prolong it, and a later attempt passes.
DuplicateIsFresh ==
    \A r \in Slots : req[r].pc = "duplicate" =>
        \E i \in DOMAIN passes[req[r].msg] :
            req[r].now < passes[req[r].msg][i] + DedupeWindow

\* A message is mailed at most once for every time it was let through, errors
\* of the mail server included.
MailedOnce ==
    \A msg \in Messages : sent[msg] <= Len(passes[msg]) + waved[msg]

\* docs.rs: "Rate limit exceeded - too many requests from this IP".  A request
\* above its address's limit is refused.
LimitIsEnforced ==
    \A r \in Slots : req[r].pc \in {"dedupe", "turnstile", "mail"} =>
        req[r].count <= MaxPerIp
=============================================================================
