--------------------------- MODULE GatewaySession ---------------------------
(***************************************************************************)
(* The sessions of the gateway and the browser that uses them: the session *)
(* table in Postgres, the cookie and the token the browser keeps, and the  *)
(* calls of its pages.  A call makes sure of a token, is sent with the     *)
(* cookie of that moment, is validated by the gateway, which extends the   *)
(* session by its time to live, and is sent again once if it is a GET that *)
(* was refused.  Calls overlap; the gateway's statements are steps.        *)
(*                                                                         *)
(* A nonce is named by the session it was issued with, a proof by the      *)
(* nonce it signs: verify_csrf_proof reads nothing else.  A stored nonce   *)
(* is never empty, so validate_session never reads the CSRF table; the     *)
(* statement that writes it is a chance to fail after the session is       *)
(* written.  A handler that fails and one that TimeoutLayer drops look     *)
(* alike to the browser; no handler lasts longer than RequestTimeout.      *)
(***************************************************************************)
EXTENDS Naturals

CONSTANTS
    Calls,           \* calls that may be in flight together
    Kinds,           \* kinds of call: a subset of {"GET", "POST", "BARE"}
    Sessions,        \* session identifiers, and their nonces
    NoSession,       \* no cookie, no token
    Ttl,             \* SESSION_MAX_AGE_SECONDS, of the record and the cookie
    RequestTimeout,  \* UPSTREAM_TIMEOUT_MS: TimeoutLayer drops the handler
    Travel,          \* longest way of a request or a response
    Margin,          \* a token is used only when more than this is left
    MaxClock,        \* bound of the model: the last moment
    MaxCalls,        \* bound of the model: calls in all
    MaxFailures      \* bound of the model: requests that fail

ASSUME SessionConstants ==
    /\ NoSession \notin Sessions
    /\ Kinds \subseteq {"GET", "POST", "BARE"}
    /\ Ttl \in Nat \ {0}
    /\ RequestTimeout \in Nat \ {0}
    /\ Travel \in Nat /\ Margin \in Nat /\ MaxClock \in Nat
    /\ MaxCalls \in Nat /\ MaxFailures \in Nat

\* By default a session lasts a month, a request 10 s at most, and the browser
\* leaves a margin of 30 s: enough if a message travels 5 s at most, which the
\* code does not bound.
ASSUME SessionTimes ==
    /\ Ttl >= 3 * (RequestTimeout + Travel)
    /\ Margin + 1 >= 2 * (RequestTimeout + Travel)

VARIABLES
    clock,
    store,     \* gateway_sessions: the nonce and expiry of each session
    cookie,    \* the browser's cookie and its Max-Age
    token,     \* the token in local storage
    call,      \* the calls
    promised,  \* history: the latest expiry a session was answered with
    begun,     \* how many calls have begun
    failures   \* how many requests have failed

gatewayVars == <<store, promised>>
boundVars == <<begun, failures>>
browserVars == <<cookie, token>>
vars == <<clock, store, cookie, token, call, promised, begun, failures>>

Ids == Sessions \cup {NoSession}
Record == [nonce: Ids, expires: Nat]
NoRecord == [nonce |-> NoSession, expires |-> 0]
NoCookie == [id |-> NoSession, expires |-> 0]
NoCall == [pc |-> "idle", kind |-> "GET", sure |-> FALSE, retry |-> FALSE,
           tok |-> NoSession, sid |-> NoSession, rec |-> NoRecord,
           due |-> 0, status |-> 0]

PCs == {"idle", "ask", "issue", "issued", "decode", "notIssued",
        "sent", "check", "remove", "persist", "answered"}

\* How it was answered, once it was.
Statuses == {0, 200, 401, 403, 500}

\* Where a call is, whether it is sure of its token, and what it carries: the
\* nonce and session it was sent with, and the record its handler holds.
CallRecord == [pc: PCs, kind: Kinds \cup {"GET"}, sure: BOOLEAN, retry: BOOLEAN,
               tok: Ids, sid: Ids, rec: Record, due: Nat, status: Statuses]

TypeOK ==
    /\ clock \in Nat
    /\ store \in [Sessions -> Record]
    /\ cookie \in [id: Ids, expires: Nat]
    /\ token \in Record
    /\ call \in [Calls -> CallRecord]
    /\ promised \in [Sessions -> Nat]
    /\ begun \in 0 .. MaxCalls /\ failures \in 0 .. MaxFailures

Init ==
    /\ clock = 1
    /\ store = [s \in Sessions |-> NoRecord]
    /\ cookie = NoCookie
    /\ token = NoRecord
    /\ call = [c \in Calls |-> NoCall]
    /\ promised = [s \in Sessions |-> 0]
    /\ begun = 0 /\ failures = 0

\* An identifier that left no trace stands for a new random one.
Fresh(s) ==
    /\ store[s] = NoRecord /\ cookie.id # s /\ token.nonce # s
    /\ \A t \in Sessions : store[t].nonce # s
    /\ \A c \in Calls : s \notin {call[c].sid, call[c].tok, call[c].rec.nonce}

----------------------------------------------------------------------------
\* The browser: gateway_session.rs

IsValid(t) == t.nonce # NoSession /\ t.expires > clock + Margin

\* The cookie of this moment goes with the request.
LiveCookie == IF cookie.expires > clock THEN cookie.id ELSE NoSession

Send(c, r, nonce, sure) ==
    call' = [call EXCEPT ![c] = [r EXCEPT !.pc = "sent", !.sure = sure, !.sid = LiveCookie,
                                          !.tok = IF r.kind = "POST" THEN nonce ELSE NoSession,
                                          !.due = clock + Travel]]

\* ensure_gateway_session: a valid token is used at once, any other is
\* cleared and a new session asked for.
Ensure(c, r, t) ==
    IF IsValid(t)
    THEN token' = t /\ Send(c, r, t.nonce, TRUE)
    ELSE /\ token' = NoRecord
         /\ call' = [call EXCEPT ![c] = [r EXCEPT !.pc = "ask", !.due = clock + Travel]]

\* A BARE call is another client's unsafe call, without the CSRF headers.
Begin(c, k) ==
    /\ call[c].pc = "idle"
    /\ begun < MaxCalls /\ begun' = begun + 1
    /\ IF k = "BARE"
       THEN Send(c, [NoCall EXCEPT !.kind = k], NoSession, FALSE) /\ UNCHANGED token
       ELSE Ensure(c, [NoCall EXCEPT !.kind = k], token)
    /\ UNCHANGED <<clock, cookie, gatewayVars, failures>>

\* The headers of the answer set the cookie; the body is decoded later.
SetCookie(c) ==
    /\ call[c].pc = "issued"
    /\ cookie' = [id |-> call[c].sid, expires |-> clock + Ttl]
    /\ call' = [call EXCEPT ![c].pc = "decode"]
    /\ UNCHANGED <<clock, token, gatewayVars, boundVars>>

Decode(c) ==
    /\ call[c].pc = "decode"
    /\ token' = call[c].rec
    /\ Send(c, [call[c] EXCEPT !.rec = NoRecord], call[c].rec.nonce, TRUE)
    /\ UNCHANGED <<clock, cookie, gatewayVars, boundVars>>

\* Without a session a GET is sent all the same; another call fails.
NotIssued(c) ==
    /\ call[c].pc = "notIssued"
    /\ IF call[c].kind = "GET"
       THEN Send(c, call[c], NoSession, FALSE)
       ELSE call' = [call EXCEPT ![c] = NoCall]
    /\ UNCHANGED <<clock, browserVars, gatewayVars, boundVars>>

Refused(c) == call[c].status \in {401, 403}

\* A refusal clears the token; a GET asks for a session and is sent again.
Receive(c) ==
    /\ call[c].pc = "answered"
    /\ IF Refused(c) /\ call[c].kind = "GET" /\ ~call[c].retry
       THEN Ensure(c, [NoCall EXCEPT !.retry = TRUE], NoRecord)
       ELSE /\ token' = IF Refused(c) /\ call[c].kind # "BARE" THEN NoRecord ELSE token
            /\ call' = [call EXCEPT ![c] = NoCall]
    /\ UNCHANGED <<clock, cookie, gatewayVars, boundVars>>

----------------------------------------------------------------------------
\* The gateway: session.rs

Answer(c, status) ==
    call' = [call EXCEPT ![c] = [@ EXCEPT !.pc = "answered", !.status = status, !.sid = NoSession,
                                          !.tok = NoSession, !.rec = NoRecord,
                                          !.due = clock + Travel]]

\* issue_session fixes nonce and expiry before its first statement.
BeginIssue(c, s) ==
    /\ call[c].pc = "ask"
    /\ Fresh(s)
    /\ call' = [call EXCEPT ![c] = [@ EXCEPT !.pc = "issue", !.sid = s, !.due = clock + RequestTimeout,
                                             !.rec = [nonce |-> s, expires |-> clock + Ttl]]]
    /\ promised' = [promised EXCEPT ![s] = 0]
    /\ UNCHANGED <<clock, store, browserVars, boundVars>>

Issue(c) ==
    /\ call[c].pc = "issue"
    /\ store' = [store EXCEPT ![call[c].sid] = call[c].rec]
    /\ promised' = [promised EXCEPT ![call[c].sid] = call[c].rec.expires]
    /\ call' = [call EXCEPT ![c] = [@ EXCEPT !.pc = "issued", !.due = clock + Travel]]
    /\ UNCHANGED <<clock, browserVars, boundVars>>

\* The request may fail before its first statement, and after it.
IssueFails(c) ==
    /\ call[c].pc \in {"ask", "issue"}
    /\ \/ UNCHANGED store
       \/ /\ call[c].pc = "issue"
          /\ store' = [store EXCEPT ![call[c].sid] = call[c].rec]
    /\ call' = [call EXCEPT ![c] = [@ EXCEPT !.pc = "notIssued", !.sid = NoSession, !.rec = NoRecord,
                                             !.due = clock + Travel]]
    /\ failures < MaxFailures /\ failures' = failures + 1
    /\ UNCHANGED <<clock, promised, browserVars, begun>>

\* The query of SessionStore::get leaves out rows that have expired.
Load(c) ==
    /\ call[c].pc = "sent"
    /\ LET s == call[c].sid IN
       IF s # NoSession /\ store[s].expires > clock
       THEN call' = [call EXCEPT ![c] = [@ EXCEPT !.pc = "check", !.rec = store[s],
                                                  !.due = clock + RequestTimeout]]
       ELSE Answer(c, 401)
    /\ UNCHANGED <<clock, browserVars, gatewayVars, boundVars>>

LoadFails(c) ==
    /\ call[c].pc = "sent" /\ call[c].sid # NoSession
    /\ Answer(c, 500)
    /\ failures < MaxFailures /\ failures' = failures + 1
    /\ UNCHANGED <<clock, store, promised, browserVars, begun>>

\* Mutant: the session is extended by the timeout of a request.
ExtendBriefly(c, nonce) ==
    call' = [call EXCEPT ![c] = [@ EXCEPT !.pc = "persist",
                                          !.rec = [nonce |-> nonce, expires |-> clock + RequestTimeout]]]

\* A verified proof rebinds the session to the nonce it signs, whatever
\* nonce is stored; without one the expiry that was read is compared with
\* the clock of now, and an unsafe method needs the CSRF headers.
Extend(c, nonce) ==
    call' = [call EXCEPT ![c] = [@ EXCEPT !.pc = "persist",
                                          !.rec = [nonce |-> nonce, expires |-> clock + Ttl]]]

\* Mutant: a proof has to sign the nonce that is stored.
CheckWithoutRebind(c) ==
    /\ call[c].pc = "check"
    /\ IF call[c].tok = NoSession /\ clock > call[c].rec.expires
       THEN call' = [call EXCEPT ![c].pc = "remove"]
       ELSE IF call[c].kind = "BARE" \/ call[c].tok \notin {NoSession, call[c].rec.nonce}
            THEN Answer(c, 403)
            ELSE Extend(c, call[c].rec.nonce)
    /\ UNCHANGED <<clock, browserVars, gatewayVars, boundVars>>

\* Mutant: a request without the CSRF headers ends the session.
CheckEndsSession(c) ==
    /\ call[c].pc = "check"
    /\ LET nonce == IF call[c].tok # NoSession THEN call[c].tok ELSE call[c].rec.nonce IN
       IF call[c].tok = NoSession /\ (clock > call[c].rec.expires \/ call[c].kind = "BARE")
       THEN call' = [call EXCEPT ![c].pc = "remove"]
       ELSE Extend(c, nonce)
    /\ UNCHANGED <<clock, browserVars, gatewayVars, boundVars>>

Check(c) ==
    /\ call[c].pc = "check"
    /\ LET nonce == IF call[c].tok # NoSession THEN call[c].tok ELSE call[c].rec.nonce IN
       IF call[c].tok = NoSession /\ clock > call[c].rec.expires
       THEN call' = [call EXCEPT ![c].pc = "remove"]
       ELSE IF call[c].kind = "BARE" THEN Answer(c, 403) ELSE Extend(c, nonce)
    /\ UNCHANGED <<clock, browserVars, gatewayVars, boundVars>>

\* The failure of the deletion is ignored.
Remove(c) ==
    /\ call[c].pc = "remove"
    /\ \/ store' = [store EXCEPT ![call[c].sid] = NoRecord]
       \/ UNCHANGED store
    /\ Answer(c, 401)
    /\ UNCHANGED <<clock, promised, browserVars, boundVars>>

\* Mutant: ON CONFLICT DO NOTHING.
PersistInsertsOnly(c) ==
    /\ call[c].pc = "persist"
    /\ store' = [store EXCEPT ![call[c].sid] = IF @ = NoRecord THEN call[c].rec ELSE @]
    /\ promised' = [promised EXCEPT ![call[c].sid] =
                        IF @ > call[c].rec.expires THEN @ ELSE call[c].rec.expires]
    /\ Answer(c, 200)
    /\ UNCHANGED <<clock, browserVars, boundVars>>

\* An upsert: it brings back a row another request has deleted.
Persist(c) ==
    /\ call[c].pc = "persist"
    /\ store' = [store EXCEPT ![call[c].sid] = call[c].rec]
    /\ promised' = [promised EXCEPT ![call[c].sid] =
                        IF @ > call[c].rec.expires THEN @ ELSE call[c].rec.expires]
    /\ Answer(c, 200)
    /\ UNCHANGED <<clock, browserVars, boundVars>>

\* The handler fails, or is dropped, before or after the session is stored.
Fails(c) ==
    /\ call[c].pc \in {"check", "remove", "persist"}
    /\ \/ UNCHANGED store
       \/ /\ call[c].pc = "persist"
          /\ store' = [store EXCEPT ![call[c].sid] = call[c].rec]
    /\ Answer(c, 500)
    /\ failures < MaxFailures /\ failures' = failures + 1
    /\ UNCHANGED <<clock, promised, browserVars, begun>>

\* spawn_cleanup, every ten minutes.
Cleanup ==
    /\ \E s \in Sessions : store[s] # NoRecord /\ store[s].expires <= clock
    /\ store' = [s \in Sessions |-> IF store[s].expires <= clock THEN NoRecord ELSE store[s]]
    /\ UNCHANGED <<clock, promised, browserVars, call, boundVars>>

Tick ==
    /\ clock < MaxClock
    /\ \A c \in Calls : call[c].pc # "idle" => clock < call[c].due
    /\ clock' = clock + 1
    /\ UNCHANGED <<gatewayVars, browserVars, call, boundVars>>

CallStep(c) ==
    \/ \E k \in Kinds : Begin(c, k)
    \/ SetCookie(c) \/ Decode(c) \/ NotIssued(c) \/ Receive(c)
    \/ \E s \in Sessions : BeginIssue(c, s)
    \/ Issue(c) \/ IssueFails(c) \/ Load(c) \/ LoadFails(c)
    \/ Check(c) \/ Remove(c) \/ Persist(c) \/ Fails(c)

Next == (\E c \in Calls : CallStep(c)) \/ Cleanup \/ Tick

Spec == Init /\ [][Next]_vars

----------------------------------------------------------------------------
\* A session in the table lasts as long as any request was told, less at
\* most one request timeout, however the writes of overlapping requests
\* are ordered (validate_session, persist_session).
SlidingExpiry ==
    \A s \in Sessions :
        store[s] # NoRecord => store[s].expires + RequestTimeout >= promised[s]

\* A session is deleted only when its row has expired, or when it was
\* extended less than two request timeouts ago: a request that read the
\* old expiry deletes what another one has extended meanwhile.
DeletedWhenExpired ==
    [][\A s \in Sessions :
          store[s] # NoRecord /\ store'[s] = NoRecord
              => store[s].expires <= clock \/ store[s].expires + 2 * RequestTimeout >= clock + Ttl]_vars

\* While the token in local storage counts as valid, the browser's cookie
\* is live and its session is in the table: overlapping session requests
\* may leave the cookie of one and the token of another.
TokenHasSession ==
    IsValid(token) => LiveCookie # NoSession /\ store[cookie.id].expires > clock

\* A call that was sure of its token is never refused, and so the retry of
\* a GET that obtained a session is answered.
SureIsNotRefused ==
    \A c \in Calls : call[c].pc = "answered" /\ call[c].sure => ~Refused(c)
=============================================================================
