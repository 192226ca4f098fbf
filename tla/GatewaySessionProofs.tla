------------------------ MODULE GatewaySessionProofs ------------------------
(***************************************************************************)
(* What holds of the gateway's sessions for any number of calls and        *)
(* sessions, and any times that relate as the defaults of the code do.     *)
(***************************************************************************)
EXTENDS GatewaySession, TLAPS

-----------------------------------------------------------------------------
(* Types *)

LEMMA InitTypes == Init => TypeOK
BY SessionConstants DEF Init, TypeOK, Ids, Record, NoRecord, NoCookie, NoCall, CallRecord, PCs, Statuses

LEMMA NoRecordTypes == NoRecord \in Record /\ NoSession \in Ids /\ NoCall \in CallRecord
BY DEF NoRecord, Record, Ids, NoCall, CallRecord, PCs, Statuses

LEMMA Labels ==
  /\ "idle" \in PCs /\ "ask" \in PCs /\ "issue" \in PCs /\ "issued" \in PCs
  /\ "decode" \in PCs /\ "notIssued" \in PCs /\ "sent" \in PCs /\ "check" \in PCs
  /\ "remove" \in PCs /\ "persist" \in PCs /\ "answered" \in PCs
  /\ 200 \in Statuses /\ 401 \in Statuses /\ 403 \in Statuses /\ 500 \in Statuses
BY DEF PCs, Statuses

\* A call keeps its type when a part of it is replaced by one of that type.
LEMMA Parts ==
  /\ \A r \in CallRecord, pc \in PCs : [r EXCEPT !.pc = pc] \in CallRecord
  /\ \A r \in CallRecord, kind \in Kinds : [r EXCEPT !.kind = kind] \in CallRecord
  /\ \A r \in CallRecord, sure \in BOOLEAN : [r EXCEPT !.sure = sure] \in CallRecord
  /\ \A r \in CallRecord, retry \in BOOLEAN : [r EXCEPT !.retry = retry] \in CallRecord
  /\ \A r \in CallRecord, id \in Ids : [r EXCEPT !.tok = id] \in CallRecord
  /\ \A r \in CallRecord, id \in Ids : [r EXCEPT !.sid = id] \in CallRecord
  /\ \A r \in CallRecord, rec \in Record : [r EXCEPT !.rec = rec] \in CallRecord
  /\ \A r \in CallRecord, due \in Nat : [r EXCEPT !.due = due] \in CallRecord
  /\ \A r \in CallRecord, status \in Statuses : [r EXCEPT !.status = status] \in CallRecord
BY DEF CallRecord

LEMMA Fields ==
  \A r \in CallRecord :
      /\ r.pc \in PCs /\ r.tok \in Ids /\ r.sid \in Ids /\ r.due \in Nat
      /\ r.rec \in Record /\ r.rec.nonce \in Ids /\ r.rec.expires \in Nat
BY DEF CallRecord, Record

\* What the browser does keeps the types of its calls and its token.
LEMMA SendTypes ==
  ASSUME TypeOK, NEW c \in Calls, NEW r \in CallRecord, NEW nonce \in Ids, NEW sure \in BOOLEAN,
         Send(c, r, nonce, sure)
  PROVE  call' \in [Calls -> CallRecord]
<1>1. LiveCookie \in Ids /\ clock + Travel \in Nat /\ NoSession \in Ids
  BY SessionConstants DEF LiveCookie, TypeOK, Ids
<1> DEFINE tok == IF r.kind = "POST" THEN nonce ELSE NoSession
<1>0. tok \in Ids
  BY <1>1
<1>2. \A q \in CallRecord :
         /\ [q EXCEPT !.pc = "sent"] \in CallRecord /\ [q EXCEPT !.sure = sure] \in CallRecord
         /\ [q EXCEPT !.sid = LiveCookie] \in CallRecord /\ [q EXCEPT !.tok = tok] \in CallRecord
         /\ [q EXCEPT !.due = clock + Travel] \in CallRecord
  <2> HIDE DEF tok
  <2> QED BY <1>0, <1>1, Labels, Parts
<1>3. [r EXCEPT !.pc = "sent", !.sure = sure, !.sid = LiveCookie,
                !.tok = tok, !.due = clock + Travel] \in CallRecord
  <2> HIDE DEF tok
  <2> QED BY <1>2
<1> QED BY <1>3 DEF Send, TypeOK

LEMMA EnsureTypes ==
  ASSUME TypeOK, NEW c \in Calls, NEW r \in CallRecord, NEW t \in Record, Ensure(c, r, t)
  PROVE  token' \in Record /\ call' \in [Calls -> CallRecord]
<1>1. CASE IsValid(t)
  BY <1>1, SendTypes DEF Ensure, Record
<1>2. CASE ~IsValid(t)
  <2>1. [r EXCEPT !.pc = "ask", !.due = clock + Travel] \in CallRecord
    <3>1. clock + Travel \in Nat
      BY SessionConstants DEF TypeOK
    <3> QED BY <3>1, Labels, Parts
  <2> QED BY <1>2, <2>1, NoRecordTypes DEF Ensure, TypeOK
<1> QED BY <1>1, <1>2

LEMMA AnswerTypes ==
  ASSUME TypeOK, NEW c \in Calls, NEW status \in Statuses, Answer(c, status)
  PROVE  call' \in [Calls -> CallRecord]
<1>0. clock + Travel \in Nat /\ call[c] \in CallRecord
  BY SessionConstants DEF TypeOK
<1>2. \A q \in CallRecord :
         /\ [q EXCEPT !.pc = "answered"] \in CallRecord /\ [q EXCEPT !.status = status] \in CallRecord
         /\ [q EXCEPT !.sid = NoSession] \in CallRecord /\ [q EXCEPT !.tok = NoSession] \in CallRecord
         /\ [q EXCEPT !.rec = NoRecord] \in CallRecord
         /\ [q EXCEPT !.due = clock + Travel] \in CallRecord
  BY <1>0, NoRecordTypes, Labels, Parts
<1>3. [call[c] EXCEPT !.pc = "answered", !.status = status, !.sid = NoSession, !.tok = NoSession,
                      !.rec = NoRecord, !.due = clock + Travel] \in CallRecord
  <2> DEFINE half == [call[c] EXCEPT !.pc = "answered", !.status = status, !.sid = NoSession]
  <2>1. half \in CallRecord
    BY <1>0, <1>2
  <2>2. [half EXCEPT !.tok = NoSession, !.rec = NoRecord, !.due = clock + Travel] \in CallRecord
    <3> HIDE DEF half
    <3> QED BY <1>2, <2>1
  <2> QED BY <2>2
<1> QED BY <1>3 DEF Answer, TypeOK

\* The calls keep their type, step by step.
LEMMA CallTypes ==
  ASSUME TypeOK, NEW c \in Calls, CallStep(c)
  PROVE  call' \in [Calls -> CallRecord]
<1>1. /\ call \in [Calls -> CallRecord] /\ call[c] \in CallRecord /\ call[c].rec \in Record
      /\ clock + Ttl \in Nat /\ clock + RequestTimeout \in Nat /\ clock + Travel \in Nat
  BY SessionConstants, Fields DEF TypeOK
<1>2. /\ call[c].tok \in Ids /\ call[c].sid \in Ids /\ call[c].rec.nonce \in Ids
      /\ token \in Record /\ \A s \in Sessions : s \in Ids /\ store[s] \in Record
  BY <1>1, Fields DEF TypeOK, Ids
<1>3. \A n \in Ids : [nonce |-> n, expires |-> clock + Ttl] \in Record
  BY <1>1 DEF Record
<1>4. ASSUME NEW k \in Kinds, Begin(c, k)
      PROVE  call' \in [Calls -> CallRecord]
  <2>1. [NoCall EXCEPT !.kind = k] \in CallRecord
    BY NoRecordTypes, Parts
  <2>2. CASE k = "BARE"
    BY <1>4, <2>1, <2>2, NoRecordTypes, SendTypes DEF Begin
  <2>3. CASE k # "BARE"
    BY <1>2, <1>4, <2>1, <2>3, EnsureTypes DEF Begin
  <2> QED BY <2>2, <2>3
<1>5. CASE SetCookie(c)
  BY <1>1, <1>5, Labels, Parts DEF SetCookie
<1>6. CASE Decode(c)
  <2>1. [call[c] EXCEPT !.rec = NoRecord] \in CallRecord
    BY <1>1, NoRecordTypes, Parts
  <2> QED BY <1>2, <1>6, <2>1, SendTypes DEF Decode
<1>7. CASE NotIssued(c)
  <2>1. CASE call[c].kind = "GET"
    BY <1>1, <1>7, <2>1, NoRecordTypes, SendTypes DEF NotIssued
  <2>2. CASE call[c].kind # "GET"
    BY <1>1, <1>7, <2>2, NoRecordTypes DEF NotIssued
  <2> QED BY <2>1, <2>2
<1>8. CASE Receive(c)
  <2>1. [NoCall EXCEPT !.retry = TRUE] \in CallRecord
    BY NoRecordTypes, Parts
  <2>2. CASE Refused(c) /\ call[c].kind = "GET" /\ ~call[c].retry
    BY <1>8, <2>1, <2>2, NoRecordTypes, EnsureTypes DEF Receive
  <2>3. CASE ~(Refused(c) /\ call[c].kind = "GET" /\ ~call[c].retry)
    BY <1>1, <1>8, <2>3, NoRecordTypes DEF Receive
  <2> QED BY <2>2, <2>3
<1>9. ASSUME NEW s \in Sessions, BeginIssue(c, s)
      PROVE  call' \in [Calls -> CallRecord]
  <2>1. s \in Ids /\ [nonce |-> s, expires |-> clock + Ttl] \in Record
    BY <1>2, <1>3
  <2> DEFINE new == [nonce |-> s, expires |-> clock + Ttl]
             half == [call[c] EXCEPT !.pc = "issue", !.sid = s]
  <2>a. half \in CallRecord
    BY <1>1, <2>1, Labels, Parts
  <2>b. [half EXCEPT !.due = clock + RequestTimeout, !.rec = new] \in CallRecord
    <3> HIDE DEF half, new
    <3> QED BY <1>1, <2>1, <2>a, Parts DEF new
  <2>2. [call[c] EXCEPT !.pc = "issue", !.sid = s, !.due = clock + RequestTimeout,
                        !.rec = new] \in CallRecord
    BY <2>b
  <2> QED BY <1>1, <1>9, <2>2 DEF BeginIssue
<1>10. CASE Issue(c)
  <2>1. [call[c] EXCEPT !.pc = "issued", !.due = clock + Travel] \in CallRecord
    BY <1>1, Labels, Parts
  <2> QED BY <1>1, <1>10, <2>1 DEF Issue
<1>11. CASE IssueFails(c)
  <2> DEFINE half == [call[c] EXCEPT !.pc = "notIssued", !.sid = NoSession]
  <2>a. half \in CallRecord
    BY <1>1, NoRecordTypes, Labels, Parts
  <2>b. [half EXCEPT !.rec = NoRecord, !.due = clock + Travel] \in CallRecord
    <3> HIDE DEF half
    <3> QED BY <1>1, <2>a, NoRecordTypes, Parts
  <2>1. [call[c] EXCEPT !.pc = "notIssued", !.sid = NoSession, !.rec = NoRecord,
                        !.due = clock + Travel] \in CallRecord
    BY <2>b
  <2> QED BY <1>1, <1>11, <2>1 DEF IssueFails
<1>12. CASE Load(c)
  <2>1. CASE call[c].sid # NoSession /\ store[call[c].sid].expires > clock
    <3>1. store[call[c].sid] \in Record
      BY <1>2, <2>1 DEF Ids
    <3>2. [call[c] EXCEPT !.pc = "check", !.rec = store[call[c].sid],
                          !.due = clock + RequestTimeout] \in CallRecord
      BY <1>1, <3>1, Labels, Parts
    <3> QED BY <1>1, <1>12, <2>1, <3>2 DEF Load
  <2>2. CASE ~(call[c].sid # NoSession /\ store[call[c].sid].expires > clock)
    BY <1>12, <2>2, AnswerTypes, Labels DEF Load
  <2> QED BY <2>1, <2>2
<1>13. CASE Check(c)
  <2>1. ASSUME NEW nonce \in Ids, Extend(c, nonce)
        PROVE  call' \in [Calls -> CallRecord]
    <3>1. [nonce |-> nonce, expires |-> clock + Ttl] \in Record
      BY <1>3
    <3>2. [call[c] EXCEPT !.pc = "persist", !.rec = [nonce |-> nonce, expires |-> clock + Ttl]]
             \in CallRecord
      BY <1>1, <3>1, Labels, Parts
    <3> QED BY <1>1, <2>1, <3>2 DEF Extend
  <2>2. call' = [call EXCEPT ![c].pc = "remove"] => call' \in [Calls -> CallRecord]
    BY <1>1, Labels, Parts
  <2> QED BY <1>2, <1>13, <2>1, <2>2, AnswerTypes, Labels DEF Check
<1>14. CASE LoadFails(c) \/ Remove(c) \/ Persist(c) \/ Fails(c)
  BY <1>14, AnswerTypes, Labels DEF LoadFails, Remove, Persist, Fails
<1> QED BY <1>4, <1>5, <1>6, <1>7, <1>8, <1>9, <1>10, <1>11, <1>12, <1>13, <1>14
        DEF CallStep

\* What a call may do to the rows of the table, whatever else it does.
LEMMA StoreStep ==
  ASSUME TypeOK, NEW c \in Calls, CallStep(c)
  PROVE  /\ clock' = clock
         /\ \/ store' = store
            \/ /\ call[c].pc \in {"issue", "persist"}
               /\ store' = [store EXCEPT ![call[c].sid] = call[c].rec]
            \/ /\ call[c].pc = "remove"
               /\ store' = [store EXCEPT ![call[c].sid] = NoRecord]
<1>1. CASE \/ \E k \in Kinds : Begin(c, k)
           \/ SetCookie(c) \/ Decode(c) \/ NotIssued(c) \/ Receive(c)
           \/ \E s \in Sessions : BeginIssue(c, s)
           \/ Load(c) \/ LoadFails(c) \/ Check(c)
  BY <1>1 DEF Begin, SetCookie, Decode, NotIssued, Receive, BeginIssue, Load, LoadFails, Check,
              gatewayVars
<1>2. CASE Issue(c) \/ IssueFails(c) \/ Remove(c) \/ Persist(c) \/ Fails(c)
  BY <1>2 DEF Issue, IssueFails, Remove, Persist, Fails
<1> QED BY <1>1, <1>2 DEF CallStep

LEMMA TypeStep ==
  ASSUME TypeOK, [Next]_vars
  PROVE  TypeOK'
<1> USE SessionConstants
<1>1. ASSUME NEW c \in Calls, CallStep(c)
      PROVE  TypeOK'
  <2>1. call' \in [Calls -> CallRecord] /\ clock' \in Nat
    BY <1>1, CallTypes, StoreStep DEF TypeOK
  <2>2. store' \in [Sessions -> Record]
    <3>1. call[c].rec \in Record /\ NoRecord \in Record
      BY Fields, NoRecordTypes DEF TypeOK
    <3> QED BY <1>1, <3>1, StoreStep DEF TypeOK
  <2>3. call[c].rec \in Record /\ call[c].rec.expires \in Nat /\ call[c].sid \in Ids
    BY Fields DEF TypeOK
  <2>4. /\ begun' \in 0 .. MaxCalls /\ failures' \in 0 .. MaxFailures
        /\ promised' \in [Sessions -> Nat]
        /\ cookie' \in [id: Ids, expires: Nat] /\ token' \in Record
    <3>1. CASE \E k \in Kinds : Begin(c, k)
      <4>1. token' \in Record
        BY <3>1, NoRecordTypes DEF Begin, Ensure, TypeOK
      <4>2. begun' \in 0 .. MaxCalls
        BY <3>1 DEF Begin, TypeOK
      <4> QED BY <3>1, <4>1, <4>2 DEF Begin, TypeOK, gatewayVars
    <3>2. CASE SetCookie(c) \/ Decode(c)
      <4>1. cookie' \in [id: Ids, expires: Nat] /\ token' \in Record
        <5>1. [id |-> call[c].sid, expires |-> clock + Ttl] \in [id: Ids, expires: Nat]
          BY <2>3 DEF TypeOK
        <5>2. CASE SetCookie(c)
          BY <5>1, <5>2 DEF SetCookie, TypeOK
        <5>3. CASE Decode(c)
          BY <2>3, <5>3 DEF Decode, TypeOK
        <5> QED BY <3>2, <5>2, <5>3
      <4> QED BY <3>2, <4>1 DEF SetCookie, Decode, TypeOK, gatewayVars, boundVars
    <3>3. CASE NotIssued(c) \/ Receive(c)
      BY <3>3, NoRecordTypes DEF NotIssued, Receive, Ensure, TypeOK, gatewayVars, boundVars,
                                 browserVars
    <3>4. CASE (\E s \in Sessions : BeginIssue(c, s)) \/ Issue(c)
      <4>1. promised' \in [Sessions -> Nat]
        <5>1. promised \in [Sessions -> Nat]
          BY DEF TypeOK
        <5>2. CASE Issue(c)
          BY <2>3, <5>1, <5>2 DEF Issue
        <5>3. CASE \E s \in Sessions : BeginIssue(c, s)
          BY <5>1, <5>3 DEF BeginIssue
        <5> QED BY <3>4, <5>2, <5>3
      <4> QED BY <3>4, <4>1 DEF BeginIssue, Issue, TypeOK, browserVars, boundVars
    <3>5. CASE Load(c) \/ Check(c) \/ Remove(c)
      BY <3>5 DEF Load, Check, Remove, TypeOK, gatewayVars, browserVars, boundVars
    <3>6. CASE IssueFails(c) \/ LoadFails(c) \/ Fails(c)
      BY <3>6 DEF IssueFails, LoadFails, Fails, TypeOK, browserVars
    <3>7. CASE Persist(c)
      BY <2>3, <3>7 DEF Persist, TypeOK, browserVars, boundVars
    <3> QED BY <1>1, <3>1, <3>2, <3>3, <3>4, <3>5, <3>6, <3>7 DEF CallStep
  <2> QED BY <2>1, <2>2, <2>4 DEF TypeOK
<1>2. CASE Cleanup
  BY <1>2, NoRecordTypes DEF Cleanup, TypeOK, browserVars, boundVars
<1>3. CASE Tick
  BY <1>3 DEF Tick, TypeOK, gatewayVars, browserVars, boundVars
<1>4. CASE UNCHANGED vars
  BY <1>4 DEF vars, TypeOK
<1> QED BY <1>1, <1>2, <1>3, <1>4 DEF Next

-----------------------------------------------------------------------------
(* The steps of a call *)

\* What becomes of a call that takes a step: r is what it was, q what it is.
Sends(r, q) ==
  /\ r.pc \in {"idle", "decode", "notIssued", "answered"} /\ q.pc = "sent"
  /\ q.due = clock + Travel /\ q.sid = LiveCookie
  /\ r.pc = "decode" => q.kind = r.kind
  /\ q.sure => r.pc = "decode" \/ (IsValid(token) /\ q.kind # "BARE")

Asks(r, q) ==
  /\ q.pc \in {"ask", "notIssued"} /\ q.due = clock + Travel
  /\ q.sid = NoSession
  /\ q.kind # "BARE" \/ (r.pc \in {"ask", "issue"} /\ q.kind = r.kind)

Issues(r, q) ==
  \/ /\ r.pc = "ask" /\ q.pc = "issue" /\ q.sid \in Sessions /\ Fresh(q.sid)
     /\ q.due = clock + RequestTimeout /\ q.rec = [nonce |-> q.sid, expires |-> clock + Ttl]
     /\ q.kind = r.kind /\ q.sure = r.sure
  \/ /\ r.pc = "issue" /\ q.pc = "issued" /\ q = [r EXCEPT !.pc = "issued", !.due = clock + Travel]
     /\ store' = [store EXCEPT ![r.sid] = r.rec]
  \/ r.pc = "issued" /\ q.pc = "decode" /\ q = [r EXCEPT !.pc = "decode"]

IsHandled(r, q) ==
  \/ /\ r.pc = "sent" /\ q.pc = "check" /\ r.sid \in Sessions
     /\ q = [r EXCEPT !.pc = "check", !.rec = store[r.sid], !.due = clock + RequestTimeout]
     /\ store[r.sid].expires > clock /\ store' = store
  \/ /\ r.pc = "check" /\ q.pc = "remove" /\ q = [r EXCEPT !.pc = "remove"]
     /\ clock > r.rec.expires /\ store' = store
  \/ /\ r.pc = "check" /\ q.pc = "persist" /\ store' = store
     /\ \E n \in Ids : q = [r EXCEPT !.pc = "persist", !.rec = [nonce |-> n, expires |-> clock + Ttl]]

IsAnswered(r, q) ==
  /\ r.pc \in {"sent", "check", "remove", "persist"} /\ q.pc = "answered"
  /\ q.due = clock + Travel /\ q.sid = NoSession /\ q.kind = r.kind /\ q.sure = r.sure
  /\ q.status \in {401, 403} =>
        \/ r.pc = "sent" /\ (r.sid = NoSession \/ store[r.sid].expires <= clock)
        \/ r.pc = "check" /\ r.kind = "BARE"
        \/ r.pc = "remove"

Moves(r, q) ==
  \/ q.pc = "idle" /\ q = NoCall
  \/ Sends(r, q) \/ Asks(r, q) \/ Issues(r, q) \/ IsHandled(r, q)
  \/ IsAnswered(r, q)

\* What a call is after one of the steps they are made of.
LEMMA SendResult ==
  ASSUME TypeOK, NEW c \in Calls, NEW r \in CallRecord, NEW nonce, NEW sure,
         Send(c, r, nonce, sure)
  PROVE  /\ call'[c].pc = "sent" /\ call'[c].due = clock + Travel /\ call'[c].sid = LiveCookie
         /\ call'[c].sure = sure /\ call'[c].kind = r.kind
         /\ \A d \in Calls \ {c} : call'[d] = call[d]
<1> DEFINE new == [r EXCEPT !.pc = "sent", !.sure = sure, !.sid = LiveCookie,
                            !.tok = IF r.kind = "POST" THEN nonce ELSE NoSession,
                            !.due = clock + Travel]
<1>1. call'[c] = new /\ \A d \in Calls \ {c} : call'[d] = call[d]
  <2> HIDE DEF new
  <2> QED BY DEF Send, TypeOK, new
<1>2. /\ new.pc = "sent" /\ new.due = clock + Travel /\ new.sid = LiveCookie
      /\ new.sure = sure /\ new.kind = r.kind
  BY DEF CallRecord
<1> QED BY <1>1, <1>2

LEMMA EnsureResult ==
  ASSUME TypeOK, NEW c \in Calls, NEW r \in CallRecord, r.sure = FALSE, r.sid = NoSession,
         NEW t, Ensure(c, r, t)
  PROVE  /\ call'[c].kind = r.kind /\ call'[c].due = clock + Travel
         /\ \/ /\ call'[c].pc = "sent" /\ call'[c].sid = LiveCookie /\ IsValid(t) /\ token' = t
            \/ /\ call'[c].pc = "ask" /\ call'[c].sid = NoSession /\ call'[c].sure = FALSE
               /\ token' = NoRecord
         /\ \A d \in Calls \ {c} : call'[d] = call[d]
<1>1. CASE IsValid(t)
  BY <1>1, SendResult DEF Ensure
<1>2. CASE ~IsValid(t)
  <2> DEFINE new == [r EXCEPT !.pc = "ask", !.due = clock + Travel]
  <2>1. call'[c] = new /\ \A d \in Calls \ {c} : call'[d] = call[d]
    BY <1>2 DEF Ensure, TypeOK
  <2>2. /\ new.pc = "ask" /\ new.due = clock + Travel /\ new.sid = NoSession
        /\ new.sure = FALSE /\ new.kind = r.kind
    BY DEF CallRecord
  <2>3. token' = NoRecord
    BY <1>2 DEF Ensure
  <2> HIDE DEF new
  <2> QED BY <2>1, <2>2, <2>3
<1> QED BY <1>1, <1>2

LEMMA AnswerResult ==
  ASSUME TypeOK, NEW c \in Calls, NEW status, Answer(c, status)
  PROVE  /\ call'[c].pc = "answered" /\ call'[c].due = clock + Travel
         /\ call'[c].sid = NoSession /\ call'[c].kind = call[c].kind
         /\ call'[c].sure = call[c].sure /\ call'[c].status = status
         /\ \A d \in Calls \ {c} : call'[d] = call[d]
<1> DEFINE new == [call[c] EXCEPT !.pc = "answered", !.status = status, !.sid = NoSession,
                                  !.tok = NoSession, !.rec = NoRecord, !.due = clock + Travel]
<1>1. call'[c] = new /\ \A d \in Calls \ {c} : call'[d] = call[d]
  BY DEF Answer, TypeOK
<1>2. call[c] \in CallRecord
  BY DEF TypeOK
<1>3. /\ new.pc = "answered" /\ new.due = clock + Travel
      /\ new.sid = NoSession /\ new.kind = call[c].kind
      /\ new.sure = call[c].sure /\ new.status = status
  BY <1>2 DEF CallRecord
<1> HIDE DEF new
<1> QED BY <1>1, <1>3

LEMMA BrowserMoves ==
  ASSUME TypeOK, NEW c \in Calls,
         \/ \E k \in Kinds : Begin(c, k)
         \/ SetCookie(c) \/ Decode(c) \/ NotIssued(c) \/ Receive(c)
  PROVE  Moves(call[c], call'[c]) /\ \A d \in Calls \ {c} : call'[d] = call[d]
<1> USE DEF Moves
<1>1. call[c] \in CallRecord
  BY DEF TypeOK
<1>2. ASSUME call' = [call EXCEPT ![c] = NoCall]
      PROVE  Moves(call[c], call'[c]) /\ \A d \in Calls \ {c} : call'[d] = call[d]
  BY <1>2 DEF TypeOK, NoCall
<1>3. ASSUME NEW k \in Kinds, Begin(c, k)
      PROVE  Moves(call[c], call'[c]) /\ \A d \in Calls \ {c} : call'[d] = call[d]
  <2> DEFINE new == [NoCall EXCEPT !.kind = k]
  <2>1. new \in CallRecord /\ new.kind = k /\ new.sure = FALSE /\ new.sid = NoSession
    <3>1. new.kind = k /\ new.sure = FALSE /\ new.sid = NoSession
      BY DEF NoCall
    <3> QED BY <3>1, NoRecordTypes, Parts
  <2> HIDE DEF new
  <2>2. CASE k = "BARE"
    <3>1. Send(c, new, NoSession, FALSE) /\ call[c].pc = "idle"
      BY <1>3, <2>2 DEF Begin, new
    <3> QED BY <2>1, <3>1, SendResult DEF Sends
  <2>3. CASE k # "BARE"
    <3>1. Ensure(c, new, token) /\ call[c].pc = "idle"
      BY <1>3, <2>3 DEF Begin, new
    <3> QED BY <2>1, <2>3, <3>1, EnsureResult DEF Sends, Asks
  <2> QED BY <2>2, <2>3
<1>4. CASE SetCookie(c)
  <2>1. call'[c] = [call[c] EXCEPT !.pc = "decode"] /\ \A d \in Calls \ {c} : call'[d] = call[d]
    BY <1>4 DEF SetCookie, TypeOK
  <2>2. call'[c].pc = "decode"
    BY <1>1, <2>1 DEF CallRecord
  <2> QED BY <1>4, <2>1, <2>2 DEF SetCookie, Issues
<1>5. CASE Decode(c)
  <2>1. [call[c] EXCEPT !.rec = NoRecord] \in CallRecord
        /\ [call[c] EXCEPT !.rec = NoRecord].kind = call[c].kind
    BY <1>1, NoRecordTypes, Parts DEF CallRecord
  <2> QED BY <1>5, <2>1, SendResult DEF Decode, Sends
<1>6. CASE NotIssued(c)
  <2>1. CASE call[c].kind = "GET"
    BY <1>1, <1>6, <2>1, SendResult DEF NotIssued, Sends
  <2>2. CASE call[c].kind # "GET"
    BY <1>2, <1>6, <2>2 DEF NotIssued
  <2> QED BY <2>1, <2>2
<1>7. CASE Receive(c)
  <2>1. CASE Refused(c) /\ call[c].kind = "GET" /\ ~call[c].retry
    <3> DEFINE new == [NoCall EXCEPT !.retry = TRUE]
    <3>1. new \in CallRecord /\ new.kind = "GET" /\ new.sure = FALSE /\ new.sid = NoSession
      <4>1. new.kind = "GET" /\ new.sure = FALSE /\ new.sid = NoSession
        BY DEF NoCall
      <4> QED BY <4>1, NoRecordTypes, Parts
    <3> HIDE DEF new
    <3>2. Ensure(c, new, NoRecord) /\ ~IsValid(NoRecord) /\ call[c].pc = "answered"
      BY <1>7, <2>1 DEF Receive, new, IsValid, NoRecord
    <3> QED BY <3>1, <3>2, EnsureResult DEF Asks
  <2>2. CASE ~(Refused(c) /\ call[c].kind = "GET" /\ ~call[c].retry)
    BY <1>2, <1>7, <2>2 DEF Receive
  <2> QED BY <2>1, <2>2
<1> QED BY <1>3, <1>4, <1>5, <1>6, <1>7

LEMMA GatewayMoves ==
  ASSUME TypeOK, NEW c \in Calls,
         \/ \E s \in Sessions : BeginIssue(c, s)
         \/ Issue(c) \/ IssueFails(c) \/ Load(c) \/ LoadFails(c)
         \/ Check(c) \/ Remove(c) \/ Persist(c) \/ Fails(c)
  PROVE  Moves(call[c], call'[c]) /\ \A d \in Calls \ {c} : call'[d] = call[d]
<1> USE DEF Moves
<1>1. call[c] \in CallRecord /\ call[c].sid \in Sessions \cup {NoSession}
  BY Fields DEF TypeOK, Ids
<1>2. \A x : call' = [call EXCEPT ![c] = x] =>
                call'[c] = x /\ \A d \in Calls \ {c} : call'[d] = call[d]
  BY DEF TypeOK
<1>3. ASSUME NEW s \in Sessions, BeginIssue(c, s)
      PROVE  Moves(call[c], call'[c]) /\ \A d \in Calls \ {c} : call'[d] = call[d]
  <2> DEFINE new == [call[c] EXCEPT !.pc = "issue", !.sid = s, !.due = clock + RequestTimeout,
                                    !.rec = [nonce |-> s, expires |-> clock + Ttl]]
  <2>1. call' = [call EXCEPT ![c] = new] /\ Fresh(s) /\ call[c].pc = "ask"
    BY <1>3 DEF BeginIssue
  <2>2. /\ new.pc = "issue" /\ new.sid = s /\ new.due = clock + RequestTimeout
        /\ new.rec = [nonce |-> s, expires |-> clock + Ttl]
        /\ new.kind = call[c].kind /\ new.sure = call[c].sure
    BY <1>1 DEF CallRecord
  <2> HIDE DEF new
  <2> QED BY <1>2, <2>1, <2>2 DEF Issues
<1>4. CASE Issue(c)
  <2> DEFINE new == [call[c] EXCEPT !.pc = "issued", !.due = clock + Travel]
  <2>1. call' = [call EXCEPT ![c] = new] /\ call[c].pc = "issue"
        /\ store' = [store EXCEPT ![call[c].sid] = call[c].rec]
    BY <1>4 DEF Issue
  <2>2. new.pc = "issued"
    BY <1>1 DEF CallRecord
  <2>3. call'[c] = new /\ \A d \in Calls \ {c} : call'[d] = call[d]
    BY <2>1 DEF TypeOK
  <2> QED BY <2>1, <2>2, <2>3 DEF Issues
<1>5. CASE IssueFails(c)
  <2> DEFINE new == [call[c] EXCEPT !.pc = "notIssued", !.sid = NoSession, !.rec = NoRecord,
                                    !.due = clock + Travel]
  <2>1. call' = [call EXCEPT ![c] = new] /\ call[c].pc \in {"ask", "issue"}
    BY <1>5 DEF IssueFails
  <2>2. /\ new.pc = "notIssued" /\ new.sid = NoSession /\ new.due = clock + Travel
        /\ new.kind = call[c].kind /\ new.sure = call[c].sure
    BY <1>1 DEF CallRecord
  <2> HIDE DEF new
  <2> QED BY <1>2, <2>1, <2>2 DEF Asks
<1>6. CASE Load(c)
  <2>1. CASE call[c].sid # NoSession /\ store[call[c].sid].expires > clock
    <3> DEFINE new == [call[c] EXCEPT !.pc = "check", !.rec = store[call[c].sid],
                                      !.due = clock + RequestTimeout]
    <3>1. call' = [call EXCEPT ![c] = new] /\ call[c].pc = "sent" /\ store' = store
      BY <1>6, <2>1 DEF Load, gatewayVars
    <3>2. new.pc = "check"
      BY <1>1 DEF CallRecord
    <3>3. call'[c] = new /\ \A d \in Calls \ {c} : call'[d] = call[d]
      BY <3>1 DEF TypeOK
    <3> QED BY <1>1, <2>1, <3>1, <3>2, <3>3 DEF IsHandled
  <2>2. CASE ~(call[c].sid # NoSession /\ store[call[c].sid].expires > clock)
    <3>1. Answer(c, 401) /\ call[c].pc = "sent"
      BY <1>6, <2>2 DEF Load
    <3>2. call[c].sid = NoSession \/ store[call[c].sid].expires <= clock
      <4>1. \A s \in Sessions : store[s].expires \in Nat /\ clock \in Nat
        BY DEF TypeOK, Record
      <4> QED BY <1>1, <2>2, <4>1
    <3> QED BY <3>1, <3>2, AnswerResult DEF IsAnswered
  <2> QED BY <2>1, <2>2
<1>7. CASE Check(c)
  <2>1. CASE call' = [call EXCEPT ![c].pc = "remove"] /\ clock > call[c].rec.expires
    <3>1. call'[c] = [call[c] EXCEPT !.pc = "remove"] /\ \A d \in Calls \ {c} : call'[d] = call[d]
      BY <2>1 DEF TypeOK
    <3>2. call'[c].pc = "remove"
      BY <1>1, <3>1 DEF CallRecord
    <3> QED BY <1>7, <2>1, <3>1, <3>2 DEF Check, IsHandled, gatewayVars
  <2>2. CASE Answer(c, 403) /\ call[c].kind = "BARE"
    BY <1>7, <2>2, AnswerResult DEF Check, IsAnswered
  <2>3. ASSUME NEW n \in Ids, Extend(c, n)
        PROVE  Moves(call[c], call'[c]) /\ \A d \in Calls \ {c} : call'[d] = call[d]
    <3> DEFINE new == [call[c] EXCEPT !.pc = "persist", !.rec = [nonce |-> n, expires |-> clock + Ttl]]
    <3>1. call'[c] = new /\ \A d \in Calls \ {c} : call'[d] = call[d]
      BY <2>3 DEF Extend, TypeOK
    <3>2. new.pc = "persist"
      BY <1>1 DEF CallRecord
    <3> QED BY <1>7, <3>1, <3>2 DEF Check, IsHandled, gatewayVars
  <2>4. call[c].tok \in Ids /\ call[c].rec.nonce \in Ids
    BY <1>1, Fields
  <2> QED BY <1>7, <2>1, <2>2, <2>3, <2>4 DEF Check
<1>8. CASE LoadFails(c) \/ Remove(c) \/ Persist(c) \/ Fails(c)
  <2>1. PICK status \in Statuses : Answer(c, status) /\ (status \in {401, 403} => call[c].pc = "remove")
    BY <1>8, Labels DEF LoadFails, Remove, Persist, Fails
  <2>2. call[c].pc \in {"sent", "check", "remove", "persist"}
    BY <1>8 DEF LoadFails, Remove, Persist, Fails
  <2> QED BY <2>1, <2>2, AnswerResult DEF IsAnswered
<1> QED BY <1>3, <1>4, <1>5, <1>6, <1>7, <1>8

-----------------------------------------------------------------------------
(* How long a session lasts *)

Handled == {"check", "remove", "persist"}

\* No call outlasts its time, and what its handler stores counts from its
\* beginning at least.  The row a handler read is there still, or is gone, or
\* another handler extended it meanwhile.
Timely(r) ==
  /\ r.pc # "idle" => clock <= r.due
  /\ r.pc = "sent" => r.due <= clock + Travel
  /\ r.pc \in Handled => r.due <= clock + RequestTimeout /\ r.sid \in Sessions
  /\ r.pc \in {"issue", "persist"} =>
        r.rec.expires <= clock + Ttl /\ r.rec.expires + RequestTimeout >= r.due + Ttl
  /\ r.pc = "remove" => r.rec.expires < clock
  /\ r.pc \in {"check", "remove"} =>
        \/ store[r.sid] \in {r.rec, NoRecord}
        \/ store[r.sid].expires + 2 * RequestTimeout >= r.due + Ttl

Promises == \A s \in Sessions : promised[s] <= clock + Ttl

Timing == (\A c \in Calls : Timely(call[c])) /\ Promises /\ SlidingExpiry

LEMMA InitTiming == Init => Timing
BY SessionConstants DEF Init, Timing, Timely, Promises, SlidingExpiry, NoCall, Handled

\* The call that takes the step.
LEMMA OwnTiming ==
  ASSUME TypeOK, Timing, NEW c \in Calls, CallStep(c)
  PROVE  Timely(call[c])'
<1> USE SessionConstants
<1>1. PICK r, q : r = call[c] /\ q = call'[c]
  OBVIOUS
<1>2. Moves(r, q) /\ clock' = clock /\ Timely(r)
  BY <1>1, BrowserMoves, GatewayMoves, StoreStep DEF CallStep, Timing
<1>3. r \in CallRecord /\ r.rec.expires \in Nat /\ r.due \in Nat /\ clock \in Nat
  BY <1>1, Fields DEF TypeOK
<1>4. CASE q.pc = "idle" \/ Sends(r, q) \/ Asks(r, q) \/ IsAnswered(r, q)
  BY <1>1, <1>2, <1>3, <1>4 DEF Sends, Asks, IsAnswered, Timely, Handled
<1>5. CASE r.pc = "ask" /\ q.pc = "issue" /\ Issues(r, q)
  <2>1. q.due = clock + RequestTimeout /\ q.rec.expires = clock + Ttl
    BY <1>5 DEF Issues
  <2> QED BY <1>1, <1>2, <1>3, <1>5, <2>1 DEF Timely, Handled
<1>6. CASE r.pc = "issue" /\ q.pc = "issued" /\ Issues(r, q)
  <2>1. q.due = clock + Travel
    BY <1>3, <1>6 DEF Issues, CallRecord
  <2> QED BY <1>1, <1>2, <1>3, <1>6, <2>1 DEF Timely, Handled
<1>7. CASE r.pc = "issued" /\ q.pc = "decode" /\ Issues(r, q)
  <2>1. q.due = r.due
    BY <1>3, <1>7 DEF Issues, CallRecord
  <2> QED BY <1>1, <1>2, <1>3, <1>7, <2>1 DEF Timely, Handled
<1>8. CASE r.pc = "sent" /\ q.pc = "check" /\ IsHandled(r, q)
  <2>1. /\ r.sid \in Sessions /\ q.due = clock + RequestTimeout /\ q.sid = r.sid
        /\ q.rec = store[r.sid] /\ store' = store
    BY <1>3, <1>8 DEF IsHandled, CallRecord
  <2> QED BY <1>1, <1>2, <1>3, <1>8, <2>1 DEF Timely, Handled
<1>9. CASE r.pc = "check" /\ q.pc = "remove" /\ IsHandled(r, q)
  <2>1. q.due = r.due /\ q.sid = r.sid /\ q.rec = r.rec /\ r.rec.expires < clock /\ store' = store
    BY <1>3, <1>9 DEF IsHandled, CallRecord
  <2> QED BY <1>1, <1>2, <1>3, <1>9, <2>1 DEF Timely, Handled
<1>10. CASE r.pc = "check" /\ q.pc = "persist" /\ IsHandled(r, q)
  <2>1. PICK n : q = [r EXCEPT !.pc = "persist", !.rec = [nonce |-> n, expires |-> clock + Ttl]]
    BY <1>10 DEF IsHandled
  <2>2. q.due = r.due /\ q.sid = r.sid /\ q.rec.expires = clock + Ttl
    BY <1>3, <2>1 DEF CallRecord
  <2> QED BY <1>1, <1>2, <1>3, <1>10, <2>2 DEF Timely, Handled
<1> QED BY <1>2, <1>4, <1>5, <1>6, <1>7, <1>8, <1>9, <1>10 DEF Moves, Issues, IsHandled, NoCall

\* What another call's step does to the row a call has read.
LEMMA OtherTiming ==
  ASSUME TypeOK, Timing, NEW c \in Calls, CallStep(c), NEW d \in Calls \ {c}
  PROVE  Timely(call[d])'
<1> USE SessionConstants
<1>1. PICK r, q : r = call[d] /\ q = call[c]
  OBVIOUS
<1>2. call'[d] = r /\ clock' = clock /\ Timely(r) /\ Timely(q)
  BY <1>1, BrowserMoves, GatewayMoves, StoreStep DEF CallStep, Timing
<1>3. /\ r.due \in Nat /\ q.due \in Nat /\ q.rec.expires \in Nat /\ clock \in Nat
      /\ store \in [Sessions -> Record]
  BY <1>1, Fields DEF TypeOK
<1>4. CASE store'[r.sid] = store[r.sid] \/ r.sid \notin Sessions \/ r.pc \notin {"check", "remove"}
  BY <1>2, <1>4 DEF Timely, Handled
<1>5. CASE r.sid = q.sid /\ r.pc \in {"check", "remove"} /\ r.sid \in Sessions
  <2>1. CASE q.pc \in {"issue", "persist"} /\ store' = [store EXCEPT ![q.sid] = q.rec]
    <3>1. store'[r.sid] = q.rec
      BY <1>3, <1>5, <2>1
    <3>2. q.rec.expires + RequestTimeout >= q.due + Ttl /\ clock <= q.due
          /\ r.due <= clock + RequestTimeout
      BY <1>2, <1>5, <2>1 DEF Timely, Handled
    <3>3. store'[r.sid].expires + 2 * RequestTimeout >= r.due + Ttl
      BY <1>3, <3>1, <3>2
    <3> QED BY <1>2, <1>5, <3>3 DEF Timely, Handled
  <2>2. CASE store' = [store EXCEPT ![q.sid] = NoRecord]
    <3>1. store'[r.sid] = NoRecord
      BY <1>3, <1>5, <2>2
    <3> QED BY <1>2, <1>5, <3>1 DEF Timely, Handled
  <2> QED BY <1>1, <1>4, <2>1, <2>2, StoreStep
<1> QED BY <1>1, <1>3, <1>4, <1>5, StoreStep

\* What a session was answered with.
LEMMA PromiseStep ==
  ASSUME TypeOK, NEW c \in Calls, CallStep(c)
  PROVE  \A s \in Sessions :
            \/ promised'[s] = promised[s]
            \/ promised'[s] = 0
            \/ /\ s = call[c].sid /\ call[c].pc \in {"issue", "persist"}
               /\ promised'[s] = call[c].rec.expires
               /\ store' = [store EXCEPT ![s] = call[c].rec]
<1>1. CASE UNCHANGED promised
  BY <1>1
<1>2. CASE \E s \in Sessions : BeginIssue(c, s)
  BY <1>2 DEF BeginIssue, TypeOK
<1>3. CASE Issue(c) \/ Persist(c)
  BY <1>3 DEF Issue, Persist, TypeOK
<1>4. CASE \/ \E k \in Kinds : Begin(c, k)
           \/ SetCookie(c) \/ Decode(c) \/ NotIssued(c) \/ Receive(c)
           \/ IssueFails(c) \/ Load(c) \/ LoadFails(c) \/ Check(c) \/ Remove(c) \/ Fails(c)
  BY <1>1, <1>4 DEF Begin, SetCookie, Decode, NotIssued, Receive, IssueFails, Load, LoadFails,
                    Check, Remove, Fails, gatewayVars
<1> QED BY <1>2, <1>3, <1>4 DEF CallStep

LEMMA TimingStep ==
  ASSUME TypeOK, Timing, [Next]_vars
  PROVE  Timing'
<1> USE SessionConstants
<1>1. ASSUME NEW c \in Calls, CallStep(c)
      PROVE  Timing'
  <2>1. \A d \in Calls : Timely(call[d])'
    BY <1>1, OwnTiming, OtherTiming
  <2>2. PICK r : r = call[c]
    OBVIOUS
  <2>3. Timely(r) /\ clock' = clock /\ clock \in Nat /\ r.rec.expires \in Nat /\ r.due \in Nat
    BY <1>1, <2>2, StoreStep, Fields DEF Timing, TypeOK
  <2>4. \A s \in Sessions :
           /\ store[s].expires \in Nat /\ promised[s] \in Nat
           /\ promised[s] <= clock + Ttl
           /\ store[s] # NoRecord => store[s].expires + RequestTimeout >= promised[s]
    BY DEF Timing, Promises, SlidingExpiry, TypeOK, Record
  <2>5. ASSUME NEW s \in Sessions
        PROVE  /\ promised'[s] <= clock + Ttl
               /\ store'[s] # NoRecord => store'[s].expires + RequestTimeout >= promised'[s]
    <3>1. CASE /\ s = r.sid /\ r.pc \in {"issue", "persist"} /\ promised'[s] = r.rec.expires
               /\ store' = [store EXCEPT ![s] = r.rec]
      <4>1. store'[s] = r.rec
        BY <3>1 DEF TypeOK
      <4> QED BY <2>3, <3>1, <4>1 DEF Timely
    <3>2. CASE promised'[s] \in {promised[s], 0}
      <4>1. CASE store'[s] \in {store[s], NoRecord}
        BY <2>3, <2>4, <3>2, <4>1
      <4>2. CASE store'[s] = r.rec /\ r.pc \in {"issue", "persist"}
        <5>1. /\ r.rec.expires + RequestTimeout >= r.due + Ttl /\ clock <= r.due
          BY <2>3, <4>2 DEF Timely
        <5> QED BY <2>3, <2>4, <3>2, <4>2, <5>1
      <4> QED BY <1>1, <2>2, <4>1, <4>2, StoreStep DEF TypeOK
    <3> QED BY <1>1, <2>2, <3>1, <3>2, PromiseStep
  <2> QED BY <2>1, <2>3, <2>5 DEF Timing, Promises, SlidingExpiry
<1>2. CASE Cleanup
  <2>1. /\ \A s \in Sessions : store'[s] \in {store[s], NoRecord}
        /\ UNCHANGED <<clock, promised, call>>
    BY <1>2 DEF Cleanup, TypeOK
  <2>2. ASSUME NEW c \in Calls
        PROVE  Timely(call[c])'
    <3>1. PICK r : r = call[c]
      OBVIOUS
    <3>2. Timely(r) /\ call'[c] = r
      BY <2>1, <3>1 DEF Timing
    <3>3. Timely(r)'
      BY <2>1, <3>2 DEF Timely, Handled
    <3> QED BY <3>2, <3>3 DEF Timely
  <2> QED BY <2>1, <2>2 DEF Timing, Promises, SlidingExpiry
<1>3. CASE Tick
  <2>1. /\ clock' = clock + 1 /\ clock \in Nat /\ UNCHANGED <<store, promised, call>>
        /\ \A c \in Calls : call[c].pc # "idle" => clock < call[c].due
    BY <1>3 DEF Tick, TypeOK, gatewayVars
  <2>2. ASSUME NEW c \in Calls
        PROVE  Timely(call[c])'
    <3>1. PICK r : r = call[c]
      OBVIOUS
    <3>2. Timely(r) /\ call'[c] = r /\ r.due \in Nat /\ r.rec.expires \in Nat
          /\ (r.pc # "idle" => clock < r.due)
      BY <2>1, <3>1, Fields DEF Timing, TypeOK
    <3> QED BY <2>1, <3>2 DEF Timely, Handled
  <2>3. Promises' /\ SlidingExpiry'
    BY <2>1 DEF Timing, Promises, SlidingExpiry, TypeOK
  <2> QED BY <2>2, <2>3 DEF Timing
<1>4. CASE UNCHANGED vars
  BY <1>4 DEF vars, Timing, Timely, Promises, SlidingExpiry, Handled
<1> QED BY <1>1, <1>2, <1>3, <1>4 DEF Next

\* What deletes a row: the cleanup, when it has expired, and a handler that
\* read it when it had, or that read what another one has extended since.
LEMMA DeletionStep ==
  ASSUME TypeOK, Timing, [Next]_vars, NEW s \in Sessions,
         store[s] # NoRecord, store'[s] = NoRecord
  PROVE  store[s].expires <= clock \/ store[s].expires + 2 * RequestTimeout >= clock + Ttl
<1> USE SessionConstants
<1>1. store \in [Sessions -> Record] /\ store[s].expires \in Nat /\ clock \in Nat
  BY DEF TypeOK, Record
<1>2. ASSUME NEW c \in Calls, CallStep(c)
      PROVE  store[s].expires <= clock \/ store[s].expires + 2 * RequestTimeout >= clock + Ttl
  <2>1. PICK r : r = call[c]
    OBVIOUS
  <2>2. Timely(r) /\ r.due \in Nat /\ r.rec.expires \in Nat /\ r.sid = s
    BY <1>1, <1>2, <2>1, StoreStep, Fields DEF Timing, TypeOK
  <2>3. CASE r.pc \in {"issue", "persist"} /\ store'[s] = r.rec
    <3>1. r.rec.expires = 0
      BY <2>3 DEF NoRecord
    <3>2. r.rec.expires + RequestTimeout >= r.due + Ttl /\ clock <= r.due
      BY <2>2, <2>3 DEF Timely
    <3> QED BY <1>1, <2>2, <3>1, <3>2
  <2>4. CASE r.pc = "remove"
    <3>1. /\ r.rec.expires < clock /\ clock <= r.due
          /\ store[s] = r.rec \/ store[s].expires + 2 * RequestTimeout >= r.due + Ttl
      BY <2>2, <2>4 DEF Timely
    <3> QED BY <1>1, <2>2, <3>1
  <2> QED BY <1>1, <1>2, <2>1, <2>2, <2>3, <2>4, StoreStep
<1>3. CASE Cleanup
  BY <1>1, <1>3 DEF Cleanup
<1>4. CASE Tick \/ UNCHANGED vars
  BY <1>4 DEF Tick, vars, gatewayVars
<1> QED BY <1>2, <1>3, <1>4 DEF Next

-----------------------------------------------------------------------------
(* What the browser may rely on *)

\* Until e the session s is in the table, and no handler holds a row of it
\* that would end it, or be found expired, before.
Solid(s, e) ==
  clock < e =>
    /\ store[s].expires >= e
    /\ \A d \in Calls : call[d].pc \in Handled /\ call[d].sid = s => call[d].rec.expires >= e

Issuing == {"issue", "issued"}

\* A session that is being issued is known to nobody else, the cookie that was
\* set with it is replaced by later ones only, and a call that is sure of its
\* token finds the session it is sent with.
Secure(c) ==
  /\ call[c].pc \in Issuing =>
        /\ call[c].sid \in Sessions /\ cookie.id # call[c].sid
        /\ \A d \in Calls \ {c} : call[d].sid # call[c].sid
  /\ call[c].pc \in Issuing \cup {"decode"} => call[c].rec.expires <= clock + Ttl
  /\ call[c].pc \in {"issued", "decode"} =>
        call[c].rec.expires + RequestTimeout + Travel >= call[c].due + Ttl
  /\ call[c].pc = "issued" => store[call[c].sid] = call[c].rec \/ call[c].rec.expires <= clock
  /\ call[c].pc = "decode" => call[c].rec.expires <= cookie.expires /\ cookie.id \in Sessions
  /\ call[c].pc \in Issuing \cup {"ask", "decode"} \/ call[c].sure => call[c].kind # "BARE"
  /\ call[c].sure /\ call[c].pc = "sent" =>
        call[c].sid \in Sessions /\ Solid(call[c].sid, call[c].due + RequestTimeout)
  /\ call[c].sure /\ call[c].pc = "check" => call[c].rec.expires >= call[c].due
  /\ call[c].sure => call[c].pc # "remove" /\ ~(call[c].pc = "answered" /\ Refused(c))

Jar ==
  /\ cookie.expires <= clock + Ttl
  /\ cookie.id \in Sessions \/ cookie.expires = 0
  /\ token.expires <= cookie.expires /\ (token.nonce # NoSession => cookie.id \in Sessions)
  /\ \A e \in Nat : e + RequestTimeout + Travel <= cookie.expires => Solid(cookie.id, e)

Trust == (\A c \in Calls : Secure(c)) /\ Jar

LEMMA InitTrust == Init => Trust
BY SessionConstants
   DEF Init, Trust, Secure, Jar, Solid, NoCall, NoCookie, NoRecord, Handled, Issuing, Refused

LEMMA SolidStep ==
  ASSUME TypeOK, Timing, [Next]_vars, NEW s \in Sessions, NEW e \in Nat, Solid(s, e),
         e <= clock + Ttl, \A d \in Calls : call[d].pc = "issue" => call[d].sid # s
  PROVE  Solid(s, e)'
<1> USE SessionConstants
<1>1. clock \in Nat /\ store \in [Sessions -> Record] /\ store[s].expires \in Nat
  BY DEF TypeOK, Record
<1>2. ASSUME NEW c \in Calls, CallStep(c)
      PROVE  Solid(s, e)'
  <2>1. PICK r, q : r = call[c] /\ q = call'[c]
    OBVIOUS
  <2>2. /\ Moves(r, q) /\ clock' = clock /\ Timely(r)
        /\ \A d \in Calls \ {c} : call'[d] = call[d]
    BY <1>2, <2>1, BrowserMoves, GatewayMoves, StoreStep DEF CallStep, Timing
  <2>3. r \in CallRecord /\ r.rec.expires \in Nat
    BY <2>1, Fields DEF TypeOK
  <2> SUFFICES ASSUME clock < e
               PROVE  /\ store'[s].expires >= e
                      /\ \A d \in Calls : call'[d].pc \in Handled /\ call'[d].sid = s =>
                                              call'[d].rec.expires >= e
    BY <2>2 DEF Solid
  <2>4. /\ store[s].expires >= e
        /\ \A d \in Calls : call[d].pc \in Handled /\ call[d].sid = s => call[d].rec.expires >= e
    BY DEF Solid
  <2>5. store'[s].expires >= e
    <3>1. CASE store'[s] = store[s]
      BY <2>4, <3>1
    <3>2. CASE r.sid = s /\ r.pc = "persist" /\ store'[s] = r.rec
      BY <2>1, <2>4, <3>2 DEF Handled
    <3>3. CASE r.sid = s /\ r.pc = "remove"
      BY <1>1, <2>1, <2>2, <2>3, <2>4, <3>3 DEF Handled, Timely
    <3> QED BY <1>1, <1>2, <2>1, <3>1, <3>2, <3>3, StoreStep
  <2>6. ASSUME q.pc \in Handled, q.sid = s
        PROVE  q.rec.expires >= e
    <3>1. IsHandled(r, q)
      BY <2>2, <2>6 DEF Moves, Sends, Asks, Issues, IsAnswered, Handled, NoCall
    <3>2. CASE r.pc = "sent" /\ q.pc = "check" /\ r.sid \in Sessions
               /\ q = [r EXCEPT !.pc = "check", !.rec = store[r.sid], !.due = clock + RequestTimeout]
      BY <2>3, <2>4, <2>6, <3>2 DEF CallRecord
    <3>3. CASE r.pc = "check" /\ q = [r EXCEPT !.pc = "remove"]
      BY <2>1, <2>3, <2>4, <2>6, <3>3 DEF CallRecord, Handled
    <3>4. CASE \E n \in Ids :
                  q = [r EXCEPT !.pc = "persist", !.rec = [nonce |-> n, expires |-> clock + Ttl]]
      <4>1. q.rec.expires = clock + Ttl
        BY <2>3, <3>4 DEF CallRecord
      <4> QED BY <1>1, <4>1
    <3> QED BY <3>1, <3>2, <3>3, <3>4 DEF IsHandled
  <2> QED BY <2>1, <2>2, <2>4, <2>5, <2>6
<1>3. CASE Cleanup
  <2>1. UNCHANGED <<clock, call>> /\ (store[s].expires > clock => store'[s] = store[s])
    BY <1>1, <1>3 DEF Cleanup
  <2> QED BY <1>1, <2>1 DEF Solid
<1>4. CASE Tick
  <2>1. clock' = clock + 1 /\ UNCHANGED <<store, call>>
    BY <1>4 DEF Tick, gatewayVars
  <2> QED BY <1>1, <2>1 DEF Solid
<1>5. CASE UNCHANGED vars
  BY <1>5 DEF vars, Solid
<1> QED BY <1>2, <1>3, <1>4, <1>5 DEF Next

\* What a call's step does to the cookie and the token.
LEMMA JarStep ==
  ASSUME TypeOK, NEW c \in Calls, CallStep(c)
  PROVE  /\ cookie' = IF call[c].pc = "issued" THEN [id |-> call[c].sid, expires |-> clock + Ttl]
                      ELSE cookie
         /\ call[c].pc = "issued" => call'[c].pc = "decode" /\ store' = store
         /\ IF call[c].pc = "decode" THEN token' = call[c].rec ELSE token' \in {token, NoRecord}
<1>1. CASE SetCookie(c)
  <2>1. call'[c] = [call[c] EXCEPT !.pc = "decode"] /\ call[c] \in CallRecord
    BY <1>1 DEF SetCookie, TypeOK
  <2>2. call'[c].pc = "decode"
    BY <2>1 DEF CallRecord
  <2> QED BY <1>1, <2>2 DEF SetCookie, gatewayVars
<1>2. CASE Decode(c)
  BY <1>2 DEF Decode
<1>3. CASE \/ \E k \in Kinds : Begin(c, k)
           \/ NotIssued(c) \/ Receive(c)
  BY <1>3 DEF Begin, NotIssued, Receive, Ensure, browserVars
<1>4. CASE \/ \E s \in Sessions : BeginIssue(c, s)
           \/ Issue(c) \/ IssueFails(c) \/ Load(c) \/ LoadFails(c)
           \/ Check(c) \/ Remove(c) \/ Persist(c) \/ Fails(c)
  BY <1>4 DEF BeginIssue, Issue, IssueFails, Load, LoadFails, Check, Remove, Persist, Fails,
              browserVars
<1> QED BY <1>1, <1>2, <1>3, <1>4 DEF CallStep

\* The cookie that was set last is good for a life less one request and its way.
LEMMA JarHolds ==
  ASSUME TypeOK, Timing, Trust, NEW c \in Calls, CallStep(c)
  PROVE  Jar'
<1> USE SessionConstants
<1>1. PICK r : r = call[c]
  OBVIOUS
<1>2. /\ clock' = clock /\ clock \in Nat /\ r.rec.expires \in Nat /\ r.due \in Nat
      /\ cookie.expires \in Nat /\ token.expires \in Nat /\ r.sid \in Ids /\ cookie.id \in Ids
      /\ store \in [Sessions -> Record] /\ [Next]_vars
  BY <1>1, StoreStep, Fields DEF TypeOK, Record, Next
<1>3. CASE r.pc = "issued"
  <2>1. /\ cookie' = [id |-> r.sid, expires |-> clock + Ttl] /\ token' \in {token, NoRecord}
        /\ call'[c].pc = "decode" /\ store' = store /\ r.sid \in Sessions
        /\ cookie.expires <= clock + Ttl
    BY <1>1, <1>3, JarStep DEF Trust, Secure, Jar, Issuing
  <2>2. ASSUME NEW e \in Nat, e + RequestTimeout + Travel <= clock + Ttl, clock < e
        PROVE  /\ store[r.sid].expires >= e
               /\ \A d \in Calls : ~(call'[d].pc \in Handled /\ call'[d].sid = r.sid)
    <3>1. r.rec.expires + RequestTimeout + Travel >= r.due + Ttl /\ clock <= r.due
      BY <1>1, <1>3 DEF Trust, Secure, Timing, Timely
    <3>2. r.rec.expires >= e /\ r.rec.expires > clock
      BY <1>2, <2>2, <3>1
    <3>3. store[r.sid] = r.rec
      BY <1>1, <1>2, <1>3, <3>2 DEF Trust, Secure
    <3>4. \A d \in Calls \ {c} : call'[d].sid # r.sid
      BY <1>1, <1>3, BrowserMoves, GatewayMoves DEF CallStep, Trust, Secure, Issuing
    <3> QED BY <2>1, <3>2, <3>3, <3>4 DEF Handled
  <2>3. \A e \in Nat : e + RequestTimeout + Travel <= cookie'.expires => Solid(cookie.id, e)'
    BY <1>2, <2>1, <2>2 DEF Solid
  <2>4. token'.expires <= cookie'.expires
    BY <1>2, <2>1 DEF Trust, Jar, NoRecord
  <2> QED BY <1>2, <2>1, <2>3, <2>4 DEF Jar
<1>4. CASE r.pc # "issued"
  <2>1. cookie' = cookie /\ Jar
    BY <1>1, <1>4, JarStep DEF Trust
  <2>2. token'.expires <= cookie.expires /\ (token'.nonce # NoSession => cookie.id \in Sessions)
    <3>1. CASE r.pc = "decode"
      BY <1>1, <3>1, JarStep DEF Trust, Secure
    <3>2. CASE r.pc # "decode"
      BY <1>1, <1>2, <2>1, <3>2, JarStep DEF Jar, NoRecord
    <3> QED BY <3>1, <3>2
  <2>3. ASSUME NEW e \in Nat, e + RequestTimeout + Travel <= cookie.expires
        PROVE  Solid(cookie.id, e)'
    <3>1. Solid(cookie.id, e) /\ e <= clock + Ttl
      BY <1>2, <2>1, <2>3 DEF Jar
    <3>2. CASE cookie.id \in Sessions
      <4>1. \A d \in Calls : call[d].pc = "issue" => call[d].sid # cookie.id
        BY DEF Trust, Secure, Issuing
      <4>2. PICK s \in Sessions : s = cookie.id
        BY <3>2
      <4>3. Solid(s, e)'
        BY <1>2, <3>1, <4>1, <4>2, SolidStep
      <4> QED BY <2>1, <4>2, <4>3 DEF Solid
    <3>3. CASE cookie.expires = 0
      BY <1>2, <2>3, <3>3 DEF Solid
    <3> QED BY <2>1, <3>2, <3>3 DEF Jar
  <2> QED BY <1>2, <2>1, <2>2, <2>3 DEF Jar
<1> QED BY <1>3, <1>4

\* A call that is sent with a token it may rely on.
LEMMA SentWithToken ==
  ASSUME TypeOK, Timing, Trust, NEW c \in Calls, CallStep(c),
         call[c].pc = "decode" \/ IsValid(token)
  PROVE  /\ LiveCookie = cookie.id /\ cookie.id \in Sessions
         /\ Solid(cookie.id, clock + Travel + RequestTimeout)
<1> USE SessionConstants, SessionTimes
<1>1. /\ clock \in Nat /\ cookie.expires \in Nat /\ token.expires \in Nat
      /\ call[c].due \in Nat /\ call[c].rec.expires \in Nat
  BY Fields DEF TypeOK, Record
<1>2. cookie.expires >= clock + 2 * (RequestTimeout + Travel) /\ cookie.id \in Sessions
  <2>1. CASE call[c].pc = "decode"
    <3>1. /\ call[c].rec.expires <= cookie.expires /\ cookie.id \in Sessions
          /\ call[c].rec.expires + RequestTimeout + Travel >= call[c].due + Ttl
          /\ clock <= call[c].due
      BY <2>1 DEF Trust, Secure, Timing, Timely
    <3> QED BY <1>1, <3>1
  <2>2. CASE IsValid(token)
    <3>1. token.expires > clock + Margin /\ token.expires <= cookie.expires /\ cookie.id \in Sessions
      BY <2>2 DEF IsValid, Trust, Jar
    <3> QED BY <1>1, <3>1
  <2> QED BY <2>1, <2>2
<1>3. cookie.expires > clock
  BY <1>1, <1>2
<1>4. PICK e \in Nat : e = clock + Travel + RequestTimeout
  BY <1>1
<1>5. Solid(cookie.id, e)
  <2>1. e + RequestTimeout + Travel <= cookie.expires
    BY <1>1, <1>2, <1>4
  <2> QED BY <2>1 DEF Trust, Jar
<1> QED BY <1>2, <1>3, <1>4, <1>5 DEF LiveCookie

LEMMA OwnTrust ==
  ASSUME TypeOK, Timing, Trust, NEW c \in Calls, CallStep(c)
  PROVE  Secure(c)'
<1> USE SessionConstants
<1>1. PICK r, q : r = call[c] /\ q = call'[c]
  OBVIOUS
<1>2. /\ Moves(r, q) /\ clock' = clock /\ Timely(r) /\ Secure(c)
      /\ \A d \in Calls \ {c} : call'[d] = call[d]
  BY <1>1, BrowserMoves, GatewayMoves, StoreStep DEF CallStep, Timing, Trust
<1>3. /\ r \in CallRecord /\ r.rec.expires \in Nat /\ r.due \in Nat /\ clock \in Nat
      /\ store \in [Sessions -> Record] /\ [Next]_vars
  BY <1>1, Fields DEF TypeOK, Next
<1>4. CASE q.pc = "idle" /\ q = NoCall
  BY <1>1, <1>4 DEF Secure, NoCall, Issuing
<1>5. CASE Sends(r, q)
  <2>1. q.sure => q.kind # "BARE" /\ q.sid \in Sessions /\ Solid(q.sid, q.due + RequestTimeout)'
    <3> SUFFICES ASSUME q.sure
                 PROVE  /\ q.kind # "BARE" /\ q.sid \in Sessions
                        /\ Solid(q.sid, q.due + RequestTimeout)'
      OBVIOUS
    <3>1. r.pc = "decode" \/ IsValid(token)
      BY <1>5 DEF Sends
    <3>2. /\ q.sid \in Sessions /\ q.sid = cookie.id /\ q.due = clock + Travel
          /\ Solid(q.sid, q.due + RequestTimeout)
      BY <1>1, <1>5, <3>1, SentWithToken DEF Sends
    <3>3. \A d \in Calls : call[d].pc = "issue" => call[d].sid # q.sid
      BY <3>2 DEF Trust, Secure, Issuing
    <3>4. PICK e \in Nat : e = q.due + RequestTimeout
      BY <1>3, <3>2
    <3>5. e <= clock + Ttl
      BY <1>3, <3>2, <3>4, SessionTimes
    <3>6. Solid(q.sid, e)'
      BY <1>3, <3>2, <3>3, <3>4, <3>5, SolidStep
    <3>7. q.kind # "BARE"
      BY <1>1, <1>2, <1>5 DEF Sends, Secure
    <3> QED BY <3>2, <3>4, <3>6, <3>7
  <2>2. q.pc = "sent"
    BY <1>5 DEF Sends
  <2> QED BY <1>1, <2>1, <2>2 DEF Secure, Issuing, Solid
<1>6. CASE Asks(r, q)
  <2>1. q.kind # "BARE" /\ q.pc \in {"ask", "notIssued"}
    BY <1>1, <1>2, <1>6 DEF Asks, Secure, Issuing
  <2> QED BY <1>1, <2>1 DEF Secure, Issuing
<1>7. CASE r.pc = "ask" /\ q.pc = "issue" /\ Issues(r, q)
  <2>1. /\ q.sid \in Sessions /\ Fresh(q.sid) /\ q.rec.expires = clock + Ttl /\ q.kind = r.kind
        /\ cookie' = cookie
    BY <1>1, <1>7, JarStep DEF Issues
  <2>2. q.kind # "BARE"
    BY <1>1, <1>2, <1>7, <2>1 DEF Secure
  <2>3. cookie.id # q.sid /\ \A d \in Calls \ {c} : call'[d].sid # q.sid
    BY <1>2, <2>1 DEF Fresh
  <2> QED BY <1>1, <1>2, <1>3, <1>7, <2>1, <2>2, <2>3 DEF Secure, Issuing
<1>8. CASE r.pc = "issue" /\ q.pc = "issued" /\ Issues(r, q)
  <2>1. /\ q.sid = r.sid /\ q.rec = r.rec /\ q.due = clock + Travel /\ q.kind = r.kind
        /\ q.sure = r.sure /\ cookie' = cookie /\ store' = [store EXCEPT ![r.sid] = r.rec]
    BY <1>1, <1>3, <1>8, JarStep DEF Issues, CallRecord
  <2>2. /\ r.sid \in Sessions /\ cookie.id # r.sid /\ \A d \in Calls \ {c} : call'[d].sid # r.sid
        /\ r.rec.expires <= clock + Ttl /\ r.kind # "BARE"
        /\ r.rec.expires + RequestTimeout >= r.due + Ttl /\ clock <= r.due
    BY <1>1, <1>2, <1>8 DEF Secure, Issuing, Timely
  <2>3. q.rec.expires + RequestTimeout + Travel >= q.due + Ttl
    BY <1>3, <2>1, <2>2
  <2>4. store'[q.sid] = q.rec
    BY <1>3, <2>1, <2>2
  <2> QED BY <1>1, <1>2, <1>8, <2>1, <2>2, <2>3, <2>4 DEF Secure, Issuing
<1>9. CASE r.pc = "issued" /\ q.pc = "decode" /\ Issues(r, q)
  <2>1. /\ q.sid = r.sid /\ q.rec = r.rec /\ q.due = r.due /\ q.kind = r.kind
        /\ cookie' = [id |-> r.sid, expires |-> clock + Ttl]
    BY <1>1, <1>3, <1>9, JarStep DEF Issues, CallRecord
  <2>2. /\ r.sid \in Sessions /\ r.rec.expires <= clock + Ttl /\ r.kind # "BARE"
        /\ r.rec.expires + RequestTimeout + Travel >= r.due + Ttl
    BY <1>1, <1>2, <1>9 DEF Secure, Issuing
  <2> QED BY <1>1, <1>2, <1>9, <2>1, <2>2 DEF Secure, Issuing
<1>10. CASE r.pc = "sent" /\ q.pc = "check" /\ IsHandled(r, q)
  <2>1. /\ q.rec = store[r.sid] /\ q.due = clock + RequestTimeout /\ q.sure = r.sure
        /\ q.kind = r.kind /\ r.sid \in Sessions
    BY <1>3, <1>10 DEF IsHandled, CallRecord
  <2>2. r.sure => q.kind # "BARE" /\ q.rec.expires >= q.due
    <3> SUFFICES ASSUME r.sure PROVE q.kind # "BARE" /\ q.rec.expires >= q.due
      OBVIOUS
    <3>1. Solid(r.sid, r.due + RequestTimeout) /\ q.kind # "BARE" /\ clock <= r.due
      BY <1>1, <1>2, <1>10, <2>1 DEF Secure, Timely
    <3>2. clock < r.due + RequestTimeout
      BY <1>3, <3>1
    <3>3. store[r.sid].expires >= r.due + RequestTimeout /\ store[r.sid].expires \in Nat
      BY <1>3, <2>1, <3>1, <3>2 DEF Solid, Record
    <3> QED BY <1>3, <2>1, <3>1, <3>3
  <2> QED BY <1>1, <1>10, <2>1, <2>2 DEF Secure, Issuing
<1>11. CASE r.pc = "check" /\ q.pc = "remove" /\ IsHandled(r, q)
  <2>1. q.sure = r.sure /\ clock > r.rec.expires
    BY <1>3, <1>11 DEF IsHandled, CallRecord
  <2>2. ~r.sure
    BY <1>1, <1>2, <1>3, <1>11, <2>1 DEF Secure, Timely
  <2> QED BY <1>1, <1>3, <1>11, <2>1, <2>2 DEF Secure, Issuing
<1>12. CASE r.pc = "check" /\ q.pc = "persist" /\ IsHandled(r, q)
  <2>1. q.sure = r.sure /\ q.kind = r.kind
    BY <1>3, <1>12 DEF IsHandled, CallRecord
  <2> QED BY <1>1, <1>2, <1>12, <2>1 DEF Secure, Issuing
<1>13. CASE IsAnswered(r, q)
  <2>1. q.pc = "answered" /\ q.sure = r.sure /\ q.kind = r.kind
    BY <1>13 DEF IsAnswered
  <2>2. r.sure => q.kind # "BARE" /\ q.status \notin {401, 403}
    <3> SUFFICES ASSUME r.sure PROVE q.kind # "BARE" /\ q.status \notin {401, 403}
      OBVIOUS
    <3>1. r.kind # "BARE" /\ r.pc # "remove"
      BY <1>1, <1>2 DEF Secure
    <3>2. ~(r.pc = "sent" /\ (r.sid = NoSession \/ store[r.sid].expires <= clock))
      <4> SUFFICES ASSUME r.pc = "sent" PROVE r.sid # NoSession /\ ~(store[r.sid].expires <= clock)
        OBVIOUS
      <4>1. r.sid \in Sessions /\ Solid(r.sid, r.due + RequestTimeout) /\ clock <= r.due
        BY <1>1, <1>2 DEF Secure, Timely
      <4>2. clock < r.due + RequestTimeout
        BY <1>3, <4>1
      <4>3. store[r.sid].expires >= r.due + RequestTimeout /\ store[r.sid].expires \in Nat
        BY <1>3, <4>1, <4>2 DEF Solid, Record
      <4> QED BY <1>3, <4>1, <4>2, <4>3
    <3> QED BY <1>13, <2>1, <3>1, <3>2 DEF IsAnswered
  <2> QED BY <1>1, <2>1, <2>2 DEF Secure, Issuing, Refused
<1> QED BY <1>2, <1>4, <1>5, <1>6, <1>7, <1>8, <1>9, <1>10, <1>11, <1>12, <1>13
        DEF Moves, Issues, IsHandled

\* The session a call is left with: none, that of the cookie, its own, or one
\* that nobody knows.
LEMMA SidStep ==
  ASSUME TypeOK, NEW c \in Calls, CallStep(c)
  PROVE  call'[c].sid \in {NoSession, cookie.id, call[c].sid} \/ Fresh(call'[c].sid)
<1>1. PICK r, q : r = call[c] /\ q = call'[c]
  OBVIOUS
<1>2. Moves(r, q) /\ r \in CallRecord
  BY <1>1, BrowserMoves, GatewayMoves DEF CallStep, TypeOK
<1>3. CASE q = NoCall \/ Sends(r, q) \/ Asks(r, q) \/ IsAnswered(r, q)
  BY <1>1, <1>3 DEF NoCall, Sends, Asks, IsAnswered, LiveCookie
<1>4. CASE Issues(r, q) \/ IsHandled(r, q)
  BY <1>1, <1>2, <1>4 DEF Issues, IsHandled, CallRecord
<1> QED BY <1>1, <1>2, <1>3, <1>4 DEF Moves

LEMMA OtherTrust ==
  ASSUME TypeOK, Timing, Trust, NEW c \in Calls, CallStep(c), NEW d \in Calls \ {c}
  PROVE  Secure(d)'
<1> USE SessionConstants
<1>1. PICK r : r = call[d]
  OBVIOUS
<1>2. /\ call'[d] = r /\ clock' = clock /\ Secure(d) /\ Secure(c) /\ Timely(r)
      /\ \A b \in Calls \ {c} : call'[b] = call[b]
  BY <1>1, BrowserMoves, GatewayMoves, StoreStep DEF CallStep, Timing, Trust
<1>3. /\ r.rec.expires \in Nat /\ r.due \in Nat /\ clock \in Nat
      /\ cookie.expires \in Nat /\ store \in [Sessions -> Record] /\ [Next]_vars
  BY <1>1, Fields DEF TypeOK, Next
<1>4. ASSUME r.pc \in Issuing
      PROVE  /\ cookie'.id # r.sid /\ store'[r.sid] = store[r.sid]
             /\ \A b \in Calls \ {d} : call'[b].sid # r.sid
  <2>1. /\ r.sid \in Sessions /\ cookie.id # r.sid /\ call[c].sid # r.sid
        /\ \A b \in Calls \ {d} : call[b].sid # r.sid
    BY <1>1, <1>2, <1>4 DEF Secure
  <2>2. call'[c].sid # r.sid
    BY <1>1, <2>1, SidStep DEF Fresh
  <2>3. cookie'.id # r.sid
    BY <2>1, JarStep
  <2>4. store'[r.sid] = store[r.sid]
    BY <1>3, <2>1, StoreStep
  <2> QED BY <1>2, <2>1, <2>2, <2>3, <2>4
<1>5. ASSUME r.pc = "decode"
      PROVE  r.rec.expires <= cookie'.expires /\ cookie'.id \in Sessions
  <2>1. r.rec.expires <= cookie.expires /\ cookie.id \in Sessions /\ r.rec.expires <= clock + Ttl
    BY <1>1, <1>2, <1>5 DEF Secure
  <2>2. call[c].pc = "issued" => call[c].sid \in Sessions
    BY <1>2 DEF Secure, Issuing
  <2> QED BY <1>3, <2>1, <2>2, JarStep
<1>6. ASSUME r.sure, r.pc = "sent"
      PROVE  r.sid \in Sessions /\ Solid(r.sid, r.due + RequestTimeout)'
  <2>1. r.sid \in Sessions /\ Solid(r.sid, r.due + RequestTimeout) /\ r.due <= clock + Travel
    BY <1>1, <1>2, <1>6 DEF Secure, Timely
  <2>2. PICK e \in Nat : e = r.due + RequestTimeout
    BY <1>3
  <2>3. e <= clock + Ttl
    BY <1>3, <2>1, <2>2, SessionTimes
  <2>4. \A b \in Calls : call[b].pc = "issue" => call[b].sid # r.sid
    BY <1>1, <1>6 DEF Trust, Secure, Issuing
  <2>5. Solid(r.sid, e)'
    BY <1>3, <2>1, <2>2, <2>3, <2>4, SolidStep
  <2> QED BY <2>1, <2>2, <2>5
<1>7. /\ r.pc \in Issuing \cup {"decode"} => r.rec.expires <= clock + Ttl
      /\ r.pc \in {"issued", "decode"} => r.rec.expires + RequestTimeout + Travel >= r.due + Ttl
      /\ r.pc = "issued" => store[r.sid] = r.rec \/ r.rec.expires <= clock
      /\ r.pc \in Issuing \cup {"ask", "decode"} \/ r.sure => r.kind # "BARE"
      /\ r.sure /\ r.pc = "check" => r.rec.expires >= r.due
      /\ r.sure => r.pc # "remove" /\ ~(r.pc = "answered" /\ r.status \in {401, 403})
      /\ r.pc \in Issuing => r.sid \in Sessions
  BY <1>1, <1>2 DEF Secure, Refused
<1> QED BY <1>2, <1>4, <1>5, <1>6, <1>7 DEF Secure, Refused, Solid, Issuing

LEMMA TrustStep ==
  ASSUME TypeOK, Timing, Trust, [Next]_vars
  PROVE  Trust'
<1> USE SessionConstants
<1>1. ASSUME NEW c \in Calls, CallStep(c)
      PROVE  Trust'
  BY <1>1, OwnTrust, OtherTrust, JarHolds DEF Trust
<1>2. ASSUME Cleanup \/ Tick \/ UNCHANGED vars
      PROVE  Trust'
  <2>1. /\ UNCHANGED <<cookie, token, call>> /\ clock \in Nat /\ clock' \in Nat /\ clock' >= clock
        /\ cookie.expires \in Nat /\ cookie.id \in Ids
        /\ \A s \in Sessions : store'[s] = store[s] \/ store[s].expires <= clock
    BY <1>2 DEF Cleanup, Tick, vars, TypeOK, browserVars, gatewayVars
  <2>2. ASSUME NEW s \in Sessions, NEW e \in Nat, Solid(s, e), e <= clock + Ttl,
               \A d \in Calls : call[d].pc = "issue" => call[d].sid # s
        PROVE  Solid(s, e)'
    BY <2>2, SolidStep
  <2>3. ASSUME NEW c \in Calls
        PROVE  Secure(c)'
    <3>1. PICK r : r = call[c]
      OBVIOUS
    <3>2. call'[c] = r /\ Secure(c) /\ Timely(r) /\ r.due \in Nat /\ r.rec.expires \in Nat
      BY <2>1, <3>1, Fields DEF Trust, Timing, TypeOK
    <3>3. r.pc = "issued" => store'[r.sid] = r.rec \/ r.rec.expires <= clock'
      BY <2>1, <3>1, <3>2 DEF Secure, Issuing
    <3>4. ASSUME r.sure, r.pc = "sent"
          PROVE  r.sid \in Sessions /\ Solid(r.sid, r.due + RequestTimeout)'
      <4>1. r.sid \in Sessions /\ Solid(r.sid, r.due + RequestTimeout) /\ r.due <= clock + Travel
        BY <3>1, <3>2, <3>4 DEF Secure, Timely
      <4>2. PICK e \in Nat : e = r.due + RequestTimeout
        BY <3>2
      <4>3. e <= clock + Ttl
        BY <2>1, <3>2, <4>1, <4>2, SessionTimes
      <4>4. \A b \in Calls : call[b].pc = "issue" => call[b].sid # r.sid
        BY <3>1, <3>4 DEF Trust, Secure, Issuing
      <4>5. Solid(r.sid, e)'
        BY <2>2, <4>1, <4>2, <4>3, <4>4
      <4> QED BY <4>1, <4>2, <4>5
    <3>5. r.pc \in Issuing \cup {"decode"} => r.rec.expires <= clock' + Ttl
      BY <2>1, <3>1, <3>2 DEF Secure
    <3> QED BY <2>1, <3>1, <3>2, <3>3, <3>4, <3>5 DEF Secure, Refused, Solid
  <2>4. Jar'
    <3>1. ASSUME NEW e \in Nat, e + RequestTimeout + Travel <= cookie.expires
          PROVE  Solid(cookie.id, e)'
      <4>1. Solid(cookie.id, e) /\ e <= clock + Ttl
        BY <2>1, <3>1 DEF Trust, Jar
      <4>2. CASE cookie.id \in Sessions
        <5>1. \A d \in Calls : call[d].pc = "issue" => call[d].sid # cookie.id
          BY DEF Trust, Secure, Issuing
        <5>2. PICK s \in Sessions : s = cookie.id
          BY <4>2
        <5>3. Solid(s, e)'
          BY <2>2, <4>1, <5>1, <5>2
        <5> QED BY <2>1, <5>2, <5>3 DEF Solid
      <4>3. CASE cookie.expires = 0
        BY <2>1, <3>1, <4>3 DEF Solid
      <4> QED BY <4>2, <4>3 DEF Trust, Jar
    <3> QED BY <2>1, <3>1 DEF Trust, Jar
  <2> QED BY <2>3, <2>4 DEF Trust
<1> QED BY <1>1, <1>2 DEF Next

-----------------------------------------------------------------------------
(* Theorems *)

Inv == TypeOK /\ Timing /\ Trust

LEMMA InvHolds == Spec => []Inv
<1>1. Init => Inv
  BY InitTypes, InitTiming, InitTrust DEF Inv
<1>2. Inv /\ [Next]_vars => Inv'
  BY TypeStep, TimingStep, TrustStep DEF Inv
<1> QED BY <1>1, <1>2, PTL DEF Spec

\* Every variable keeps its type.
THEOREM TypeCorrect == Spec => []TypeOK
BY InvHolds, PTL DEF Inv

\* However the writes of overlapping requests are ordered, a session lasts as
\* long as any of them was told, less one request at most.
THEOREM ExpirySlides == Spec => []SlidingExpiry
BY InvHolds, PTL DEF Inv, Timing

\* No request ends a session that another has extended, unless both overlap.
THEOREM DeletedInTime == Spec => DeletedWhenExpired
<1>1. Inv /\ [Next]_vars =>
        [\A s \in Sessions :
            store[s] # NoRecord /\ store'[s] = NoRecord
                => store[s].expires <= clock \/ store[s].expires + 2 * RequestTimeout >= clock + Ttl]_vars
  BY DeletionStep DEF Inv
<1> QED BY <1>1, InvHolds, PTL DEF Spec, DeletedWhenExpired

\* A token that counts as valid comes with a live cookie, whichever of the
\* overlapping session requests left the one and the other.
THEOREM TokenIsBacked == Spec => []TokenHasSession
<1>1. Inv => TokenHasSession
  <2> SUFFICES ASSUME Inv, IsValid(token)
               PROVE  LiveCookie # NoSession /\ store[cookie.id].expires > clock
    BY DEF TokenHasSession
  <2> USE SessionConstants, SessionTimes
  <2>1. /\ clock \in Nat /\ cookie.expires \in Nat /\ token.expires \in Nat
        /\ token.expires > clock + Margin /\ token.expires <= cookie.expires
        /\ cookie.id \in Sessions /\ store[cookie.id].expires \in Nat
    BY DEF Inv, TypeOK, Record, Trust, Jar, IsValid
  <2>2. PICK e \in Nat : e = clock + 1
    BY <2>1
  <2>3. e + RequestTimeout + Travel <= cookie.expires /\ clock < e /\ cookie.expires > clock
    BY <2>1, <2>2
  <2>4. store[cookie.id].expires >= e
    BY <2>3 DEF Inv, Trust, Jar, Solid
  <2> QED BY <2>1, <2>2, <2>3, <2>4 DEF LiveCookie
<1> QED BY <1>1, InvHolds, PTL

\* A call that is sent with a valid token is not refused for its session.
THEOREM SureIsAnswered == Spec => []SureIsNotRefused
<1>1. Inv => SureIsNotRefused
  BY DEF Inv, Trust, Secure, SureIsNotRefused
<1> QED BY <1>1, InvHolds, PTL
=============================================================================
