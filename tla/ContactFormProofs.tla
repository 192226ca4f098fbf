------------------------- MODULE ContactFormProofs -------------------------
(***************************************************************************)
(* The contact form's database statements keep what they promise, for any  *)
(* number of requests, addresses, messages and any windows.                *)
(***************************************************************************)
EXTENDS ContactForm, SequenceTheorems, FiniteSetTheorems, TLAPS

\* The requests that can be held by a slot: one at work has a message, one that
\* is counted an address, one that is verified a token.
Held ==
    {q \in Request :
        /\ q.pc \in Working \cup {"duplicate"} => q.msg \in Messages
        /\ q.pc \in Working /\ Turnstile => q.token \in Tokens
        /\ q.pc = "limit" => q.ip \in Ips
        /\ q.pc = "turnstile" => Turnstile}

\* The record of a message ends a window after the last time it was made.
DedupeInv ==
    \A msg \in Messages :
        /\ msg \in DOMAIN dedupe <=> passes[msg] # <<>>
        /\ msg \in DOMAIN dedupe =>
              dedupe[msg] = passes[msg][Len(passes[msg])] + DedupeWindow

IInv ==
    /\ TypeOK
    /\ req \in [Slots -> Held]
    /\ CountsTheWindow
    /\ DedupeInv
    /\ RecordedOncePerWindow
    /\ DuplicateIsFresh

-----------------------------------------------------------------------------
(* Requests *)

LEMMA IdleHeld == Idle \in Held
BY DEF Idle, Request, Held, Working

\* A step keeps the invariant if it touches neither the tables nor their
\* histories and does not refuse a duplicate.
LEMMA Apart ==
  ASSUME IInv, UNCHANGED <<limits, dedupe, hits, passes>>,
         req' \in [Slots -> Held],
         clock' \in Nat, arrivals' \in Nat, burned' \subseteq Tokens,
         waved' \in [Messages -> Nat], sent' \in [Messages -> Nat],
         \A r \in Slots : req'[r].pc = "duplicate" => req'[r] = req[r]
  PROVE  IInv'
<1>1. req' \in [Slots -> Request]
  BY DEF Held
<1>2. TypeOK'
  BY <1>1 DEF IInv, TypeOK
<1>3. CountsTheWindow' /\ DedupeInv' /\ RecordedOncePerWindow'
  BY DEF IInv, CountsTheWindow, DedupeInv, RecordedOncePerWindow
<1>4. DuplicateIsFresh'
  BY DEF IInv, DuplicateIsFresh
<1> QED BY <1>2, <1>3, <1>4 DEF IInv

\* The slots after a step that changes one request.
LEMMA OneSlot ==
  ASSUME IInv, NEW r \in Slots, NEW q \in Held, req' = [req EXCEPT ![r] = q],
         q.pc # "duplicate"
  PROVE  /\ req' \in [Slots -> Held]
         /\ \A s \in Slots : req'[s].pc = "duplicate" => req'[s] = req[s]
BY DEF IInv

\* A request that goes on.
LEMMA GotoIs ==
  ASSUME IInv, NEW r \in Slots, req[r].pc \in Working,
         NEW pc \in Working \ {"limit"}, pc = "turnstile" => Turnstile, Goto(r, pc)
  PROVE  /\ req' \in [Slots -> Held]
         /\ \A s \in Slots : req'[s].pc = "duplicate" => req'[s] = req[s]
<1> DEFINE asked == IF pc \in {"limit", "dedupe"} THEN clock ELSE 0
           q == [req[r] EXCEPT !.pc = pc, !.asked = asked]
<1>1. req \in [Slots -> Held] /\ clock \in Nat /\ asked \in Nat
  BY DEF IInv, TypeOK
<1>2. req[r] \in Held
  BY <1>1
<1>3. q \in Request
  BY <1>1, <1>2 DEF Request, Held
<1>4. q.pc = pc /\ q.msg = req[r].msg /\ q.token = req[r].token /\ pc # "duplicate"
  BY <1>2 DEF Request, Working, Held
<1>5. req' = [req EXCEPT ![r] = q]
  BY <1>1 DEF Goto
<1> HIDE DEF q
<1>6. q \in Held
  BY <1>2, <1>3, <1>4 DEF Held
<1> QED BY <1>4, <1>5, <1>6, OneSlot

\* A request that ends.
LEMMA EndIs ==
  ASSUME IInv, NEW r \in Slots,
         NEW pc \in {"idle", "received", "turnstile_failed", "email_failed"}, End(r, pc)
  PROVE  /\ req' \in [Slots -> Held]
         /\ \A s \in Slots : req'[s].pc = "duplicate" => req'[s] = req[s]
<1> DEFINE q == [Idle EXCEPT !.pc = pc]
<1>1. q \in Held /\ q.pc = pc /\ pc # "duplicate"
  BY DEF Idle, Request, Refusals, Working, Held
<1>2. req' = [req EXCEPT ![r] = q]
  BY DEF End
<1> HIDE DEF q
<1> QED BY <1>1, <1>2, OneSlot

\* The NOW() of a statement is a time.
LEMMA Times ==
  ASSUME IInv, NEW r \in Slots, NEW now \in StatementTimes(r)
  PROVE  now \in Nat
BY DEF IInv, TypeOK, StatementTimes, Request

-----------------------------------------------------------------------------
(* Steps *)

LEMMA InitIInv == Init => IInv
<1> SUFFICES ASSUME Init PROVE IInv
  OBVIOUS
<1>1. DOMAIN limits = {} /\ DOMAIN dedupe = {}
  BY DEF Init
<1>2. req \in [Slots -> Held] /\ \A r \in Slots : req[r] \in Request
  BY IdleHeld DEF Init, Held
<1>3. TypeOK
  BY <1>1, <1>2 DEF Init, TypeOK
<1>4. \A r \in Slots : req[r].pc # "duplicate"
  BY DEF Init, Idle
<1>5. \A msg \in Messages : passes[msg] = <<>> /\ DOMAIN passes[msg] = {}
  BY DEF Init
<1> QED
  BY <1>1, <1>2, <1>3, <1>4, <1>5
     DEF IInv, CountsTheWindow, DedupeInv, RecordedOncePerWindow, DuplicateIsFresh

LEMMA ArriveKeeps ==
  ASSUME IInv, NEW r \in Slots, NEW ip \in Ips \cup {None}, NEW msg \in Messages,
         NEW token \in Tokens \cup {None}, Arrive(r, ip, msg, token)
  PROVE  IInv'
<1> DEFINE q == [pc |-> IF ip = None THEN "dedupe" ELSE "limit", ip |-> ip,
                 msg |-> msg, token |-> token, asked |-> clock, now |-> 0, count |-> 0]
<1>1. clock \in Nat /\ arrivals' \in Nat
  BY DEF IInv, TypeOK, Arrive
<1>2. Turnstile => token \in Tokens
  BY DEF Arrive
<1>3. q \in Held /\ q.pc # "duplicate"
  BY <1>1, <1>2 DEF Request, Working, Held
<1>4. req' = [req EXCEPT ![r] = q]
  BY DEF Arrive
<1>5. /\ req' \in [Slots -> Held]
      /\ \A s \in Slots : req'[s].pc = "duplicate" => req'[s] = req[s]
  <2> HIDE DEF q
  <2> QED BY <1>3, <1>4, OneSlot
<1>6. UNCHANGED <<clock, limits, dedupe, burned, hits, passes, waved, sent>>
  BY DEF Arrive
<1> QED BY <1>1, <1>5, <1>6, Apart DEF IInv, TypeOK

\* A statement that counts a request goes on with the window of its row, or
\* begins one.
LEMMA CountRequestKeeps ==
  ASSUME IInv, NEW r \in Slots, CountRequest(r)
  PROVE  IInv'
<1> DEFINE ip == req[r].ip
<1>0. /\ clock \in Nat /\ req \in [Slots -> Held] /\ req[r] \in Held
      /\ hits \in [Ips -> Seq(Nat)] /\ ip \in Ips /\ Window \in Nat
      /\ DOMAIN limits \subseteq Ips
      /\ \A i \in DOMAIN limits : limits[i] \in [count : Nat, expires : Nat]
  BY NumbersAssumption DEF IInv, TypeOK, CountRequest, Held
<1>1. PICK now \in StatementTimes(r) :
         LET row == Counted(ip, now) IN
         /\ limits' = [i \in DOMAIN limits \cup {ip} |->
                           IF i = ip THEN row ELSE limits[i]]
         /\ hits' = [hits EXCEPT ![ip] = Append(@, now)]
         /\ req' = [req EXCEPT
               ![r].pc = IF CountDecodes /\ row.count > MaxPerIp
                         THEN "rate_limited" ELSE "dedupe",
               ![r].asked = clock, ![r].count = row.count]
  BY DEF CountRequest
<1>2. now \in Nat
  BY Times
<1> DEFINE row == Counted(ip, now)
           all == hits[ip]
           more == Append(all, now)
<1>3. row \in [count : Nat, expires : Nat]
  <2>1. CASE ip \in DOMAIN limits /\ limits[ip].expires > now
    <3>1. limits[ip] \in [count : Nat, expires : Nat] /\ limits[ip].count + 1 \in Nat
      BY <1>0, <2>1
    <3>2. row = [limits[ip] EXCEPT !.count = limits[ip].count + 1]
      BY <2>1 DEF Counted
    <3> HIDE DEF row
    <3> QED BY <3>1, <3>2
  <2>2. CASE ~(ip \in DOMAIN limits /\ limits[ip].expires > now)
    <3>1. now + Window \in Nat
      BY <1>0, <1>2
    <3> QED BY <2>2, <3>1 DEF Counted
  <2> QED BY <2>1, <2>2
<1>4. req' \in [Slots -> Held] /\ req'[r].pc # "duplicate"
  <2> DEFINE pc == IF CountDecodes /\ row.count > MaxPerIp THEN "rate_limited" ELSE "dedupe"
             q == [req[r] EXCEPT !.pc = pc, !.asked = clock, !.count = row.count]
  <2>1. req' = [req EXCEPT ![r] = q]
    BY <1>0, <1>1
  <2>2. pc \in {"rate_limited", "dedupe"} /\ row.count \in Nat
    BY <1>3
  <2> HIDE DEF pc, row
  <2>3. q \in Request /\ q.pc = pc /\ q.msg = req[r].msg /\ q.token = req[r].token
    BY <1>0, <2>2 DEF Request, Working, Refusals, Held
  <2> HIDE DEF q
  <2>4. q \in Held
    BY <1>0, <2>2, <2>3 DEF Held, CountRequest, Working
  <2> QED BY <1>0, <2>1, <2>2, <2>3, <2>4
<1>5. /\ more \in Seq(Nat) /\ Len(more) = Len(all) + 1 /\ Len(all) \in Nat
      /\ \A i \in 1 .. Len(all) : more[i] = all[i]
      /\ more[Len(all) + 1] = now
      /\ DOMAIN all = 1 .. Len(all) /\ DOMAIN more = 1 .. Len(more)
  BY <1>0, <1>2, AppendProperties, LenProperties
<1>6. /\ DOMAIN limits' = DOMAIN limits \cup {ip}
      /\ limits'[ip] = row
      /\ \A i \in DOMAIN limits \ {ip} : limits'[i] = limits[i]
      /\ hits' \in [Ips -> Seq(Nat)] /\ hits'[ip] = more
      /\ \A i \in Ips \ {ip} : hits'[i] = hits[i]
  BY <1>0, <1>1, <1>5
<1>7. UNCHANGED <<clock, dedupe, burned, arrivals, passes, waved, sent>>
  BY DEF CountRequest
<1>8. TypeOK'
  <2>1. req' \in [Slots -> Request]
    BY <1>4 DEF Held
  <2>2. \A i \in DOMAIN limits' : limits'[i] \in [count : Nat, expires : Nat]
    <3> HIDE DEF row
    <3> QED BY <1>0, <1>3, <1>6
  <2> HIDE DEF row, more
  <2> QED BY <1>0, <1>6, <1>7, <2>1, <2>2 DEF IInv, TypeOK
<1>9. CountsTheWindow'
  <2> SUFFICES ASSUME NEW i \in DOMAIN limits'
               PROVE  LET first == Len(hits'[i]) - limits'[i].count + 1 IN
                        /\ first \in DOMAIN hits'[i]
                        /\ limits'[i].expires = hits'[i][first] + Window
                        /\ \A j \in first + 1 .. Len(hits'[i]) :
                              hits'[i][j] < limits'[i].expires
    BY DEF CountsTheWindow
  <2>1. CASE i # ip
    <3>1. i \in DOMAIN limits /\ i \in Ips /\ limits'[i] = limits[i] /\ hits'[i] = hits[i]
      BY <1>0, <1>6, <2>1
    <3> QED BY <3>1 DEF IInv, CountsTheWindow
  <2>2. CASE i = ip /\ ip \in DOMAIN limits /\ limits[ip].expires > now
    <3> DEFINE first == Len(all) - limits[ip].count + 1
    <3>1. /\ first \in DOMAIN all
          /\ limits[ip].expires = all[first] + Window
          /\ \A j \in first + 1 .. Len(all) : all[j] < limits[ip].expires
      BY <2>2 DEF IInv, CountsTheWindow
    <3>2. row.count = limits[ip].count + 1 /\ row.expires = limits[ip].expires
      BY <1>0, <2>2 DEF Counted
    <3>3. Len(more) - row.count + 1 = first /\ first \in 1 .. Len(all)
      <4>1. limits[ip].count \in Nat
        BY <1>0, <2>2
      <4>2. first \in 1 .. Len(all)
        BY <1>5, <3>1
      <4>3. Len(more) = Len(all) + 1 /\ Len(all) \in Nat
        BY <1>5
      <4> DEFINE lengthOfMore == Len(more)  lengthOfAll == Len(all)
                 counted == limits[ip].count  rowCount == row.count
      <4>4. /\ lengthOfMore = lengthOfAll + 1 /\ lengthOfAll \in Nat
            /\ counted \in Nat /\ rowCount = counted + 1
            /\ first = lengthOfAll - counted + 1
        BY <3>2, <4>1, <4>3
      <4> HIDE DEF lengthOfMore, lengthOfAll, counted, rowCount, first
      <4>5. lengthOfMore - rowCount + 1 = first
        BY <4>4
      <4> QED BY <4>2, <4>5 DEF lengthOfMore, rowCount
    <3> HIDE DEF first, row, more, all
    <3>4. more[first] = all[first] /\ first \in DOMAIN more
      BY <1>5, <3>3
    <3>5. \A j \in first + 1 .. Len(more) : more[j] < row.expires
      <4> SUFFICES ASSUME NEW j \in first + 1 .. Len(more) PROVE more[j] < row.expires
        OBVIOUS
      <4>1. CASE j = Len(all) + 1
        BY <1>5, <2>2, <3>2, <4>1
      <4>2. CASE j # Len(all) + 1
        <5>1. j \in Int /\ first + 1 <= j /\ j <= Len(all) + 1 /\ first \in Nat
              /\ Len(all) \in Nat /\ 1 <= first
          BY <1>5, <3>3
        <5>2. j <= Len(all) /\ 1 <= j
          BY <4>2, <5>1
        <5>3. j \in first + 1 .. Len(all) /\ j \in 1 .. Len(all)
          BY <5>1, <5>2
        <5> QED BY <1>5, <3>1, <3>2, <5>3
      <4> QED BY <4>1, <4>2
    <3> QED BY <1>6, <2>2, <3>1, <3>2, <3>3, <3>4, <3>5
  <2>3. CASE i = ip /\ ~(ip \in DOMAIN limits /\ limits[ip].expires > now)
    <3>1. row = [count |-> 1, expires |-> now + Window]
      BY <2>3 DEF Counted
    <3>2. Len(more) - row.count + 1 = Len(all) + 1
      BY <1>5, <3>1
    <3>3. Len(all) + 1 \in DOMAIN more /\ (Len(all) + 1) + 1 .. Len(more) = {}
      BY <1>5
    <3> HIDE DEF row, more, all
    <3>4. row.count = 1 /\ row.expires = now + Window
      BY <3>1
    <3> QED BY <1>5, <1>6, <2>3, <3>2, <3>3, <3>4
  <2> QED BY <2>1, <2>2, <2>3
<1>10. DedupeInv' /\ RecordedOncePerWindow'
  BY <1>7 DEF IInv, DedupeInv, RecordedOncePerWindow
<1>11. DuplicateIsFresh'
  <2>1. \A s \in Slots : req'[s].pc = "duplicate" => req'[s] = req[s]
    BY <1>0, <1>1, <1>4
  <2> QED BY <1>7, <2>1 DEF IInv, DuplicateIsFresh
<1> QED BY <1>4, <1>8, <1>9, <1>10, <1>11 DEF IInv

\* A message is recorded only when its last record is over.
LEMMA RecordKeeps ==
  ASSUME IInv, NEW r \in Slots, Record(r)
  PROVE  IInv'
<1> DEFINE msg == req[r].msg
           all == passes[msg]
<1>0. /\ clock \in Nat /\ req \in [Slots -> Held] /\ req[r] \in Held
      /\ passes \in [Messages -> Seq(Nat)] /\ msg \in Messages /\ DedupeWindow \in Nat
      /\ DOMAIN dedupe \subseteq Messages /\ \A m \in DOMAIN dedupe : dedupe[m] \in Nat
  BY NumbersAssumption DEF IInv, TypeOK, Record, Held, Working
<1>1. PICK now \in StatementTimes(r) :
         /\ msg \in DOMAIN dedupe => dedupe[msg] <= now
         /\ dedupe' = [m \in DOMAIN dedupe \cup {msg} |->
                           IF m = msg THEN now + DedupeWindow ELSE dedupe[m]]
         /\ passes' = [passes EXCEPT ![msg] = Append(all, now)]
         /\ req' = [req EXCEPT ![r].pc = IF Turnstile THEN "turnstile" ELSE "mail",
                               ![r].asked = 0, ![r].now = 0]
  BY DEF Record
<1>2. now \in Nat
  BY Times
<1> DEFINE more == Append(all, now)
<1>3. req' \in [Slots -> Held] /\ \A s \in Slots : req'[s].pc = "duplicate" => req'[s] = req[s]
  <2> DEFINE pc == IF Turnstile THEN "turnstile" ELSE "mail"
             q == [req[r] EXCEPT !.pc = pc, !.asked = 0, !.now = 0]
  <2>1. req' = [req EXCEPT ![r] = q]
    BY <1>0, <1>1
  <2>2. pc \in {"turnstile", "mail"} /\ (pc = "turnstile" => Turnstile)
    OBVIOUS
  <2> HIDE DEF pc
  <2>3. q \in Request /\ q.pc = pc /\ q.msg = req[r].msg /\ q.token = req[r].token
    BY <1>0, <2>2 DEF Request, Working, Refusals, Held
  <2> HIDE DEF q
  <2>4. q \in Held
    BY <1>0, <2>2, <2>3 DEF Held, Record, Working
  <2> QED BY <2>1, <2>2, <2>3, <2>4, OneSlot
<1>4. /\ more \in Seq(Nat) /\ Len(more) = Len(all) + 1 /\ Len(all) \in Nat
      /\ \A i \in 1 .. Len(all) : more[i] = all[i] /\ all[i] \in Nat
      /\ more[Len(all) + 1] = now
      /\ DOMAIN all = 1 .. Len(all) /\ DOMAIN more = 1 .. Len(more)
      /\ (all # <<>> => Len(all) >= 1) /\ more # <<>>
  <2>0. all \in Seq(Nat)
    BY <1>0
  <2> HIDE DEF all
  <2>1. /\ more \in Seq(Nat) /\ Len(more) = Len(all) + 1 /\ Len(all) \in Nat
        /\ \A i \in 1 .. Len(all) : more[i] = all[i]
        /\ more[Len(all) + 1] = now
        /\ DOMAIN all = 1 .. Len(all) /\ DOMAIN more = 1 .. Len(more)
    BY <1>2, <2>0, AppendProperties, LenProperties
  <2>2. \A i \in 1 .. Len(all) : all[i] \in Nat
    BY <2>0, ElementOfSeq
  <2>3. all # <<>> => Len(all) >= 1
    BY <2>0, <2>1, EmptySeq
  <2>4. more # <<>>
    BY <1>2, <2>0, AppendProperties
  <2> QED BY <2>1, <2>2, <2>3, <2>4
<1>5. /\ DOMAIN dedupe' = DOMAIN dedupe \cup {msg}
      /\ dedupe'[msg] = now + DedupeWindow
      /\ \A m \in DOMAIN dedupe \ {msg} : dedupe'[m] = dedupe[m]
      /\ passes' \in [Messages -> Seq(Nat)] /\ passes'[msg] = more
      /\ \A m \in Messages \ {msg} : passes'[m] = passes[m]
  BY <1>0, <1>1, <1>4
<1>6. UNCHANGED <<clock, limits, burned, arrivals, hits, waved, sent>>
  BY DEF Record
<1>7. TypeOK'
  <2>1. req' \in [Slots -> Request]
    BY <1>3 DEF Held
  <2>2. \A m \in DOMAIN dedupe' : m \in Messages /\ dedupe'[m] \in Nat
    BY <1>0, <1>2, <1>5
  <2> QED BY <1>5, <1>6, <2>1, <2>2 DEF IInv, TypeOK
<1>8. CountsTheWindow'
  BY <1>6 DEF IInv, CountsTheWindow
<1>9. DedupeInv'
  <2> SUFFICES ASSUME NEW m \in Messages
               PROVE  /\ m \in DOMAIN dedupe' <=> passes'[m] # <<>>
                      /\ m \in DOMAIN dedupe' =>
                            dedupe'[m] = passes'[m][Len(passes'[m])] + DedupeWindow
    BY DEF DedupeInv
  <2> HIDE DEF more, all
  <2>1. CASE m = msg
    BY <1>4, <1>5, <2>1
  <2>2. CASE m # msg
    <3>1. passes'[m] = passes[m] /\ (m \in DOMAIN dedupe' <=> m \in DOMAIN dedupe)
          /\ (m \in DOMAIN dedupe => dedupe'[m] = dedupe[m])
      BY <1>5, <2>2
    <3> QED BY <3>1 DEF IInv, DedupeInv
  <2> QED BY <2>1, <2>2
<1>10. RecordedOncePerWindow'
  <2>1. \A i \in 1 .. Len(all) : now >= all[i] + DedupeWindow
    <3> SUFFICES ASSUME NEW i \in 1 .. Len(all) PROVE now >= all[i] + DedupeWindow
      OBVIOUS
    <3> DEFINE last == all[Len(all)]
    <3>1. all # <<>> /\ Len(all) \in 1 .. Len(all)
      BY <1>4, EmptySeq
    <3>2. now >= last + DedupeWindow
      BY <1>0, <1>1, <3>1 DEF IInv, DedupeInv
    <3>3. i = Len(all) \/ i < Len(all)
      BY <1>4
    <3>4. i < Len(all) => last >= all[i] + DedupeWindow
      BY <1>0, <1>4, <3>1 DEF IInv, RecordedOncePerWindow
    <3>5. all[i] \in Nat /\ last \in Nat
      BY <1>4, <3>1
    <3> HIDE DEF all, last
    <3> QED
      <4>1. CASE i = Len(all)
        BY <3>2, <4>1 DEF last
      <4>2. CASE i < Len(all)
        BY <1>0, <1>2, <3>2, <3>4, <3>5, <4>2
      <4> QED BY <3>3, <4>1, <4>2
  <2> SUFFICES ASSUME NEW m \in Messages, NEW i \in DOMAIN passes'[m],
                      NEW j \in DOMAIN passes'[m], i < j
               PROVE  passes'[m][j] >= passes'[m][i] + DedupeWindow
    BY DEF RecordedOncePerWindow
  <2>2. CASE m # msg
    BY <1>5, <2>2 DEF IInv, RecordedOncePerWindow
  <2>3. CASE m = msg
    <3>1. i \in 1 .. Len(all) + 1 /\ j \in 1 .. Len(all) + 1 /\ Len(all) \in Nat
      BY <1>4, <1>5, <2>3
    <3>2. i \in 1 .. Len(all)
      BY <3>1
    <3>3. CASE j = Len(all) + 1
      <4>1. passes'[m] = more /\ more[j] = now /\ more[i] = all[i]
        BY <1>4, <1>5, <2>3, <3>2, <3>3
      <4> HIDE DEF more, all
      <4> QED BY <2>1, <3>2, <4>1
    <3>4. CASE j # Len(all) + 1
      <4>1. j \in 1 .. Len(all)
        BY <3>1, <3>4
      <4>2. all[j] >= all[i] + DedupeWindow
        BY <1>0, <1>4, <3>2, <4>1 DEF IInv, RecordedOncePerWindow
      <4> QED BY <1>4, <1>5, <2>3, <3>2, <4>1, <4>2
    <3> QED BY <3>3, <3>4
  <2> QED BY <2>2, <2>3
<1>11. DuplicateIsFresh'
  <2> SUFFICES ASSUME NEW s \in Slots, req'[s].pc = "duplicate"
               PROVE  \E i \in DOMAIN passes'[req'[s].msg] :
                         req'[s].now < passes'[req'[s].msg][i] + DedupeWindow
    BY DEF DuplicateIsFresh
  <2>1. req'[s] = req[s] /\ req[s].msg \in Messages
    BY <1>0, <1>3 DEF Held
  <2>2. PICK i \in DOMAIN passes[req[s].msg] :
               req[s].now < passes[req[s].msg][i] + DedupeWindow
    BY <2>1 DEF IInv, DuplicateIsFresh
  <2>3. i \in DOMAIN passes'[req[s].msg] /\ passes'[req[s].msg][i] = passes[req[s].msg][i]
    <3>1. CASE req[s].msg # msg
      BY <1>5, <2>1, <2>2, <3>1
    <3>2. CASE req[s].msg = msg
      <4>1. i \in 1 .. Len(all)
        BY <1>4, <2>2, <3>2
      <4>2. i \in 1 .. Len(more) /\ more[i] = all[i]
        BY <1>4, <4>1
      <4>3. passes'[req[s].msg] = more /\ passes[req[s].msg] = all
        BY <1>5, <3>2
      <4> HIDE DEF more, all
      <4> QED BY <1>4, <4>2, <4>3
    <3> QED BY <3>1, <3>2
  <2> QED BY <2>1, <2>2, <2>3
<1> QED BY <1>3, <1>7, <1>8, <1>9, <1>10, <1>11 DEF IInv

\* The record that refuses a request ends a window after the last pass.
LEMMA RefuseDuplicateKeeps ==
  ASSUME IInv, NEW r \in Slots, RefuseDuplicate(r)
  PROVE  IInv'
<1> DEFINE msg == req[r].msg
           all == passes[msg]
<1>0. /\ clock \in Nat /\ req \in [Slots -> Held] /\ req[r] \in Held
      /\ passes \in [Messages -> Seq(Nat)] /\ msg \in Messages /\ DedupeWindow \in Nat
  BY NumbersAssumption DEF IInv, TypeOK, RefuseDuplicate, Held, Working
<1>1. PICK now \in StatementTimes(r) :
         /\ msg \in DOMAIN dedupe
         /\ dedupe[msg] > now
         /\ req' = [req EXCEPT ![r].pc = "duplicate", ![r].asked = 0, ![r].now = now]
  BY DEF RefuseDuplicate
<1>2. now \in Nat
  BY Times
<1> DEFINE q == [req[r] EXCEPT !.pc = "duplicate", !.asked = 0, !.now = now]
<1>3. req' = [req EXCEPT ![r] = q]
  BY <1>0, <1>1
<1>4. q \in Request /\ q.pc = "duplicate" /\ q.msg = msg /\ q.now = now
  BY <1>0, <1>2 DEF Request, Refusals, Held
<1> HIDE DEF q
<1>5. q \in Held
  BY <1>0, <1>4 DEF Held, Working
<1>6. req' \in [Slots -> Held] /\ req'[r] = q /\ \A s \in Slots \ {r} : req'[s] = req[s]
  BY <1>0, <1>3, <1>5
<1>7. UNCHANGED <<clock, limits, dedupe, burned, arrivals, hits, passes, waved, sent>>
  BY DEF RefuseDuplicate
<1>8. TypeOK'
  <2>1. req' \in [Slots -> Request]
    BY <1>6 DEF Held
  <2> QED BY <1>7, <2>1 DEF IInv, TypeOK
<1>9. CountsTheWindow' /\ DedupeInv' /\ RecordedOncePerWindow'
  BY <1>7 DEF IInv, CountsTheWindow, DedupeInv, RecordedOncePerWindow
<1>10. DuplicateIsFresh'
  <2>1. Len(all) \in DOMAIN all /\ now < all[Len(all)] + DedupeWindow
    <3>1. all # <<>> /\ dedupe[msg] = all[Len(all)] + DedupeWindow
      BY <1>0, <1>1 DEF IInv, DedupeInv
    <3>2. Len(all) \in DOMAIN all /\ all[Len(all)] \in Nat
      BY <1>0, <3>1, LenProperties, EmptySeq, ElementOfSeq
    <3> HIDE DEF all
    <3> QED BY <1>0, <1>1, <1>2, <3>1, <3>2
  <2> SUFFICES ASSUME NEW s \in Slots, req'[s].pc = "duplicate"
               PROVE  \E i \in DOMAIN passes'[req'[s].msg] :
                         req'[s].now < passes'[req'[s].msg][i] + DedupeWindow
    BY DEF DuplicateIsFresh
  <2>2. CASE s = r
    BY <1>4, <1>6, <1>7, <2>1, <2>2
  <2>3. CASE s # r
    BY <1>6, <1>7, <2>3 DEF IInv, DuplicateIsFresh
  <2> QED BY <2>2, <2>3
<1> QED BY <1>6, <1>8, <1>9, <1>10 DEF IInv

LEMMA NextIInv == IInv /\ [Next]_vars => IInv'
<1> SUFFICES ASSUME IInv, [Next]_vars PROVE IInv'
  OBVIOUS
<1>t. /\ clock \in Nat /\ arrivals \in Nat /\ burned \subseteq Tokens
      /\ waved \in [Messages -> Nat] /\ sent \in [Messages -> Nat]
      /\ req \in [Slots -> Held]
  BY DEF IInv, TypeOK
<1>1. CASE UNCHANGED vars
  BY <1>1, <1>t, Apart DEF vars
<1>2. CASE Tick
  BY <1>2, <1>t, Apart DEF Tick
<1>3. ASSUME NEW r \in Slots, Step(r) PROVE IInv'
  <2>t. /\ req[r] \in Held
        /\ req[r].pc \in Working => req[r].msg \in Messages
        /\ req[r].pc = "turnstile" => req[r].token \in Tokens
    BY <1>t DEF Held, Working
  <2>1. ASSUME NEW ip \in Ips \cup {None}, NEW msg \in Messages,
               NEW token \in Tokens \cup {None}, Arrive(r, ip, msg, token)
        PROVE  IInv'
    BY <2>1, ArriveKeeps
  <2>2. CASE CountRequest(r)
    BY <2>2, CountRequestKeeps
  <2>3. CASE CountUnavailable(r)
    BY <1>t, <2>3, GotoIs, Apart DEF CountUnavailable, Working
  <2>4. CASE Record(r)
    BY <2>4, RecordKeeps
  <2>5. CASE RefuseDuplicate(r)
    BY <2>5, RefuseDuplicateKeeps
  <2>6. CASE RecordUnavailable(r)
    <3> DEFINE pc == IF Turnstile THEN "turnstile" ELSE "mail"
    <3>1. Goto(r, pc) /\ req[r].pc \in Working
      BY <2>6 DEF RecordUnavailable, Working
    <3>2. pc \in Working \ {"limit"} /\ (pc = "turnstile" => Turnstile)
      BY DEF Working
    <3> HIDE DEF pc
    <3>3. /\ req' \in [Slots -> Held]
          /\ \A s \in Slots : req'[s].pc = "duplicate" => req'[s] = req[s]
      BY <3>1, <3>2, GotoIs
    <3>4. waved' \in [Messages -> Nat]
      BY <1>t, <2>6, <2>t, <3>1 DEF RecordUnavailable
    <3>5. UNCHANGED <<clock, limits, dedupe, burned, arrivals, hits, passes, sent>>
      BY <2>6 DEF RecordUnavailable
    <3> QED BY <1>t, <3>3, <3>4, <3>5, Apart
  <2>7. CASE Verify(r)
    BY <1>t, <2>t, <2>7, GotoIs, Apart DEF Verify, Working
  <2>8. CASE VerifyFails(r)
    BY <1>t, <2>t, <2>8, EndIs, Apart DEF VerifyFails
  <2>9. ASSUME Mail(r) \/ MailFails(r) PROVE IInv'
    <3>1. req[r].msg \in Messages
      BY <2>9, <2>t DEF Mail, MailFails, Working
    <3>2. sent' \in [Messages -> Nat]
      <4>1. CASE Mail(r)
        BY <1>t, <3>1, <4>1 DEF Mail
      <4>2. CASE MailFails(r)
        <5>1. PICK mailed \in 0 .. 1 : sent' = [sent EXCEPT ![req[r].msg] = @ + mailed]
          BY <4>2 DEF MailFails
        <5> QED BY <1>t, <3>1, <5>1
      <4> QED BY <2>9, <4>1, <4>2
    <3>3. /\ req' \in [Slots -> Held]
          /\ \A s \in Slots : req'[s].pc = "duplicate" => req'[s] = req[s]
      BY <2>9, EndIs DEF Mail, MailFails
    <3>4. UNCHANGED <<clock, limits, dedupe, burned, arrivals, hits, passes, waved>>
      BY <2>9 DEF Mail, MailFails
    <3> QED BY <1>t, <3>2, <3>3, <3>4, Apart
  <2>10. CASE Drop(r)
    BY <1>t, <2>10, EndIs, Apart DEF Drop
  <2> QED BY <1>3, <2>1, <2>2, <2>3, <2>4, <2>5, <2>6, <2>7, <2>8, <2>9, <2>10 DEF Step
<1> QED BY <1>1, <1>2, <1>3 DEF Next

LEMMA Invariant == Spec => []IInv
BY InitIInv, NextIInv, PTL DEF Spec

-----------------------------------------------------------------------------
(* Mails *)

\* r was let through with the message and has not been mailed or refused yet.
LetThrough(r, msg) == req[r].pc \in {"turnstile", "mail"} /\ req[r].msg = msg

Through(msg) == {r \in Slots : LetThrough(r, msg)}

\* Every request let through is mailed yet, or can be mailed once, or is lost.
Budget(msg) ==
    /\ IsFiniteSet(Through(msg))
    /\ sent[msg] + Cardinality(Through(msg)) <= Len(passes[msg]) + waved[msg]

MailInv == \A msg \in Messages : Budget(msg)

\* The budget after a step of one request: it has to let a request through that
\* is let through now and was not, and may mail one that is no longer.
LEMMA BudgetKept ==
  ASSUME IInv, NEW r \in Slots, NEW msg \in Messages, Budget(msg),
         \A s \in Slots \ {r} : req'[s] = req[s],
         passes'[msg] \in Seq(Nat), waved'[msg] \in Nat, sent'[msg] \in Nat,
         Len(passes'[msg]) + waved'[msg] >= Len(passes[msg]) + waved[msg],
         LetThrough(r, msg)' /\ ~LetThrough(r, msg) =>
            Len(passes'[msg]) + waved'[msg] >= Len(passes[msg]) + waved[msg] + 1,
         sent'[msg] = sent[msg] \/
            (sent'[msg] = sent[msg] + 1 /\ LetThrough(r, msg) /\ ~LetThrough(r, msg)')
  PROVE  Budget(msg)'
<1> DEFINE T == Through(msg)
           p == Len(passes[msg]) + waved[msg]
           q == Len(passes'[msg]) + waved'[msg]
<1>1. /\ IsFiniteSet(T) /\ Cardinality(T) \in Nat
      /\ sent[msg] \in Nat /\ sent'[msg] \in Nat /\ p \in Nat /\ q \in Nat
      /\ sent[msg] + Cardinality(T) <= p /\ q >= p
  <2>1. passes[msg] \in Seq(Nat) /\ waved[msg] \in Nat /\ sent[msg] \in Nat
    BY DEF IInv, TypeOK
  <2> QED BY <2>1, FS_CardinalityType, LenProperties DEF Budget
<1>2. \A s \in Slots \ {r} : s \in Through(msg)' <=> s \in T
  BY DEF Through, LetThrough
<1>3. T \subseteq Slots /\ Through(msg)' \subseteq Slots
      /\ (r \in T <=> LetThrough(r, msg)) /\ (r \in Through(msg)' <=> LetThrough(r, msg)')
  BY DEF Through
<1> HIDE DEF T, p, q
<1>4. CASE LetThrough(r, msg)'
  <2>1. Through(msg)' = T \cup {r} /\ sent'[msg] = sent[msg]
    BY <1>2, <1>3, <1>4
  <2>2. /\ IsFiniteSet(T \cup {r})
        /\ Cardinality(T \cup {r}) = IF r \in T THEN Cardinality(T) ELSE Cardinality(T) + 1
    BY <1>1, FS_AddElement
  <2>3. r \notin T => q >= p + 1
    BY <1>3, <1>4 DEF p, q
  <2>4. sent'[msg] + Cardinality(T \cup {r}) <= q
    BY <1>1, <2>1, <2>2, <2>3
  <2> QED BY <2>1, <2>2, <2>4 DEF Budget, q
<1>5. CASE ~LetThrough(r, msg)'
  <2>1. Through(msg)' = T \ {r}
    BY <1>2, <1>3, <1>5
  <2>2. /\ IsFiniteSet(T \ {r})
        /\ Cardinality(T \ {r}) = IF r \in T THEN Cardinality(T) - 1 ELSE Cardinality(T)
    BY <1>1, FS_RemoveElement
  <2>3. sent'[msg] = sent[msg] \/ (sent'[msg] = sent[msg] + 1 /\ r \in T)
    BY <1>3
  <2>4. sent'[msg] + Cardinality(T \ {r}) <= q
    BY <1>1, <2>2, <2>3
  <2> QED BY <2>1, <2>2, <2>4 DEF Budget, q
<1> QED BY <1>4, <1>5

\* A step that lets no request through and mails nothing.
LEMMA NothingSpent ==
  ASSUME IInv, NEW r \in Slots, NEW msg \in Messages, Budget(msg),
         \A s \in Slots \ {r} : req'[s] = req[s],
         LetThrough(r, msg)' => LetThrough(r, msg),
         UNCHANGED <<passes, waved, sent>>
  PROVE  Budget(msg)'
<1>1. /\ passes'[msg] \in Seq(Nat) /\ waved'[msg] \in Nat /\ sent'[msg] \in Nat
      /\ Len(passes'[msg]) \in Nat
      /\ Len(passes'[msg]) = Len(passes[msg]) /\ waved'[msg] = waved[msg]
      /\ sent'[msg] = sent[msg]
  BY LenProperties DEF IInv, TypeOK
<1>2. Len(passes'[msg]) + waved'[msg] >= Len(passes[msg]) + waved[msg]
  BY <1>1
<1> QED BY <1>1, <1>2, BudgetKept

LEMMA InitMailInv == Init => MailInv
<1> SUFFICES ASSUME Init, NEW msg \in Messages PROVE Budget(msg)
  BY DEF MailInv
<1>1. Through(msg) = {}
  BY DEF Init, Idle, Through, LetThrough
<1>2. passes[msg] = <<>> /\ waved[msg] = 0 /\ sent[msg] = 0 /\ Len(<<>>) = 0
  BY DEF Init
<1> QED BY <1>1, <1>2, FS_EmptySet DEF Budget

\* A step that leaves the requests, and what is let through and mailed, alone.
LEMMA BudgetUntouched ==
  ASSUME NEW msg \in Messages, Budget(msg), UNCHANGED <<req, passes, waved, sent>>
  PROVE  Budget(msg)'
BY DEF Budget, Through, LetThrough

LEMMA NextMailInv == IInv /\ IInv' /\ MailInv /\ [Next]_vars => MailInv'
<1> SUFFICES ASSUME IInv, IInv', [Next]_vars, NEW msg \in Messages, Budget(msg)
             PROVE  Budget(msg)'
  BY DEF MailInv
<1>t. /\ passes'[msg] \in Seq(Nat) /\ waved'[msg] \in Nat /\ sent'[msg] \in Nat
      /\ passes[msg] \in Seq(Nat) /\ waved[msg] \in Nat /\ sent[msg] \in Nat
      /\ Len(passes[msg]) \in Nat
      /\ passes \in [Messages -> Seq(Nat)] /\ waved \in [Messages -> Nat]
      /\ sent \in [Messages -> Nat] /\ req \in [Slots -> Held]
  BY LenProperties DEF IInv, TypeOK
<1>1. CASE UNCHANGED vars
  BY <1>1, BudgetUntouched DEF vars
<1>2. CASE Tick
  BY <1>2, BudgetUntouched DEF Tick
<1>3. ASSUME NEW r \in Slots, Step(r) PROVE Budget(msg)'
  <2>t. req[r] \in Held /\ req[r] \in Request
    BY <1>t DEF Held
  <2>1. ASSUME NEW ip \in Ips \cup {None}, NEW m \in Messages,
               NEW token \in Tokens \cup {None}, Arrive(r, ip, m, token)
        PROVE  Budget(msg)'
    <3>1. /\ \A s \in Slots \ {r} : req'[s] = req[s]
          /\ LetThrough(r, msg)' => LetThrough(r, msg)
      BY <1>t, <2>1 DEF Arrive, LetThrough
    <3>2. passes' = passes /\ waved' = waved /\ sent' = sent
      BY <2>1 DEF Arrive
    <3> QED BY <1>3, <1>t, <3>1, <3>2, NothingSpent
  <2>2. ASSUME CountRequest(r) \/ CountUnavailable(r) \/ RefuseDuplicate(r) PROVE Budget(msg)'
    <3>1. \A s \in Slots \ {r} : req'[s] = req[s]
      BY <1>t, <2>2 DEF CountRequest, CountUnavailable, RefuseDuplicate, Goto
    <3>2. LetThrough(r, msg)' => LetThrough(r, msg)
      <4>1. req'[r].pc \in {"dedupe", "rate_limited", "duplicate"}
        <5>1. CASE CountRequest(r)
          BY <1>t, <2>t, <5>1 DEF CountRequest, Request
        <5>2. CASE CountUnavailable(r)
          BY <1>t, <2>t, <5>2 DEF CountUnavailable, Goto, Request
        <5>3. CASE RefuseDuplicate(r)
          BY <1>t, <2>t, <5>3 DEF RefuseDuplicate, Request
        <5> QED BY <2>2, <5>1, <5>2, <5>3
      <4> QED BY <4>1 DEF LetThrough
    <3>3. passes' = passes /\ waved' = waved /\ sent' = sent
      BY <2>2 DEF CountRequest, CountUnavailable, RefuseDuplicate
    <3> QED BY <1>3, <1>t, <3>1, <3>2, <3>3, NothingSpent
  <2>3. CASE Record(r)
    <3>1. PICK now \in StatementTimes(r) :
             /\ passes' = [passes EXCEPT ![req[r].msg] = Append(@, now)]
             /\ req' = [req EXCEPT ![r].pc = IF Turnstile THEN "turnstile" ELSE "mail",
                                   ![r].asked = 0, ![r].now = 0]
      BY <2>3 DEF Record
    <3>2. /\ \A s \in Slots \ {r} : req'[s] = req[s]
          /\ req'[r].msg = req[r].msg
      BY <1>t, <2>t, <3>1 DEF Request
    <3>3. waved' = waved /\ sent' = sent /\ req[r].pc = "dedupe"
      BY <2>3 DEF Record
    <3>4. IF msg = req[r].msg THEN Len(passes'[msg]) = Len(passes[msg]) + 1
                              ELSE passes'[msg] = passes[msg]
      BY <1>t, <3>1, Times, AppendProperties
    <3>5. ~LetThrough(r, msg) /\ (LetThrough(r, msg)' => msg = req[r].msg)
      BY <3>2, <3>3 DEF LetThrough
    <3>6. /\ Len(passes'[msg]) + waved'[msg] >= Len(passes[msg]) + waved[msg]
          /\ LetThrough(r, msg)' =>
                Len(passes'[msg]) + waved'[msg] >= Len(passes[msg]) + waved[msg] + 1
      BY <1>t, <3>3, <3>4, <3>5
    <3> QED BY <1>3, <1>t, <3>2, <3>3, <3>5, <3>6, BudgetKept
  <2>4. CASE RecordUnavailable(r)
    <3>1. /\ \A s \in Slots \ {r} : req'[s] = req[s]
          /\ req'[r].msg = req[r].msg
      BY <1>t, <2>4, <2>t DEF RecordUnavailable, Goto, Request
    <3>2. passes' = passes /\ sent' = sent /\ req[r].pc = "dedupe"
          /\ waved' = [waved EXCEPT ![req[r].msg] = @ + 1]
      BY <2>4 DEF RecordUnavailable
    <3>3. IF msg = req[r].msg THEN waved'[msg] = waved[msg] + 1
                              ELSE waved'[msg] = waved[msg]
      BY <1>t, <3>2
    <3>4. ~LetThrough(r, msg) /\ (LetThrough(r, msg)' => msg = req[r].msg)
      BY <3>1, <3>2 DEF LetThrough
    <3>5. /\ Len(passes'[msg]) + waved'[msg] >= Len(passes[msg]) + waved[msg]
          /\ LetThrough(r, msg)' =>
                Len(passes'[msg]) + waved'[msg] >= Len(passes[msg]) + waved[msg] + 1
      BY <1>t, <3>2, <3>3, <3>4
    <3> QED BY <1>3, <1>t, <3>1, <3>2, <3>4, <3>5, BudgetKept
  <2>5. CASE Verify(r)
    <3>1. /\ \A s \in Slots \ {r} : req'[s] = req[s]
          /\ req'[r].msg = req[r].msg /\ req[r].pc = "turnstile"
      BY <1>t, <2>5, <2>t DEF Verify, Goto, Request
    <3>2. passes' = passes /\ waved' = waved /\ sent' = sent
      BY <2>5 DEF Verify
    <3>3. LetThrough(r, msg)' => LetThrough(r, msg)
      BY <3>1 DEF LetThrough
    <3> QED BY <1>3, <1>t, <3>1, <3>2, <3>3, NothingSpent
  <2>6. ASSUME VerifyFails(r) \/ Drop(r) PROVE Budget(msg)'
    <3>1. /\ \A s \in Slots \ {r} : req'[s] = req[s]
          /\ LetThrough(r, msg)' => LetThrough(r, msg)
      BY <1>t, <2>6 DEF VerifyFails, Drop, End, Idle, LetThrough
    <3>2. passes' = passes /\ waved' = waved /\ sent' = sent
      BY <2>6 DEF VerifyFails, Drop
    <3> QED BY <1>3, <1>t, <3>1, <3>2, NothingSpent
  <2>7. ASSUME Mail(r) \/ MailFails(r) PROVE Budget(msg)'
    <3>1. (\A s \in Slots \ {r} : req'[s] = req[s]) /\ ~LetThrough(r, msg)'
      BY <1>t, <2>7 DEF Mail, MailFails, End, Idle, LetThrough
    <3>2. passes' = passes /\ waved' = waved /\ req[r].pc = "mail"
      BY <2>7 DEF Mail, MailFails
    <3>3. PICK mailed \in 0 .. 1 : sent' = [sent EXCEPT ![req[r].msg] = @ + mailed]
      BY <2>7 DEF Mail, MailFails
    <3>4. sent'[msg] = sent[msg] \/ (sent'[msg] = sent[msg] + 1 /\ LetThrough(r, msg))
      BY <1>t, <3>2, <3>3 DEF LetThrough
    <3>5. Len(passes'[msg]) + waved'[msg] >= Len(passes[msg]) + waved[msg]
      BY <1>t, <3>2
    <3> QED BY <1>3, <1>t, <3>1, <3>4, <3>5, BudgetKept
  <2> QED BY <1>3, <2>1, <2>2, <2>3, <2>4, <2>5, <2>6, <2>7 DEF Step
<1> QED BY <1>1, <1>2, <1>3 DEF Next

LEMMA MailInvariant == Spec => []MailInv
BY Invariant, InitMailInv, NextMailInv, PTL DEF Spec

-----------------------------------------------------------------------------
(* Theorems *)

\* The tables, the requests and their histories have their types.
THEOREM TypeCorrect == Spec => []TypeOK
<1>1. IInv => TypeOK
  BY DEF IInv
<1> QED BY <1>1, Invariant, PTL

\* check_rate_limit's upsert counts every request of a window once, whatever
\* the interleaving of the requests.
THEOREM CountIsExact == Spec => []CountsTheWindow
<1>1. IInv => CountsTheWindow
  BY DEF IInv
<1> QED BY <1>1, Invariant, PTL

\* check_duplicate's upsert lets one of the concurrent requests with the same
\* message through per window.
THEOREM OnePassPerWindow == Spec => []RecordedOncePerWindow
<1>1. IInv => RecordedOncePerWindow
  BY DEF IInv
<1> QED BY <1>1, Invariant, PTL

\* A request refused as a duplicate came within a window of one that passed.
THEOREM RefusalsAreFresh == Spec => []DuplicateIsFresh
<1>1. IInv => DuplicateIsFresh
  BY DEF IInv
<1> QED BY <1>1, Invariant, PTL

\* A message is not mailed more often than it was let through, for any number of
\* requests that carry it and whatever of the mail server's errors come late.
THEOREM MailedAtMostOnce == Spec => []MailedOnce
<1>1. IInv /\ MailInv => MailedOnce
  <2> SUFFICES ASSUME IInv, NEW msg \in Messages, Budget(msg)
               PROVE  sent[msg] <= Len(passes[msg]) + waved[msg]
    BY DEF MailInv, MailedOnce
  <2>1. /\ sent[msg] \in Nat /\ Cardinality(Through(msg)) \in Nat
        /\ Len(passes[msg]) + waved[msg] \in Nat
    BY FS_CardinalityType, LenProperties DEF IInv, TypeOK, Budget
  <2> QED BY <2>1 DEF Budget
<1> QED BY <1>1, Invariant, MailInvariant, PTL

=============================================================================
