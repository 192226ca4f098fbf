------------------------------ MODULE FmdProofs ------------------------------
(***************************************************************************)
(* What holds of the fetch service for any requests, permits and limits.   *)
(***************************************************************************)
EXTENDS Fmd, FiniteSetTheorems, SequenceTheorems, TLAPS

-----------------------------------------------------------------------------
(* Queues *)

\* A queue whose requests are all in S, each at most once.
Line(q, S) ==
  /\ q \in Seq(Requests)
  /\ \A i \in 1 .. Len(q) : q[i] \in S
  /\ \A i, j \in 1 .. Len(q) : q[i] = q[j] => i = j

LEMMA LineJoins ==
  ASSUME NEW S, NEW q, Line(q, S), NEW r \in Requests, r \notin S
  PROVE  Line(Append(q, r), S \cup {r})
<1>1. Append(q, r) \in Seq(Requests) /\ Len(Append(q, r)) = Len(q) + 1 /\ Len(q) \in Nat
  BY DEF Line
<1>2. \A i \in 1 .. Len(q) + 1 : Append(q, r)[i] = IF i <= Len(q) THEN q[i] ELSE r
  BY DEF Line
<1>3. \A i \in 1 .. Len(q) + 1 : Append(q, r)[i] \in S \cup {r}
  BY <1>1, <1>2 DEF Line
<1>4. ASSUME NEW i \in 1 .. Len(q) + 1, NEW j \in 1 .. Len(q) + 1,
             Append(q, r)[i] = Append(q, r)[j]
      PROVE  i = j
  BY <1>1, <1>2, <1>4 DEF Line
<1> QED BY <1>1, <1>3, <1>4 DEF Line

LEMMA LineMoves ==
  ASSUME NEW S, NEW q, Line(q, S), q # << >>
  PROVE  Head(q) \in S /\ Line(Tail(q), S \ {Head(q)})
<1>1. /\ Tail(q) \in Seq(Requests) /\ Len(Tail(q)) = Len(q) - 1 /\ Len(q) \in Nat \ {0}
      /\ Head(q) = q[1] /\ \A i \in 1 .. Len(q) - 1 : Tail(q)[i] = q[i + 1]
  BY DEF Line
<1>2. \A i \in 1 .. Len(q) - 1 : Tail(q)[i] \in S \ {Head(q)}
  BY <1>1 DEF Line
<1>3. \A i, j \in 1 .. Len(Tail(q)) : Tail(q)[i] = Tail(q)[j] => i = j
  BY <1>1 DEF Line
<1>4. Head(q) \in S
  BY <1>1 DEF Line
<1> QED BY <1>1, <1>2, <1>3, <1>4 DEF Line

LEMMA LineLeaves ==
  ASSUME NEW S, NEW q, Line(q, S), NEW r
  PROVE  Line(Others(q, r), S \ {r})
<1>1. CASE ~\E i \in 1 .. Len(q) : q[i] = r
  BY <1>1 DEF Line, Others
<1>2. CASE \E i \in 1 .. Len(q) : q[i] = r
  <2>1. PICK k \in 1 .. Len(q) : q[k] = r /\ Others(q, r) = SubSeq(q, 1, k - 1) \o SubSeq(q, k + 1, Len(q))
    <3> DEFINE k == CHOOSE i \in 1 .. Len(q) : q[i] = r
    <3>1. k \in 1 .. Len(q) /\ q[k] = r
      BY <1>2
    <3>2. Others(q, r) = SubSeq(q, 1, k - 1) \o SubSeq(q, k + 1, Len(q))
      BY <1>2 DEF Others
    <3> HIDE DEF k
    <3> QED BY <3>1, <3>2
  <2>2. PICK s : s = Others(q, r)
    OBVIOUS
  <2>3. q \in Seq(Requests) /\ Len(q) \in Nat
    BY DEF Line
  <2>4. /\ SubSeq(q, 1, k - 1) \in Seq(Requests) /\ Len(SubSeq(q, 1, k - 1)) = k - 1
        /\ \A i \in 1 .. k - 1 : SubSeq(q, 1, k - 1)[i] = q[i]
    BY <2>3, SubSeqProperties
  <2>5. /\ SubSeq(q, k + 1, Len(q)) \in Seq(Requests) /\ Len(SubSeq(q, k + 1, Len(q))) = Len(q) - k
        /\ \A i \in 1 .. Len(q) - k : SubSeq(q, k + 1, Len(q))[i] = q[k + i]
    BY <2>3, SubSeqProperties
  <2>6. /\ s \in Seq(Requests) /\ Len(s) = Len(q) - 1
        /\ \A i \in 1 .. Len(q) - 1 : s[i] = IF i < k THEN q[i] ELSE q[i + 1]
    <3>1. PICK u, v : u = SubSeq(q, 1, k - 1) /\ v = SubSeq(q, k + 1, Len(q)) /\ s = u \o v
      BY <2>1, <2>2
    <3>2. u \in Seq(Requests) /\ Len(u) = k - 1 /\ \A i \in 1 .. k - 1 : u[i] = q[i]
      BY <2>4, <3>1
    <3>3. v \in Seq(Requests) /\ Len(v) = Len(q) - k /\ \A i \in 1 .. Len(q) - k : v[i] = q[k + i]
      BY <2>5, <3>1
    <3>4. s \in Seq(Requests) /\ Len(s) = Len(q) - 1
      <4>1. u \o v \in Seq(Requests) /\ Len(u \o v) = Len(u) + Len(v)
        BY <3>2, <3>3, ConcatProperties
      <4>2. Len(u) + Len(v) = Len(q) - 1
        BY <2>3, <3>2, <3>3
      <4> QED BY <3>1, <4>1, <4>2
    <3>5. ASSUME NEW i \in 1 .. Len(q) - 1
          PROVE  s[i] = IF i < k THEN q[i] ELSE q[i + 1]
      <4>1. s[i] = IF i <= Len(u) THEN u[i] ELSE v[i - Len(u)]
        <5>1. i \in 1 .. Len(u) + Len(v)
          BY <2>3, <3>2, <3>3
        <5> QED BY <3>1, <3>2, <3>3, <5>1, ConcatProperties
      <4>2. CASE i < k
        BY <2>3, <3>2, <4>1, <4>2
      <4>3. CASE ~(i < k)
        <5>1. i - (k - 1) \in 1 .. Len(q) - k /\ k + (i - (k - 1)) = i + 1
          BY <2>3, <4>3
        <5> QED BY <2>3, <3>2, <3>3, <4>1, <4>3, <5>1
      <4> QED BY <4>2, <4>3
    <3> QED BY <3>4, <3>5
  <2>7. \A i \in 1 .. Len(q) - 1 : s[i] \in S \ {r}
    BY <2>1, <2>3, <2>6 DEF Line
  <2>8. \A i, j \in 1 .. Len(s) : s[i] = s[j] => i = j
    BY <2>1, <2>3, <2>6 DEF Line
  <2> QED BY <2>2, <2>6, <2>7, <2>8 DEF Line
<1> QED BY <1>1, <1>2

LEMMA LineStays ==
  ASSUME NEW S, NEW T, S \subseteq T, NEW q, Line(q, S)
  PROVE  Line(q, T)
BY DEF Line

-----------------------------------------------------------------------------
(* Types *)

LEMMA IdleTypes == Idle \in Request
BY FmdConstants DEF Request, Idle, PCs, Rendering

LEMMA InitTypes == Init => TypeOK
<1> SUFFICES ASSUME Init PROVE TypeOK
  OBVIOUS
<1>1. req \in [Requests -> Request]
  BY IdleTypes DEF Init
<1>2. queue \in Seq(Requests) /\ renderQueue \in Seq(Requests)
  BY DEF Init
<1>3. starting \subseteq Requests /\ server \in Requests \cup {Stray, Nobody}
      /\ strays \in Nat /\ lost \in BOOLEAN
  BY DEF Init
<1> QED BY <1>1, <1>2, <1>3 DEF TypeOK

LEMMA Labels ==
  /\ "queued" \in PCs /\ "fetch" \in PCs /\ "renderQueued" \in PCs /\ "connect" \in PCs
  /\ "page" \in PCs /\ "load" \in PCs /\ "content" \in PCs /\ "close" \in PCs /\ "kill" \in PCs
BY DEF PCs, Rendering

\* A request keeps its type when a part of it is replaced by one of that type.
LEMMA Parts ==
  /\ \A r \in Request, pc \in PCs : [r EXCEPT !.pc = pc] \in Request
  /\ \A r \in Request, tries \in 0 .. MaxTries : [r EXCEPT !.tries = tries] \in Request
  /\ \A r \in Request, conn \in {"none", "live", "dead"} : [r EXCEPT !.conn = conn] \in Request
  /\ \A r \in Request, count \in 0 .. MaxSubrequests + 1 : [r EXCEPT !.count = count] \in Request
  /\ \A r \in Request, blocked \in BOOLEAN : [r EXCEPT !.blocked = blocked] \in Request
  /\ \A r \in Request, html \in {"none", "fits", "long"} : [r EXCEPT !.html = html] \in Request
  /\ \A r \in Request, shown \in BOOLEAN : [r EXCEPT !.shown = shown] \in Request
  /\ \A r \in Request, refused \in BOOLEAN : [r EXCEPT !.refused = refused] \in Request
BY DEF Request

LEMMA Fields ==
  \A r \in Request : /\ r.pc \in PCs /\ r.tries \in 0 .. MaxTries
                     /\ r.count \in 0 .. MaxSubrequests + 1
                     /\ r.blocked \in BOOLEAN /\ r.refused \in BOOLEAN
BY DEF Request

LEMMA CutTypes ==
  ASSUME NEW rs \in [Requests -> Request]
  PROVE  Cut(rs) \in [Requests -> Request]
BY Parts DEF Cut

-----------------------------------------------------------------------------
(* The steps of a request *)

\* What becomes of the request that takes a step: x is what it was, y what it is.
Moves(x, y) ==
  \/ y = Idle
  \/ x.pc = "idle" /\ y = [Idle EXCEPT !.pc = "queued"]
  \/ /\ x.pc = "queued"
     /\ \E tries \in 0 .. MaxTries : y = [x EXCEPT !.pc = "fetch", !.tries = tries]
  \/ /\ x.pc = "fetch"
     /\ \/ \E tries \in 0 .. MaxTries : y = [x EXCEPT !.tries = tries]
        \/ y = [x EXCEPT !.pc = "renderQueued", !.tries = 0]
  \/ /\ x.pc = "renderQueued" /\ Cardinality(At(Rendering)) < RenderConcurrency
     /\ y = [x EXCEPT !.pc = "connect"]
  \/ x.pc = "connect" /\ server # Nobody /\ y = [x EXCEPT !.pc = "page", !.conn = "live"]
  \/ x.pc = "page" /\ y = [x EXCEPT !.pc = "load"]
  \/ /\ x.pc \in {"load", "content"} /\ x.count <= MaxSubrequests
     /\ \E refuse \in BOOLEAN : y = Counted(x, refuse)
  \/ x.pc = "load" /\ \E pc \in {"content", "close"} : y = [x EXCEPT !.pc = pc]
  \/ /\ x.pc = "content"
     /\ \E html \in {"fits", "long"} : y = [x EXCEPT !.pc = "close", !.html = html]
  \/ x.pc = "close" /\ y = [x EXCEPT !.pc = "kill"]
  \/ /\ x.pc = "kill" /\ ~x.blocked
     /\ y = [Idle EXCEPT !.shown = TRUE, !.refused = x.refused]

LEMMA MovesTypes ==
  ASSUME NEW x \in Request, NEW y, Moves(x, y)
  PROVE  y \in Request
<1> USE IdleTypes, Labels
<1>1. CASE y = Idle \/ y = [Idle EXCEPT !.pc = "queued"] \/ y = [x EXCEPT !.pc = "connect"]
           \/ y = [x EXCEPT !.pc = "load"] \/ y = [x EXCEPT !.pc = "kill"]
           \/ \E pc \in {"content", "close"} : y = [x EXCEPT !.pc = pc]
  BY <1>1, Parts
<1>2. ASSUME NEW tries \in 0 .. MaxTries,
             y = [x EXCEPT !.pc = "fetch", !.tries = tries] \/ y = [x EXCEPT !.tries = tries]
      PROVE  y \in Request
  <2>1. [x EXCEPT !.tries = tries] \in Request
    BY Parts
  <2>2. [x EXCEPT !.pc = "fetch", !.tries = tries] \in Request
    BY Parts
  <2> QED BY <1>2, <2>1, <2>2
<1>3. CASE y = [x EXCEPT !.pc = "renderQueued", !.tries = 0]
  <2>1. 0 \in 0 .. MaxTries
    BY FmdConstants
  <2> QED BY <1>3, <2>1, Parts
<1>4. CASE y = [x EXCEPT !.pc = "page", !.conn = "live"]
  BY <1>4, Parts
<1>5. ASSUME NEW refuse \in BOOLEAN, x.count <= MaxSubrequests,
             y = Counted(x, refuse)
      PROVE  y \in Request
  <2>1. PICK count, blocked, refused :
           /\ count = x.count + 1 /\ blocked = (x.blocked \/ refuse) /\ refused = (x.refused \/ refuse)
    OBVIOUS
  <2>2. count \in 0 .. MaxSubrequests + 1 /\ blocked \in BOOLEAN /\ refused \in BOOLEAN
    BY <1>5, <2>1, Fields, FmdConstants
  <2>3. \A z \in Request : /\ [z EXCEPT !.count = count] \in Request
                           /\ [z EXCEPT !.blocked = blocked] \in Request
                           /\ [z EXCEPT !.refused = refused] \in Request
    BY <2>2, Parts
  <2>4. y = [x EXCEPT !.count = count, !.blocked = blocked, !.refused = refused]
    BY <1>5, <2>1 DEF Counted
  <2> QED BY <2>3, <2>4
<1>6. ASSUME NEW html \in {"fits", "long"}, y = [x EXCEPT !.pc = "close", !.html = html]
      PROVE  y \in Request
  BY <1>6, Parts
<1>7. CASE y = [Idle EXCEPT !.shown = TRUE, !.refused = x.refused]
  BY <1>7, Parts, Fields
<1> QED BY <1>1, <1>2, <1>3, <1>4, <1>5, <1>6, <1>7 DEF Moves

Queues == Line(queue, At({"queued"})) /\ Line(renderQueue, At({"renderQueued"}))

RequestStep(r) ==
  Arrive(r) \/ Handle(r) \/ Drop(r) \/ \E allowed \in BOOLEAN : Intercept(r, allowed)

\* A request moves on, and connections may be cut as it does.
Moved(r, y) == req' = [req EXCEPT ![r] = y] \/ req' = Cut([req EXCEPT ![r] = y])

LEMMA TriesAreBounded ==
  ASSUME NEW resolved \in SUBSET Addresses
  PROVE  Least(MaxTries, Cardinality(PublicAddrs(resolved))) \in 0 .. MaxTries
<1>1. IsFiniteSet(PublicAddrs(resolved))
  BY FmdConstants, FS_Subset DEF PublicAddrs
<1>2. Cardinality(PublicAddrs(resolved)) \in Nat
  BY <1>1, FS_CardinalityType
<1> QED BY <1>2, FmdConstants DEF Least

LEMMA RequestMoves ==
  ASSUME TypeOK, Queues, NEW r \in Requests, RequestStep(r)
  PROVE  \E y : Moves(req[r], y) /\ Moved(r, y)
<1> USE DEF Moved
<1>0. Queues /\ req[r] \in Request
  BY DEF TypeOK
<1>1. ASSUME Answer(r) \/ req' = [req EXCEPT ![r] = Idle]
      PROVE  \E y : Moves(req[r], y) /\ Moved(r, y)
  BY <1>1 DEF Answer, Answered, Moves
<1>2. ASSUME NEW y, KillOwn(r, [req EXCEPT ![r] = y])
      PROVE  Moved(r, y)
  BY <1>2 DEF KillOwn
<1>3. CASE Arrive(r)
  BY <1>3 DEF Arrive, Moves
<1>4. ASSUME NEW valid \in BOOLEAN, NEW resolved \in SUBSET Addresses, Admit(r, valid, resolved)
      PROVE  \E y : Moves(req[r], y) /\ Moved(r, y)
  <2>1. req[r].pc = "queued"
    <3>1. queue # << >> /\ Head(queue) = r
      BY <1>4 DEF Admit
    <3>2. Line(queue, At({"queued"}))
      BY <1>0 DEF Queues
    <3>3. Head(queue) \in At({"queued"})
      BY <3>1, <3>2, LineMoves
    <3> QED BY <3>1, <3>3 DEF At
  <2>2. CASE Answer(r)
    BY <1>1, <2>2
  <2>3. CASE ~Answer(r)
    <3>1. PICK tries \in 0 .. MaxTries :
            req' = [req EXCEPT ![r] = [@ EXCEPT !.pc = "fetch", !.tries = tries]]
      BY <1>4, <2>3, TriesAreBounded DEF Admit, Begin
    <3>2. PICK y : y = [req[r] EXCEPT !.pc = "fetch", !.tries = tries]
      OBVIOUS
    <3>3. Moves(req[r], y)
      BY <2>1, <3>2 DEF Moves
    <3> QED BY <3>1, <3>2, <3>3
  <2> QED BY <2>2, <2>3
<1>5. CASE AttemptFails(r)
  <2>1. CASE Answer(r)
    BY <1>1, <2>1
  <2>2. CASE ~Answer(r)
    <3>1. req[r].pc = "fetch" /\ req[r].tries > 1 /\ req' = [req EXCEPT ![r].tries = @ - 1]
      BY <1>5, <2>2 DEF AttemptFails
    <3>2. PICK tries \in 0 .. MaxTries : tries = req[r].tries - 1
      BY <1>0, <3>1, Fields, FmdConstants
    <3>3. PICK y : y = [req[r] EXCEPT !.tries = tries]
      OBVIOUS
    <3>4. Moves(req[r], y)
      BY <3>1, <3>3 DEF Moves
    <3> QED BY <3>1, <3>2, <3>3, <3>4
  <2> QED BY <2>1, <2>2
<1>6. ASSUME Refuse(r) \/ Drop(r) \/ Lose(r)
      PROVE  \E y : Moves(req[r], y) /\ Moved(r, y)
  BY <1>1, <1>6 DEF Refuse, Drop, Lose
<1>7. ASSUME NEW page \in Page, Fetched(r, page)
      PROVE  \E y : Moves(req[r], y) /\ Moved(r, y)
  <2>1. PICK y : y = [req[r] EXCEPT !.pc = "renderQueued", !.tries = 0]
    OBVIOUS
  <2>2. req[r].pc = "fetch" => Moves(req[r], y)
    BY <2>1 DEF Moves
  <2> QED BY <1>1, <1>7, <2>1, <2>2 DEF Fetched
<1>8. ASSUME NEW spawned \in BOOLEAN, StartRender(r, spawned)
      PROVE  \E y : Moves(req[r], y) /\ Moved(r, y)
  <2>1. req[r].pc = "renderQueued"
    <3>1. renderQueue # << >> /\ Head(renderQueue) = r
      BY <1>8 DEF StartRender
    <3>2. Line(renderQueue, At({"renderQueued"}))
      BY <1>0 DEF Queues
    <3>3. Head(renderQueue) \in At({"renderQueued"})
      BY <3>1, <3>2, LineMoves
    <3> QED BY <3>1, <3>3 DEF At
  <2>2. PICK y : y = [req[r] EXCEPT !.pc = "connect"]
    OBVIOUS
  <2>3. Moves(req[r], y)
    BY <1>8, <2>1, <2>2 DEF StartRender, Moves
  <2> QED BY <1>1, <1>8, <2>2, <2>3 DEF StartRender
<1>9. CASE Connect(r)
  <2>1. PICK y : y = [req[r] EXCEPT !.pc = "page", !.conn = "live"]
    OBVIOUS
  <2>2. Moves(req[r], y)
    BY <1>9, <2>1 DEF Connect, Moves
  <2> QED BY <1>9, <2>1, <2>2 DEF Connect
<1>10. CASE ConnectFails(r)
  <2>1. KillOwn(r, [req EXCEPT ![r] = Idle])
    BY <1>10 DEF ConnectFails, Answered
  <2> QED BY <1>2, <2>1 DEF Moves
<1>11. CASE OpenPage(r)
  <2>1. PICK y : y = [req[r] EXCEPT !.pc = "load"]
    OBVIOUS
  <2>2. Moves(req[r], y)
    BY <1>11, <2>1 DEF OpenPage, Moves
  <2> QED BY <1>11, <2>1, <2>2 DEF OpenPage
<1>12. ASSUME NEW allowed \in BOOLEAN, Intercept(r, allowed)
       PROVE  \E y : Moves(req[r], y) /\ Moved(r, y)
  <2>1. PICK refuse \in BOOLEAN : refuse = (req[r].count + 1 > MaxSubrequests \/ ~allowed)
    OBVIOUS
  <2>2. PICK y : y = Counted(req[r], refuse)
    OBVIOUS
  <2>3. req' = [req EXCEPT ![r] = y]
    BY <1>12, <2>1, <2>2, Zenon DEF Intercept
  <2>4. Moves(req[r], y)
    BY <1>12, <2>2 DEF Intercept, Moves
  <2> QED BY <2>3, <2>4
<1>13. ASSUME NEW succeeds \in BOOLEAN, Navigate(r, succeeds)
       PROVE  \E y : Moves(req[r], y) /\ Moved(r, y)
  <2>1. PICK pc \in {"content", "close"} : req' = [req EXCEPT ![r].pc = pc] /\ req[r].pc = "load"
    BY <1>13 DEF Navigate
  <2>2. PICK y : y = [req[r] EXCEPT !.pc = pc]
    OBVIOUS
  <2>3. Moves(req[r], y)
    BY <2>1, <2>2 DEF Moves
  <2> QED BY <2>1, <2>2, <2>3
<1>14. ASSUME NEW html \in {"fits", "long"}, Content(r, html)
       PROVE  \E y : Moves(req[r], y) /\ Moved(r, y)
  <2>1. PICK y : y = [req[r] EXCEPT !.pc = "close", !.html = html]
    OBVIOUS
  <2>2. Moves(req[r], y)
    BY <1>14, <2>1 DEF Content, Moves
  <2> QED BY <1>14, <2>1, <2>2 DEF Content
<1>15. ASSUME NEW ends \in BOOLEAN, Close(r, ends)
       PROVE  \E y : Moves(req[r], y) /\ Moved(r, y)
  <2>1. PICK y : y = [req[r] EXCEPT !.pc = "kill"]
    OBVIOUS
  <2>2. Moves(req[r], y)
    BY <1>15, <2>1 DEF Close, Moves
  <2>3. [req EXCEPT ![r].pc = "kill"] = [req EXCEPT ![r] = y]
    BY <2>1
  <2> QED BY <1>15, <2>2, <2>3 DEF Close
<1>16. ASSUME NEW inTime \in BOOLEAN, Kill(r, inTime)
       PROVE  \E y : Moves(req[r], y) /\ Moved(r, y)
  <2>1. CASE inTime /\ req[r].html = "fits" /\ ~req[r].blocked
    <3>1. PICK y : y = [Idle EXCEPT !.shown = TRUE, !.refused = req[r].refused]
      OBVIOUS
    <3>2. KillOwn(r, [req EXCEPT ![r] = y]) /\ req[r].pc = "kill"
      BY <1>16, <2>1, <3>1 DEF Kill
    <3>3. Moves(req[r], y)
      BY <2>1, <3>1, <3>2 DEF Moves
    <3> QED BY <1>2, <3>2, <3>3
  <2>2. CASE ~(inTime /\ req[r].html = "fits" /\ ~req[r].blocked)
    <3>1. KillOwn(r, [req EXCEPT ![r] = Idle])
      BY <1>16, <2>2 DEF Kill, Answered
    <3> QED BY <1>2, <3>1 DEF Moves
  <2> QED BY <2>1, <2>2
<1> QED BY <1>3, <1>4, <1>5, <1>6, <1>7, <1>8, <1>9, <1>10, <1>11, <1>12, <1>13, <1>14, <1>15,
           <1>16 DEF RequestStep, Handle

-----------------------------------------------------------------------------
(* What a request keeps *)

\* Only a render is connected; a request one of whose subrequests was refused
\* remembers it, and a page is shown by a request that is over.
Sound(x) ==
  /\ x.conn = "live" => x.pc \in Rendering \ {"connect"}
  /\ x.refused /\ x.pc # "idle" => x.blocked
  /\ x.shown => x.pc = "idle" /\ ~x.refused

LEMMA IdleIsSound == Sound(Idle) /\ Sound([Idle EXCEPT !.pc = "queued"])
BY DEF Sound, Idle, Rendering

LEMMA MovesSound ==
  ASSUME NEW x \in Request, NEW y, Moves(x, y), Sound(x)
  PROVE  Sound(y)
<1>1. CASE y = Idle \/ y = [Idle EXCEPT !.pc = "queued"]
  BY <1>1, IdleIsSound
<1>2. ASSUME NEW pc \in PCs, y = [x EXCEPT !.pc = pc], x.pc # "idle", pc # "idle",
             pc \in Rendering \ {"connect"} \/ x.pc = "renderQueued"
      PROVE  Sound(y)
  BY <1>2 DEF Sound, Request, Rendering
<1>3. CASE x.pc = "renderQueued" /\ y = [x EXCEPT !.pc = "connect"]
  BY <1>2, <1>3, Labels
<1>4. CASE x.pc = "page" /\ y = [x EXCEPT !.pc = "load"]
  BY <1>2, <1>4, Labels DEF Rendering
<1>5. CASE x.pc = "close" /\ y = [x EXCEPT !.pc = "kill"]
  BY <1>2, <1>5, Labels DEF Rendering
<1>6. CASE x.pc = "load" /\ \E pc \in {"content", "close"} : y = [x EXCEPT !.pc = pc]
  BY <1>2, <1>6, Labels DEF Rendering
<1>7. ASSUME x.pc = "queued", NEW tries \in 0 .. MaxTries,
             y = [x EXCEPT !.pc = "fetch", !.tries = tries]
      PROVE  Sound(y)
  BY <1>7 DEF Sound, Request, Rendering
<1>8. ASSUME x.pc = "fetch", NEW tries \in 0 .. MaxTries,
             y = [x EXCEPT !.tries = tries] \/ y = [x EXCEPT !.pc = "renderQueued", !.tries = 0]
      PROVE  Sound(y)
  BY <1>8 DEF Sound, Request, Rendering
<1>9. CASE x.pc = "connect" /\ y = [x EXCEPT !.pc = "page", !.conn = "live"]
  BY <1>9 DEF Sound, Request, Rendering
<1>10. ASSUME x.pc \in {"load", "content"}, NEW refuse \in BOOLEAN, y = Counted(x, refuse)
       PROVE  Sound(y)
  BY <1>10 DEF Counted, Sound, Request, Rendering
<1>11. ASSUME x.pc = "content", NEW html \in {"fits", "long"},
              y = [x EXCEPT !.pc = "close", !.html = html]
       PROVE  Sound(y)
  BY <1>11 DEF Sound, Request, Rendering
<1>12. CASE x.pc = "kill" /\ ~x.blocked /\ y = [Idle EXCEPT !.shown = TRUE, !.refused = x.refused]
  BY <1>12 DEF Sound, Request, Idle
<1>13. CASE x.pc = "queued"
            /\ \E tries \in 0 .. MaxTries : y = [x EXCEPT !.pc = "fetch", !.tries = tries]
  BY <1>7, <1>13
<1>14. CASE /\ x.pc = "fetch"
            /\ \/ \E tries \in 0 .. MaxTries : y = [x EXCEPT !.tries = tries]
               \/ y = [x EXCEPT !.pc = "renderQueued", !.tries = 0]
  <2>1. 0 \in 0 .. MaxTries
    BY FmdConstants
  <2> QED BY <1>8, <1>14, <2>1
<1>15. CASE x.pc \in {"load", "content"} /\ \E refuse \in BOOLEAN : y = Counted(x, refuse)
  BY <1>10, <1>15
<1>16. CASE x.pc = "content"
            /\ \E html \in {"fits", "long"} : y = [x EXCEPT !.pc = "close", !.html = html]
  BY <1>11, <1>16
<1> QED BY <1>1, <1>3, <1>4, <1>5, <1>6, <1>9, <1>12, <1>13, <1>14, <1>15, <1>16 DEF Moves

\* What a step of r makes of every request.
LEMMA MovedParts ==
  ASSUME TypeOK, NEW r \in Requests, NEW y \in Request, Moved(r, y), NEW q \in Requests
  PROVE  \E z \in Request : /\ z = IF q = r THEN y ELSE req[q]
                            /\ req'[q] = z \/ req'[q] = [z EXCEPT !.conn = "dead"]
<1>1. PICK z : z = IF q = r THEN y ELSE req[q]
  OBVIOUS
<1>2. z \in Request
  BY <1>1 DEF TypeOK
<1>3. [req EXCEPT ![r] = y][q] = z
  BY <1>1 DEF TypeOK
<1>4. \A rs : rs[q] = z => Cut(rs)[q] = z \/ Cut(rs)[q] = [z EXCEPT !.conn = "dead"]
  BY DEF Cut
<1> QED BY <1>1, <1>2, <1>3, <1>4 DEF Moved

\* A connection that ends changes nothing else.
LEMMA DeadParts ==
  ASSUME NEW z \in Request, Sound(z)
  PROVE  /\ [z EXCEPT !.conn = "dead"] \in Request /\ Sound([z EXCEPT !.conn = "dead"])
         /\ [z EXCEPT !.conn = "dead"].pc = z.pc /\ [z EXCEPT !.conn = "dead"].conn # "live"
BY Parts DEF Request, Sound

LEMMA MovesRenders ==
  ASSUME NEW x \in Request, NEW y, Moves(x, y)
  PROVE  /\ y.pc \in Rendering
               => x.pc \in Rendering \/ Cardinality(At(Rendering)) < RenderConcurrency
         /\ y.conn = "live" => x.conn = "live" \/ server # Nobody
<1>1. ASSUME \/ y = Idle \/ y = [Idle EXCEPT !.pc = "queued"]
             \/ y = [Idle EXCEPT !.shown = TRUE, !.refused = x.refused]
      PROVE  y.pc \notin Rendering /\ y.conn # "live"
  <2>1. /\ Idle.pc = "idle" /\ Idle.conn = "none"
        /\ [Idle EXCEPT !.pc = "queued"].pc = "queued"
        /\ [Idle EXCEPT !.pc = "queued"].conn = "none"
    BY DEF Idle
  <2>2. \A refused : /\ [Idle EXCEPT !.shown = TRUE, !.refused = refused].pc = "idle"
                      /\ [Idle EXCEPT !.shown = TRUE, !.refused = refused].conn = "none"
    BY DEF Idle
  <2>3. CASE y = Idle
    BY <2>1, <2>3 DEF Rendering
  <2>4. CASE y = [Idle EXCEPT !.pc = "queued"]
    BY <2>1, <2>4 DEF Rendering
  <2>5. CASE y = [Idle EXCEPT !.shown = TRUE, !.refused = x.refused]
    <3>1. PICK refused : refused = x.refused
      OBVIOUS
    <3>2. y.pc = "idle" /\ y.conn = "none"
      BY <2>2, <2>5, <3>1, Zenon
    <3> QED BY <3>2 DEF Rendering
  <2> QED BY <1>1, <2>3, <2>4, <2>5
<1>2. ASSUME NEW tries, y = [x EXCEPT !.pc = "fetch", !.tries = tries] \/ y = [x EXCEPT !.tries = tries]
                        \/ y = [x EXCEPT !.pc = "renderQueued", !.tries = tries]
      PROVE  (y.pc \in Rendering => x.pc \in Rendering) /\ y.conn = x.conn
  BY <1>2 DEF Request, Rendering
<1>3. ASSUME NEW refuse, y = Counted(x, refuse)
      PROVE  y.pc = x.pc /\ y.conn = x.conn
  BY <1>3 DEF Counted, Request
<1>4. ASSUME NEW pc, y = [x EXCEPT !.pc = pc]
      PROVE  y.conn = x.conn
  BY <1>4 DEF Request
<1>5. ASSUME NEW html, y = [x EXCEPT !.pc = "close", !.html = html]
      PROVE  y.conn = x.conn
  BY <1>5 DEF Request
<1>6. x.pc \in {"connect", "page", "load", "content", "close"} => x.pc \in Rendering
  BY DEF Rendering
<1>7. CASE y = Idle \/ (x.pc = "idle" /\ y = [Idle EXCEPT !.pc = "queued"])
  BY <1>1, <1>7
<1>8. CASE x.pc = "queued"
            /\ \E tries \in 0 .. MaxTries : y = [x EXCEPT !.pc = "fetch", !.tries = tries]
  BY <1>2, <1>8
<1>9. CASE /\ x.pc = "fetch"
           /\ \/ \E tries \in 0 .. MaxTries : y = [x EXCEPT !.tries = tries]
              \/ y = [x EXCEPT !.pc = "renderQueued", !.tries = 0]
  BY <1>2, <1>9
<1>10. CASE x.pc \in {"load", "content"} /\ \E refuse \in BOOLEAN : y = Counted(x, refuse)
  BY <1>3, <1>6, <1>10
<1>11. CASE x.pc = "load" /\ \E pc \in {"content", "close"} : y = [x EXCEPT !.pc = pc]
  BY <1>4, <1>6, <1>11
<1>12. CASE x.pc = "content"
             /\ \E html \in {"fits", "long"} : y = [x EXCEPT !.pc = "close", !.html = html]
  BY <1>5, <1>6, <1>12
<1>13. CASE x.pc = "kill" /\ ~x.blocked /\ y = [Idle EXCEPT !.shown = TRUE, !.refused = x.refused]
  BY <1>1, <1>13
<1>14. CASE /\ x.pc = "renderQueued" /\ Cardinality(At(Rendering)) < RenderConcurrency
            /\ y = [x EXCEPT !.pc = "connect"]
  BY <1>4, <1>14
<1>15. CASE x.pc = "connect" /\ server # Nobody /\ y = [x EXCEPT !.pc = "page", !.conn = "live"]
  BY <1>6, <1>15
<1>16. CASE \/ x.pc = "page" /\ y = [x EXCEPT !.pc = "load"]
            \/ x.pc = "close" /\ y = [x EXCEPT !.pc = "kill"]
  BY <1>4, <1>6, <1>16
<1> QED BY <1>7, <1>8, <1>9, <1>10, <1>11, <1>12, <1>13, <1>14, <1>15, <1>16 DEF Moves

-----------------------------------------------------------------------------
(* What a step does to the processes *)

Effect(r) ==
  /\ starting' \subseteq starting \cup {r}
  /\ server' \in {server, Stray, Nobody}
  /\ strays' \in {strays, strays + 1} /\ (lost' = lost \/ lost' = TRUE)
  /\ strays' # strays \/ (server' = Stray /\ server # Stray) => lost'
  /\ r \in starting' \/ server' = r => req'[r].pc \in Rendering
  /\ server' = Nobody => server = Nobody \/ \A q \in Requests : req'[q].conn # "live"

LEMMA CutIsDead ==
  ASSUME NEW rs \in [Requests -> Request], NEW q \in Requests
  PROVE  Cut(rs)[q].conn # "live" /\ Cut(rs)[q].pc = rs[q].pc
BY DEF Cut, Request

\* The parts of a request after one of them was replaced.
LEMMA Values ==
  ASSUME NEW x \in Request
  PROVE  /\ \A pc : [x EXCEPT !.pc = pc].pc = pc
         /\ \A conn : [x EXCEPT !.pc = "page", !.conn = conn].pc = "page"
         /\ \A html : [x EXCEPT !.pc = "close", !.html = html].pc = "close"
         /\ \A tries : [x EXCEPT !.pc = "renderQueued", !.tries = tries].pc = "renderQueued"
         /\ \A refuse : Counted(x, refuse).pc = x.pc
BY DEF Request, Counted

LEMMA Effects ==
  ASSUME TypeOK, Queues, StraysAreLost, NEW r \in Requests, RequestStep(r)
  PROVE  Effect(r)
<1>0. req[r] \in Request /\ \A y : [req EXCEPT ![r] = y][r] = y
  BY DEF TypeOK
<1>1. ASSUME UNCHANGED processVars, req[r].pc \in Rendering => req'[r].pc \in Rendering
      PROVE  Effect(r)
  BY <1>1 DEF Effect, processVars, StraysAreLost, At
<1>2. ASSUME NEW rs \in [Requests -> Request], KillOwn(r, rs), UNCHANGED <<strays, lost>>
      PROVE  Effect(r)
  BY <1>2, CutIsDead, FmdConstants DEF Effect, KillOwn
<1>3. ASSUME LetGo(r)
      PROVE  Effect(r)
  BY <1>3, FmdConstants DEF Effect, LetGo
<1>4. CASE Arrive(r)
  BY <1>1, <1>4 DEF Arrive, Rendering
<1>5. ASSUME NEW valid \in BOOLEAN, NEW resolved \in SUBSET Addresses, Admit(r, valid, resolved)
      PROVE  Effect(r)
  <2>1. req[r].pc = "queued"
    <3>1. queue # << >> /\ Head(queue) = r
      BY <1>5 DEF Admit
    <3>2. Line(queue, At({"queued"}))
      BY DEF Queues
    <3>3. Head(queue) \in At({"queued"})
      BY <3>1, <3>2, LineMoves
    <3> QED BY <3>1, <3>3 DEF At
  <2> QED BY <1>1, <1>5, <2>1 DEF Admit, Rendering
<1>6. CASE AttemptFails(r) \/ Refuse(r)
  BY <1>1, <1>6 DEF AttemptFails, Refuse, Rendering
<1>7. ASSUME NEW page \in Page, Fetched(r, page)
      PROVE  Effect(r)
  BY <1>1, <1>7 DEF Fetched, Rendering
<1>8. ASSUME NEW spawned \in BOOLEAN, StartRender(r, spawned)
      PROVE  Effect(r)
  <2>1. req[r].pc = "renderQueued"
    <3>1. renderQueue # << >> /\ Head(renderQueue) = r
      BY <1>8 DEF StartRender
    <3>2. Line(renderQueue, At({"renderQueued"}))
      BY DEF Queues
    <3>3. Head(renderQueue) \in At({"renderQueued"})
      BY <3>1, <3>2, LineMoves
    <3> QED BY <3>1, <3>3 DEF At
  <2>2. r \notin starting /\ server # r
    BY <2>1 DEF StraysAreLost, At, Rendering
  <2>3. CASE ~spawned
    BY <1>8, <2>2, <2>3 DEF StartRender, Effect
  <2>4. CASE spawned
    <3>1. req' = [req EXCEPT ![r].pc = "connect"] /\ starting' = starting \cup {r}
          /\ UNCHANGED <<server, strays, lost>>
      BY <1>8, <2>4 DEF StartRender
    <3>2. req'[r].pc = "connect"
      BY <1>0, <3>1, Values
    <3> QED BY <3>1, <3>2 DEF Effect, Rendering
  <2> QED BY <2>3, <2>4
<1>9. CASE Connect(r)
  BY <1>0, <1>1, <1>9, Values DEF Connect, Rendering
<1>10. CASE ConnectFails(r)
  <2>1. Answered(r) \in [Requests -> Request]
    BY IdleTypes DEF TypeOK, Answered
  <2> QED BY <1>2, <1>10, <2>1 DEF ConnectFails
<1>11. CASE OpenPage(r)
  BY <1>0, <1>1, <1>11, Values DEF OpenPage, Rendering
<1>12. ASSUME NEW allowed \in BOOLEAN, Intercept(r, allowed)
       PROVE  Effect(r)
  BY <1>0, <1>1, <1>12, Values DEF Intercept, Rendering
<1>13. ASSUME NEW succeeds \in BOOLEAN, Navigate(r, succeeds)
       PROVE  Effect(r)
  BY <1>0, <1>1, <1>13, Values DEF Navigate, Rendering
<1>14. ASSUME NEW html \in {"fits", "long"}, Content(r, html)
       PROVE  Effect(r)
  BY <1>0, <1>1, <1>14, Values DEF Content, Rendering
<1>15. ASSUME NEW ends \in BOOLEAN, Close(r, ends)
       PROVE  Effect(r)
  <2>1. PICK rs : rs = [req EXCEPT ![r].pc = "kill"]
    OBVIOUS
  <2>2. rs \in [Requests -> Request] /\ rs[r].pc = "kill"
    BY <1>0, <2>1, Values, Parts, Labels DEF TypeOK
  <2>3. /\ UNCHANGED <<starting, strays, lost>>
        /\ (server' = Nobody /\ req' = Cut(rs)) \/ (UNCHANGED server /\ req' = rs)
    BY <1>15, <2>1 DEF Close
  <2>4. req'[r].pc \in Rendering
    BY <2>2, <2>3, CutIsDead DEF Rendering
  <2>5. server' = Nobody => server = Nobody \/ \A q \in Requests : req'[q].conn # "live"
    BY <2>2, <2>3, CutIsDead
  <2>6. /\ starting' \subseteq starting \cup {r} /\ server' \in {server, Stray, Nobody}
        /\ strays' = strays /\ lost' = lost /\ (server' = Stray => server = Stray)
    BY <2>3, FmdConstants
  <2> QED BY <2>4, <2>5, <2>6, Zenon DEF Effect
<1>16. ASSUME NEW inTime \in BOOLEAN, Kill(r, inTime)
       PROVE  Effect(r)
  <2>1. PICK y \in Request : KillOwn(r, [req EXCEPT ![r] = y]) /\ UNCHANGED <<strays, lost>>
    <3>1. CASE inTime /\ req[r].html = "fits" /\ ~req[r].blocked
      <4>1. [Idle EXCEPT !.shown = TRUE, !.refused = req[r].refused] \in Request
        BY <1>0, IdleTypes, Parts, Fields
      <4> QED BY <1>16, <3>1, <4>1 DEF Kill
    <3>2. CASE ~(inTime /\ req[r].html = "fits" /\ ~req[r].blocked)
      BY <1>16, <3>2, IdleTypes DEF Kill, Answered
    <3> QED BY <3>1, <3>2
  <2>2. [req EXCEPT ![r] = y] \in [Requests -> Request]
    BY DEF TypeOK
  <2> QED BY <1>2, <2>1, <2>2
<1>17. CASE Lose(r)
  BY <1>3, <1>17 DEF Lose
<1>18. CASE Drop(r)
  BY <1>1, <1>3, <1>18 DEF Drop
<1> QED BY <1>4, <1>5, <1>6, <1>7, <1>8, <1>9, <1>10, <1>11, <1>12, <1>13, <1>14, <1>15, <1>16,
           <1>17, <1>18 DEF RequestStep, Handle

-----------------------------------------------------------------------------
(* The invariant *)

\* A connection is one to a process that serves.
Served == \A q \in Requests : req[q].conn = "live" => server # Nobody

\* With one render permit there is one render.
Single == RenderConcurrency = 1 => \A p, q \in At(Rendering) : p = q

Inv == /\ TypeOK /\ Queues /\ \A q \in Requests : Sound(req[q])
       /\ StraysAreLost /\ Served /\ Single

LEMMA InitInv == Init => Inv
<1> SUFFICES ASSUME Init PROVE Inv
  OBVIOUS
<1>1. TypeOK
  BY InitTypes
<1>2. \A q \in Requests : req[q] = Idle
  BY DEF Init
<1>3. Queues
  BY DEF Init, Queues, Line
<1>4. StraysAreLost
  BY FmdConstants DEF Init, StraysAreLost
<1>5. Served
  BY <1>2 DEF Served, Idle
<1>6. Single
  BY <1>2 DEF Single, At, Idle, Rendering
<1> QED BY <1>1, <1>2, <1>3, <1>4, <1>5, <1>6, IdleIsSound DEF Inv

\* Where a step of r leaves every request.
LEMMA StepParts ==
  ASSUME Inv, NEW r \in Requests, RequestStep(r)
  PROVE  /\ req' \in [Requests -> Request]
         /\ \A q \in Requests : Sound(req'[q])
         /\ \A q \in Requests \ {r} : req'[q].pc = req[q].pc
         /\ \A q \in Requests : req'[q].conn = "live" => req[q].conn = "live" \/ server # Nobody
         /\ req'[r].pc \in Rendering
               => req[r].pc \in Rendering \/ Cardinality(At(Rendering)) < RenderConcurrency
<1>1. PICK y : Moves(req[r], y) /\ Moved(r, y)
  BY RequestMoves DEF Inv
<1>2. req[r] \in Request /\ y \in Request /\ Sound(y)
  BY <1>1, MovesTypes, MovesSound DEF Inv, TypeOK
<1>3. req' \in [Requests -> Request]
  <2>1. [req EXCEPT ![r] = y] \in [Requests -> Request]
    BY <1>2 DEF Inv, TypeOK
  <2> QED BY <1>1, <2>1, CutTypes DEF Moved
<1>4. ASSUME NEW q \in Requests
      PROVE  /\ Sound(req'[q])
             /\ q # r => req'[q].pc = req[q].pc
             /\ req'[q].conn = "live" => req[q].conn = "live" \/ server # Nobody
             /\ q = r => req'[q].pc = y.pc
  <2>1. PICK z \in Request : /\ z = IF q = r THEN y ELSE req[q]
                             /\ req'[q] = z \/ req'[q] = [z EXCEPT !.conn = "dead"]
    BY <1>1, <1>2, MovedParts DEF Inv
  <2>2. Sound(z) /\ (z.conn = "live" => req[q].conn = "live" \/ server # Nobody)
    <3>1. CASE q = r
      <4>1. z = y
        BY <2>1, <3>1
      <4> QED BY <1>1, <1>2, <3>1, <4>1, MovesRenders
    <3>2. CASE q # r
      BY <2>1, <3>2 DEF Inv
    <3> QED BY <3>1, <3>2
  <2>3. Sound(req'[q]) /\ req'[q].pc = z.pc /\ (req'[q].conn = "live" => z.conn = "live")
    BY <2>1, <2>2, DeadParts
  <2>4. (q # r => z.pc = req[q].pc) /\ (q = r => z.pc = y.pc)
    BY <2>1
  <2> QED BY <2>2, <2>3, <2>4
<1>5. y.pc \in Rendering
         => req[r].pc \in Rendering \/ Cardinality(At(Rendering)) < RenderConcurrency
  BY <1>1, <1>2, MovesRenders
<1> QED BY <1>3, <1>4, <1>5

\* A queue that no step touches keeps its requests, if r is not in it.
LEMMA QueueStays ==
  ASSUME NEW r \in Requests, \A q \in Requests \ {r} : req'[q].pc = req[q].pc,
         NEW pc, NEW line, Line(line, At({pc}) \ {r})
  PROVE  Line(line, At({pc})')
<1>1. At({pc}) \ {r} \subseteq At({pc})'
  BY DEF At
<1> QED BY <1>1, LineStays

\* A request is in a queue only while it waits there.
LEMMA NotQueued ==
  ASSUME NEW r \in Requests, NEW pc, req[r].pc # pc, NEW line, Line(line, At({pc}))
  PROVE  Line(line, At({pc}) \ {r})
<1>1. At({pc}) \subseteq At({pc}) \ {r}
  BY DEF At
<1> QED BY <1>1, LineStays

\* r joins the end of a queue.
LEMMA QueueGrows ==
  ASSUME NEW r \in Requests, \A q \in Requests \ {r} : req'[q].pc = req[q].pc,
         NEW pc, req[r].pc # pc, req'[r].pc = pc, NEW line, Line(line, At({pc}))
  PROVE  Line(Append(line, r), At({pc})')
<1>1. r \notin At({pc}) /\ At({pc}) \cup {r} \subseteq At({pc})'
  BY DEF At
<1>2. Line(Append(line, r), At({pc}) \cup {r})
  BY <1>1, LineJoins
<1> QED BY <1>1, <1>2, LineStays

LEMMA QueuesStep ==
  ASSUME Inv, NEW r \in Requests, RequestStep(r)
  PROVE  Queues'
<1>0. /\ \A q \in Requests \ {r} : req'[q].pc = req[q].pc
      /\ Line(queue, At({"queued"})) /\ Line(renderQueue, At({"renderQueued"}))
      /\ req[r] \in Request /\ \A y : [req EXCEPT ![r] = y][r] = y
  BY StepParts DEF Inv, Queues, TypeOK
<1>1. ASSUME Line(queue', At({"queued"}) \ {r}), Line(renderQueue', At({"renderQueued"}) \ {r})
      PROVE  Queues'
  BY <1>0, <1>1, QueueStays DEF Queues
<1>2. ASSUME req[r].pc \notin {"queued", "renderQueued"}, UNCHANGED queueVars
      PROVE  Queues'
  BY <1>0, <1>1, <1>2, NotQueued DEF queueVars
<1>3. CASE Arrive(r)
  <2>1. req[r].pc = "idle" /\ req'[r].pc = "queued" /\ queue' = Append(queue, r)
        /\ renderQueue' = renderQueue
    BY <1>0, <1>3 DEF Arrive, Idle
  <2>2. Line(queue', At({"queued"})')
    BY <1>0, <2>1, QueueGrows
  <2>3. Line(renderQueue', At({"renderQueued"})')
    BY <1>0, <2>1, NotQueued, QueueStays
  <2> QED BY <2>2, <2>3 DEF Queues
<1>4. ASSUME NEW valid \in BOOLEAN, NEW resolved \in SUBSET Addresses, Admit(r, valid, resolved)
      PROVE  Queues'
  <2>1. queue # << >> /\ Head(queue) = r /\ queue' = Tail(queue) /\ renderQueue' = renderQueue
    BY <1>4 DEF Admit
  <2>2. r \in At({"queued"}) /\ Line(queue', At({"queued"}) \ {r})
    BY <1>0, <2>1, LineMoves
  <2>3. Line(renderQueue', At({"renderQueued"}) \ {r})
    BY <1>0, <2>1, <2>2, NotQueued DEF At
  <2> QED BY <1>1, <2>2, <2>3
<1>5. ASSUME NEW spawned \in BOOLEAN, StartRender(r, spawned)
      PROVE  Queues'
  <2>1. renderQueue # << >> /\ Head(renderQueue) = r /\ renderQueue' = Tail(renderQueue)
        /\ queue' = queue
    BY <1>5 DEF StartRender
  <2>2. r \in At({"renderQueued"}) /\ Line(renderQueue', At({"renderQueued"}) \ {r})
    BY <1>0, <2>1, LineMoves
  <2>3. Line(queue', At({"queued"}) \ {r})
    BY <1>0, <2>1, <2>2, NotQueued DEF At
  <2> QED BY <1>1, <2>2, <2>3
<1>6. ASSUME NEW page \in Page, Fetched(r, page)
      PROVE  Queues'
  <2>1. CASE UNCHANGED renderQueue
    BY <1>2, <1>6, <2>1 DEF Fetched, queueVars
  <2>2. CASE ~UNCHANGED renderQueue
    <3>1. req[r].pc = "fetch" /\ renderQueue' = Append(renderQueue, r) /\ queue' = queue
          /\ req' = [req EXCEPT ![r] = [@ EXCEPT !.pc = "renderQueued", !.tries = 0]]
      BY <1>6, <2>2 DEF Fetched
    <3>2. req'[r].pc = "renderQueued"
      <4>1. req'[r] = [req[r] EXCEPT !.pc = "renderQueued", !.tries = 0]
        BY <1>0, <3>1
      <4> QED BY <1>0, <4>1, Values
    <3>3. Line(renderQueue', At({"renderQueued"})')
      BY <1>0, <3>1, <3>2, QueueGrows
    <3>4. Line(queue', At({"queued"})')
      BY <1>0, <3>1, NotQueued, QueueStays
    <3> QED BY <3>3, <3>4 DEF Queues
  <2> QED BY <2>1, <2>2
<1>7. CASE Drop(r)
  BY <1>0, <1>1, <1>7, LineLeaves DEF Drop
<1>8. ASSUME NEW allowed \in BOOLEAN, Intercept(r, allowed)
      PROVE  Queues'
  BY <1>2, <1>8 DEF Intercept
<1>9. ASSUME AttemptFails(r) \/ Refuse(r) \/ Connect(r) \/ ConnectFails(r) \/ OpenPage(r) \/ Lose(r)
      PROVE  Queues'
  BY <1>2, <1>9 DEF AttemptFails, Refuse, Connect, ConnectFails, OpenPage, Lose, Rendering, queueVars
<1>10. ASSUME NEW succeeds \in BOOLEAN, Navigate(r, succeeds)
       PROVE  Queues'
  BY <1>2, <1>10 DEF Navigate
<1>11. ASSUME NEW html \in {"fits", "long"}, Content(r, html)
       PROVE  Queues'
  BY <1>2, <1>11 DEF Content
<1>12. ASSUME NEW ends \in BOOLEAN, Close(r, ends)
       PROVE  Queues'
  BY <1>2, <1>12 DEF Close, queueVars
<1>13. ASSUME NEW inTime \in BOOLEAN, Kill(r, inTime)
       PROVE  Queues'
  BY <1>2, <1>13 DEF Kill, queueVars
<1> QED BY <1>3, <1>4, <1>5, <1>6, <1>7, <1>8, <1>9, <1>10, <1>11, <1>12, <1>13
        DEF RequestStep, Handle

LEMMA RequestInv ==
  ASSUME Inv, NEW r \in Requests, RequestStep(r)
  PROVE  Inv'
<1>1. /\ req' \in [Requests -> Request] /\ \A q \in Requests : Sound(req'[q])
      /\ \A q \in Requests \ {r} : req'[q].pc = req[q].pc
  BY StepParts
<1>2. Effect(r)
  BY Effects DEF Inv
<1>3. Queues'
  BY QueuesStep
<1>4. TypeOK'
  <2>1. queue' \in Seq(Requests) /\ renderQueue' \in Seq(Requests)
    BY <1>3 DEF Queues, Line
  <2>2. starting' \subseteq Requests /\ server' \in Requests \cup {Stray, Nobody}
        /\ strays' \in Nat /\ lost' \in BOOLEAN
    <3>1. /\ starting \subseteq Requests /\ server \in Requests \cup {Stray, Nobody}
          /\ strays \in Nat /\ lost \in BOOLEAN
      BY DEF Inv, TypeOK
    <3>2. /\ starting' \subseteq starting \cup {r} /\ server' \in {server, Stray, Nobody}
          /\ strays' \in {strays, strays + 1} /\ (lost' = lost \/ lost' = TRUE)
      BY <1>2 DEF Effect
    <3>3. strays' \in Nat
      BY <3>1, <3>2
    <3>4. lost' \in BOOLEAN
      BY <3>1, <3>2, Zenon
    <3> QED BY <3>1, <3>2, <3>3, <3>4
  <2> QED BY <1>1, <2>1, <2>2 DEF TypeOK
<1>5. StraysAreLost'
  <2>1. (strays > 0 \/ server = Stray => lost)'
    <3>1. strays > 0 \/ server = Stray => lost
      BY DEF Inv, StraysAreLost
    <3>2. /\ server' \in {server, Stray, Nobody} /\ (lost' = lost \/ lost' = TRUE)
          /\ strays' # strays \/ (server' = Stray /\ server # Stray) => lost'
      BY <1>2 DEF Effect
    <3>3. CASE strays' # strays \/ (server' = Stray /\ server # Stray)
      BY <3>2, <3>3
    <3>4. CASE strays' = strays /\ ~(server' = Stray /\ server # Stray)
      BY <3>1, <3>2, <3>4
    <3> QED BY <3>3, <3>4
  <2>2. ASSUME NEW q \in Requests, q \in starting' \/ server' = q
        PROVE  req'[q].pc \in Rendering
    <3>1. CASE q = r
      BY <1>2, <2>2, <3>1 DEF Effect
    <3>2. CASE q # r
      <4>1. q \in starting \/ server = q
        BY <1>2, <2>2, <3>2, FmdConstants DEF Effect
      <4> QED BY <1>1, <3>2, <4>1 DEF Inv, StraysAreLost, At
    <3> QED BY <3>1, <3>2
  <2>3. starting' \subseteq Requests
    BY <1>4 DEF TypeOK
  <2> QED BY <2>1, <2>2, <2>3 DEF StraysAreLost, At
<1>6. Served'
  <2>1. ASSUME NEW q \in Requests, req'[q].conn = "live" PROVE server # Nobody
    BY <2>1, StepParts DEF Inv, Served
  <2> QED BY <1>2, <2>1 DEF Effect, Served
<1>7. Single'
  <2> SUFFICES ASSUME RenderConcurrency = 1, NEW p \in At(Rendering)', NEW q \in At(Rendering)'
               PROVE  p = q
    BY DEF Single
  <2>1. CASE req[r].pc \in Rendering \/ req'[r].pc \notin Rendering
    BY <1>1, <2>1 DEF Inv, Single, At
  <2>2. CASE req[r].pc \notin Rendering /\ req'[r].pc \in Rendering
    <3>1. Cardinality(At(Rendering)) < 1
      BY <2>2, StepParts
    <3>2. IsFiniteSet(At(Rendering))
      BY FmdConstants, FS_Subset DEF At
    <3>3. At(Rendering) = {}
      BY <3>1, <3>2, FS_CardinalityType, FS_EmptySet
    <3> QED BY <1>1, <3>3 DEF At
  <2> QED BY <2>1, <2>2
<1> QED BY <1>1, <1>3, <1>4, <1>5, <1>6, <1>7 DEF Inv

LEMMA ProcessInv ==
  ASSUME Inv, Process
  PROVE  Inv'
<1>1. ASSUME NEW rs, rs = req \/ (rs = Cut(req)), req' = rs, UNCHANGED queueVars, TypeOK',
             server' \in Requests => server' = server \/ server' \in starting,
             (strays > 0 \/ server = Stray => lost)', starting' \subseteq starting,
             server' = Nobody => rs = Cut(req) \/ server = Nobody
      PROVE  Inv'
  <2>1. \A q \in Requests : /\ req'[q].pc = req[q].pc
                            /\ Sound(req'[q])
                            /\ req'[q].conn = "live" => req[q].conn = "live"
    <3> SUFFICES ASSUME NEW q \in Requests
                 PROVE  /\ req'[q].pc = req[q].pc
                        /\ Sound(req'[q])
                        /\ req'[q].conn = "live" => req[q].conn = "live"
      OBVIOUS
    <3>1. req[q] \in Request /\ Sound(req[q])
      BY DEF Inv, TypeOK
    <3>2. Cut(req)[q] = req[q] \/ Cut(req)[q] = [req[q] EXCEPT !.conn = "dead"]
      BY DEF Cut
    <3> QED BY <1>1, <3>1, <3>2, DeadParts
  <2>2. At({"queued"})' = At({"queued"}) /\ At({"renderQueued"})' = At({"renderQueued"})
        /\ At(Rendering)' = At(Rendering)
    BY <2>1 DEF At
  <2>3. Queues'
    BY <1>1, <2>2, LineStays DEF Inv, Queues, queueVars
  <2>4. StraysAreLost'
    BY <1>1, <2>2 DEF Inv, StraysAreLost
  <2>5. Served'
    <3>1. CASE rs = Cut(req)
      BY <1>1, <3>1, CutIsDead DEF Inv, TypeOK, Served
    <3>2. CASE rs # Cut(req)
      BY <1>1, <2>1, <3>2 DEF Inv, Served
    <3> QED BY <3>1, <3>2
  <2>6. Single'
    BY <2>2 DEF Inv, Single
  <2> QED BY <1>1, <2>1, <2>3, <2>4, <2>5, <2>6 DEF Inv
<1>2. ASSUME NEW r \in Requests, Bind(r)
      PROVE  Inv'
  <2>1. TypeOK'
    BY <1>2 DEF Inv, TypeOK, Bind, queueVars
  <2>2. (strays > 0 \/ server = Stray => lost)'
    BY <1>2, FmdConstants DEF Inv, StraysAreLost, Bind
  <2> QED BY <1>1, <1>2, <2>1, <2>2, FmdConstants DEF Bind
<1>3. CASE StrayBinds
  <2>1. TypeOK'
    BY <1>3 DEF Inv, TypeOK, StrayBinds, queueVars
  <2>2. (strays > 0 \/ server = Stray => lost)'
    BY <1>3 DEF Inv, TypeOK, StraysAreLost, StrayBinds
  <2> QED BY <1>1, <1>3, <2>1, <2>2, FmdConstants DEF StrayBinds
<1>4. CASE ServerEnds
  <2>1. TypeOK'
    BY <1>4, CutTypes DEF Inv, TypeOK, ServerEnds, queueVars
  <2>2. (strays > 0 \/ server = Stray => lost)'
    BY <1>4, FmdConstants DEF Inv, StraysAreLost, ServerEnds
  <2> QED BY <1>1, <1>4, <2>1, <2>2, FmdConstants DEF ServerEnds
<1> QED BY <1>2, <1>3, <1>4 DEF Process

LEMMA NextInv == Inv /\ [Next]_vars => Inv'
<1> SUFFICES ASSUME Inv, [Next]_vars PROVE Inv'
  OBVIOUS
<1>1. CASE UNCHANGED vars
  BY <1>1 DEF vars, Inv, TypeOK, Queues, Sound, StraysAreLost, Served, Single, At, Line
<1>2. ASSUME NEW r \in Requests, RequestStep(r)
      PROVE  Inv'
  BY <1>2, RequestInv
<1>3. CASE Process
  BY <1>3, ProcessInv
<1> QED BY <1>1, <1>2, <1>3 DEF Next, RequestStep

LEMMA InvHolds == Spec => []Inv
BY InitInv, NextInv, PTL DEF Spec

-----------------------------------------------------------------------------
(* The theorems *)

\* Every variable keeps to its type: no more addresses are tried than
\* MaxTries, and a subrequest beyond the limit is counted once at most.
THEOREM TypeCorrect == Spec => []TypeOK
<1>1. Inv => TypeOK
  BY DEF Inv
<1> QED BY <1>1, InvHolds, PTL

\* A process that nobody owns was let go of by a render that timed out,
\* returned early or was dropped; every other one belongs to a render.
THEOREM StraysWereLost == Spec => []StraysAreLost
<1>1. Inv => StraysAreLost
  BY DEF Inv
<1> QED BY <1>1, InvHolds, PTL

\* With one render permit, and no process let go of, a render is connected
\* to the process it has started, although every process has the same port.
THEOREM BrowserIsOwn == Spec => []OwnBrowser
<1>1. Inv => OwnBrowser
  <2> SUFFICES ASSUME Inv, RenderConcurrency = 1, ~lost, NEW r \in Requests, req[r].conn = "live"
               PROVE  server = r
    BY DEF OwnBrowser
  <2>1. server \in Requests
    BY DEF Inv, TypeOK, Served, StraysAreLost
  <2>2. server \in At(Rendering)
    BY <2>1 DEF Inv, StraysAreLost
  <2>3. r \in At(Rendering)
    BY DEF Inv, Sound, At
  <2> QED BY <2>2, <2>3 DEF Inv, Single
<1> QED BY <1>1, InvHolds, PTL

\* A page one of whose subrequests was refused is not shown as rendered,
\* whenever the intercept task sees the subrequest.
THEOREM RefusedStaysHidden == Spec => []RefusedIsNotShown
<1>1. Inv => RefusedIsNotShown
  BY DEF Inv, Sound, RefusedIsNotShown
<1> QED BY <1>1, InvHolds, PTL
=============================================================================
