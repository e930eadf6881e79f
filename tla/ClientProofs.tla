---------------------------- MODULE ClientProofs ----------------------------
(***************************************************************************)
(* Proofs about jQuery.atmosphere, for any messages, browsers, transports  *)
(* and bounds: a page that has subscribed keeps a connection, or a timer   *)
(* that makes one; a message is posted once, and told once by a stream.    *)
(*                                                                         *)
(* The library is a composition of functions on the page, so the lemmas    *)
(* say of each function that it leaves the page Sound (what points where)  *)
(* and that it Keeps what was live; the handlers that lose a connection    *)
(* have lemmas that say which other is live.  The second part says of the  *)
(* same functions that they leave the page Proper: whose polls are open,   *)
(* what a request may still post and how much of a text has been told.     *)
(***************************************************************************)
EXTENDS AtmosphereClient, FiniteSetTheorems, TLAPS

\* What the proofs need to know of a sequence: not of what it is one.
IsSeq(q) == \E S : q \in Seq(S)

IsAm(a) ==
  a = [request |-> a.request, activeRequest |-> a.activeRequest, activeTransport |-> a.activeTransport,
       websocket |-> a.websocket, push |-> a.push, socketRequest |-> a.socketRequest,
       callbacks |-> a.callbacks, subscribed |-> a.subscribed]
IsRequest(r) ==
  r = [transport |-> r.transport, suspend |-> r.suspend, requestCount |-> r.requestCount,
       lastIndex |-> r.lastIndex, id |-> r.id, data |-> r.data]
IsConnection(c) ==
  c = [kind |-> c.kind, request |-> c.request, transport |-> c.transport, data |-> c.data,
       phase |-> c.phase, answer |-> c.answer, text |-> c.text, read |-> c.read,
       timer |-> c.timer, told |-> c.told]
IsPage(p) ==
  /\ p = [am |-> p.am, reqs |-> p.reqs, conns |-> p.conns, failed |-> p.failed]
  /\ IsAm(p.am)
  /\ IsSeq(p.reqs) /\ \A r \in DOMAIN p.reqs : IsRequest(p.reqs[r])
  /\ IsSeq(p.conns) /\ \A x \in DOMAIN p.conns : IsConnection(p.conns[x])

\* What points where: the library to its requests and connections, a
\* connection to its request, a request to its latest poll.  Only requests
\* that suspend have polls and timers, until a socket is downgraded.
Wired(p) ==
  /\ p.am.request \in {0} \cup DOMAIN p.reqs
  /\ p.am.activeRequest \in {0} \cup DOMAIN p.conns /\ p.am.websocket \in {0} \cup DOMAIN p.conns
  /\ p.am.push = "socket" => p.am.socketRequest \in DOMAIN p.reqs
  /\ \A x \in DOMAIN p.conns :
       /\ p.conns[x].request \in DOMAIN p.reqs
       /\ p.failed = {} /\ p.conns[x].timer => p.reqs[p.conns[x].request].suspend
  /\ \A r \in DOMAIN p.reqs :
       /\ p.reqs[r].id \in {0} \cup DOMAIN p.conns
       /\ p.failed = {} /\ p.reqs[r].id # 0 => p.reqs[r].suspend

\* A connection that brings messages, or whose timer makes one that does.
Live(p, x) ==
  \/ p.conns[x].timer
  \/ /\ p.conns[x].phase \in {"sent", "open"}
     /\ p.conns[x].kind = "xhr" => p.reqs[p.conns[x].request].suspend

Lives(p) == p.am.subscribed > 0 /\ p.failed = {} => \E x \in DOMAIN p.conns : Live(p, x)

Sound(p) == IsPage(p) /\ Wired(p)
ClientInv == Sound(Page) /\ Lives(Page)

\* The next page has what the page had; of the requests none has become one
\* that suspends, or none that does not, unless something has failed.
Extends(p, q) ==
  /\ DOMAIN p.reqs \subseteq DOMAIN q.reqs /\ DOMAIN p.conns \subseteq DOMAIN q.conns
  /\ q.failed = {} => p.failed = {} /\ \A r \in DOMAIN p.reqs : q.reqs[r].suspend = p.reqs[r].suspend
  /\ q.am.subscribed = p.am.subscribed

\* ... and what was live still is
Keeps(p, q) ==
  /\ Extends(p, q)
  /\ q.failed = {} => \A x \in DOMAIN p.conns : Live(p, x) => Live(q, x)
-----------------------------------------------------------------------------

(* Sequences. *)

LEMMA Replaced ==
  ASSUME NEW q, IsSeq(q), NEW i \in DOMAIN q, NEW e, NEW r, r = [q EXCEPT ![i] = e]
  PROVE  /\ IsSeq(r) /\ DOMAIN r = DOMAIN q /\ Len(r) = Len(q)
         /\ r[i] = e /\ \A k \in DOMAIN q : k # i => r[k] = q[k]
<1>1. PICK S : q \in Seq(S)
  BY DEF IsSeq
<1>2. PICK T : T = S \cup {e}
  OBVIOUS
<1>3. q \in Seq(T) /\ e \in T
  BY <1>1, <1>2
<1>4. r \in Seq(T)
  BY <1>3
<1>5. DOMAIN r = DOMAIN q /\ r[i] = e /\ \A k \in DOMAIN q : k # i => r[k] = q[k]
  BY <1>3
<1>6. Len(r) = Len(q)
  BY <1>3, <1>4, <1>5
<1> QED BY <1>4, <1>5, <1>6 DEF IsSeq

AddedTo(q, e, r) ==
  /\ IsSeq(r) /\ DOMAIN r = DOMAIN q \cup {Len(q) + 1} /\ Len(r) = Len(q) + 1
  /\ Len(q) + 1 \notin DOMAIN q /\ Len(q) + 1 # 0 /\ 0 \notin DOMAIN q
  /\ r[Len(q) + 1] = e /\ \A k \in DOMAIN q : r[k] = q[k]

LEMMA Added ==
  ASSUME NEW q, IsSeq(q), NEW e, NEW r, r = Append(q, e)
  PROVE  AddedTo(q, e, r)
<1>1. PICK S : q \in Seq(S)
  BY DEF IsSeq
<1>2. PICK T : T = S \cup {e}
  OBVIOUS
<1>3. q \in Seq(T) /\ e \in T
  BY <1>1, <1>2
<1>4. r \in Seq(T) /\ Len(r) = Len(q) + 1 /\ Len(q) \in Nat
  BY <1>3
<1>5. DOMAIN q = 1 .. Len(q) /\ DOMAIN r = 1 .. Len(q) + 1
  BY <1>3, <1>4
<1>6. r[Len(q) + 1] = e /\ \A k \in DOMAIN q : r[k] = q[k]
  BY <1>3
<1>7. DOMAIN r = DOMAIN q \cup {Len(q) + 1}
  BY <1>4, <1>5
<1>8. Len(q) + 1 \notin DOMAIN q /\ Len(q) + 1 # 0 /\ 0 \notin DOMAIN q
  BY <1>4, <1>5
<1> QED BY <1>4, <1>6, <1>7, <1>8 DEF IsSeq, AddedTo

LEMMA Redefined ==
  ASSUME NEW q, IsSeq(q), NEW r, DOMAIN r = DOMAIN q, r = [k \in DOMAIN q |-> r[k]]
  PROVE  IsSeq(r) /\ Len(r) = Len(q)
<1>1. PICK S : q \in Seq(S)
  BY DEF IsSeq
<1>2. Len(q) \in Nat /\ DOMAIN q = 1 .. Len(q)
  BY <1>1
<1>3. PICK T : T = {r[k] : k \in DOMAIN q}
  OBVIOUS
<1>4. r \in [1 .. Len(q) -> T]
  BY <1>2, <1>3
<1>5. r \in Seq(T) /\ Len(r) = Len(q)
  BY <1>2, <1>4
<1> QED BY <1>5 DEF IsSeq

LEMMA SequencesStartAtOne ==
  ASSUME NEW q, IsSeq(q)
  PROVE  0 \notin DOMAIN q
  BY DEF IsSeq

LEMMA ExtendsFurther ==
  ASSUME NEW p, NEW q, NEW r, Extends(p, q), Extends(q, r)
  PROVE  Extends(p, r)
  BY DEF Extends

LEMMA KeepsFurther ==
  ASSUME NEW p, NEW q, NEW r, Keeps(p, q), Keeps(q, r)
  PROVE  Keeps(p, r)
<1>1. Extends(p, r)
  BY ExtendsFurther DEF Keeps
<1> QED BY <1>1 DEF Keeps, Extends

LEMMA KeepsLives ==
  ASSUME NEW p, NEW q, Keeps(p, q), Lives(p)
  PROVE  Lives(q)
  BY DEF Keeps, Extends, Lives

LEMMA FailKeeps ==
  ASSUME NEW p, Sound(p), NEW why, NEW q, q = Fail(p, why)
  PROVE  Sound(q) /\ q.failed # {} /\ Keeps(p, q) /\ Lives(q)
         /\ q.am = p.am /\ q.reqs = p.reqs /\ q.conns = p.conns
<1>1. q = [am |-> p.am, reqs |-> p.reqs, conns |-> p.conns, failed |-> p.failed \cup {why}]
  BY DEF Fail, Sound, IsPage
<1>2. q.am = p.am /\ q.reqs = p.reqs /\ q.conns = p.conns /\ q.failed = p.failed \cup {why}
  BY <1>1
<1>3. q.failed # {}
  BY <1>2
<1> QED BY <1>1, <1>2, <1>3 DEF Sound, IsPage, Wired, Keeps, Extends, Lives

\* A page that is changed in its connections only, and in none of what it
\* says of a connection that matters here.
LEMMA ConnectionChanges ==
  ASSUME NEW p, Sound(p), NEW x \in DOMAIN p.conns, NEW c, IsConnection(c),
         c.request = p.conns[x].request, c.kind = p.conns[x].kind,
         c.timer => p.conns[x].timer,
         NEW q, q = [p EXCEPT !.conns[x] = c]
  PROVE  /\ Sound(q) /\ Extends(p, q)
         /\ q.am = p.am /\ q.reqs = p.reqs /\ q.failed = p.failed /\ q.conns[x] = c
         /\ DOMAIN q.conns = DOMAIN p.conns /\ Len(q.conns) = Len(p.conns)
         /\ \A y \in DOMAIN p.conns : y # x => q.conns[y] = p.conns[y] /\ (Live(p, y) => Live(q, y))
         /\ (Live(p, x) => Live(q, x)) => Keeps(p, q)
<1>1. PICK cs : cs = [p.conns EXCEPT ![x] = c]
  OBVIOUS
<1>2. /\ IsSeq(cs) /\ DOMAIN cs = DOMAIN p.conns /\ Len(cs) = Len(p.conns)
      /\ cs[x] = c /\ \A k \in DOMAIN p.conns : k # x => cs[k] = p.conns[k]
  BY <1>1, Replaced DEF Sound, IsPage
<1>3. q = [am |-> p.am, reqs |-> p.reqs, conns |-> cs, failed |-> p.failed]
  BY <1>1 DEF Sound, IsPage
<1>4. q.am = p.am /\ q.reqs = p.reqs /\ q.conns = cs /\ q.failed = p.failed
  BY <1>3
<1>5. IsPage(q)
  BY <1>2, <1>3, <1>4 DEF Sound, IsPage
<1>6. \A y \in DOMAIN cs : cs[y].request = p.conns[y].request /\ (cs[y].timer => p.conns[y].timer)
  BY <1>2
<1>7. Wired(q)
  BY <1>2, <1>4, <1>6 DEF Sound, Wired
<1>8. Extends(p, q)
  BY <1>2, <1>4 DEF Extends
<1>9. \A y \in DOMAIN p.conns : y # x => q.conns[y] = p.conns[y] /\ (Live(p, y) => Live(q, y))
  BY <1>2, <1>4 DEF Live
<1> QED BY <1>2, <1>4, <1>5, <1>7, <1>8, <1>9 DEF Sound, Keeps

(* The functions of the library. *)

\* A request object changes in what does not matter here.
LEMMA RequestChanges ==
  ASSUME NEW p, Sound(p), NEW i \in DOMAIN p.reqs, NEW r, IsRequest(r), r.suspend = p.reqs[i].suspend,
         r.id = p.reqs[i].id, NEW q, q = [p EXCEPT !.reqs[i] = r]
  PROVE  /\ Sound(q) /\ Keeps(p, q)
         /\ q.am = p.am /\ q.conns = p.conns /\ q.failed = p.failed /\ q.reqs[i] = r
         /\ DOMAIN q.reqs = DOMAIN p.reqs /\ \A k \in DOMAIN p.reqs : k # i => q.reqs[k] = p.reqs[k]
<1>1. PICK rs : rs = [p.reqs EXCEPT ![i] = r]
  OBVIOUS
<1>2. /\ IsSeq(rs) /\ DOMAIN rs = DOMAIN p.reqs
      /\ rs[i] = r /\ \A k \in DOMAIN p.reqs : k # i => rs[k] = p.reqs[k]
  BY <1>1, Replaced DEF Sound, IsPage
<1>3. q = [am |-> p.am, reqs |-> rs, conns |-> p.conns, failed |-> p.failed]
  BY <1>1 DEF Sound, IsPage
<1>4. q.am = p.am /\ q.reqs = rs /\ q.conns = p.conns /\ q.failed = p.failed
  BY <1>3
<1>5. IsPage(q)
  BY <1>2, <1>3, <1>4 DEF Sound, IsPage
<1>6. \A k \in DOMAIN rs : rs[k].suspend = p.reqs[k].suspend /\ rs[k].id = p.reqs[k].id
  BY <1>2
<1>7. Wired(q)
  BY <1>2, <1>4, <1>6 DEF Sound, Wired
<1>8. Keeps(p, q)
  BY <1>2, <1>4, <1>6 DEF Sound, Wired, Keeps, Extends, Live
<1> QED BY <1>2, <1>4, <1>5, <1>7, <1>8 DEF Sound

\* A request object is added, of which polls may have been made before.
LEMMA NewRequestKeeps ==
  ASSUME NEW p, Sound(p), NEW r, IsRequest(r), r.id \in {0} \cup DOMAIN p.conns,
         p.failed = {} /\ r.id # 0 => r.suspend, NEW q, q = NewRequest(p, r)
  PROVE  /\ Sound(q) /\ Keeps(p, q)
         /\ q.am.request \in DOMAIN q.reqs /\ Current(q) = r
         /\ q.conns = p.conns /\ q.failed = p.failed
<1>1. PICK rs, a : rs = Append(p.reqs, r) /\ a = [p.am EXCEPT !.request = Len(p.reqs) + 1]
  OBVIOUS
<1>2. /\ IsSeq(rs) /\ DOMAIN rs = DOMAIN p.reqs \cup {Len(p.reqs) + 1}
      /\ rs[Len(p.reqs) + 1] = r /\ \A k \in DOMAIN p.reqs : rs[k] = p.reqs[k]
  <2>1. PICK before : before = p.reqs
    OBVIOUS
  <2>2. IsSeq(before) /\ rs = Append(before, r)
    BY <1>1, <2>1 DEF Sound, IsPage
  <2>3. AddedTo(before, r, rs)
    BY <2>2, Added
  <2> QED BY <2>1, <2>3 DEF AddedTo
<1>3. IsAm(a) /\ a.request = Len(p.reqs) + 1 /\ a.activeRequest = p.am.activeRequest
      /\ a.websocket = p.am.websocket /\ a.push = p.am.push /\ a.socketRequest = p.am.socketRequest
      /\ a.subscribed = p.am.subscribed
  BY <1>1 DEF Sound, IsPage, IsAm
<1>4. q = [am |-> a, reqs |-> rs, conns |-> p.conns, failed |-> p.failed]
  BY <1>1 DEF NewRequest, Sound, IsPage
<1>5. q.am = a /\ q.reqs = rs /\ q.conns = p.conns /\ q.failed = p.failed
  BY <1>4
<1>6. IsPage(q)
  BY <1>2, <1>3, <1>4, <1>5 DEF Sound, IsPage
<1>7. \A k \in DOMAIN rs : /\ rs[k].id \in {0} \cup DOMAIN p.conns
                           /\ p.failed = {} /\ rs[k].id # 0 => rs[k].suspend
  BY <1>2 DEF Sound, Wired
<1>8. \A x \in DOMAIN p.conns : p.conns[x].request \in DOMAIN rs /\ rs[p.conns[x].request] = p.reqs[p.conns[x].request]
  BY <1>2 DEF Sound, Wired
<1>9. Wired(q)
  BY <1>2, <1>3, <1>5, <1>7, <1>8 DEF Sound, Wired
<1>10. Keeps(p, q)
  BY <1>2, <1>3, <1>5, <1>8 DEF Keeps, Extends, Live
<1> QED BY <1>2, <1>3, <1>5, <1>6, <1>9, <1>10 DEF Sound, Current

\* The connection that Open adds.
Opened(p, kind, r) ==
  [kind |-> kind, request |-> p.am.request, transport |-> r.transport,
   data |-> r.data, phase |-> IF kind = "frame" THEN "open" ELSE "sent",
   answer |-> "none", text |-> <<>>, read |-> 0,
   timer |-> kind = "xhr" /\ r.suspend, told |-> [m \in Msg |-> 0]]

LEMMA OpenAdds ==
  ASSUME NEW p, Sound(p), NEW kind, NEW r, NEW cs, cs = Open(p, kind, r)
  PROVE  AddedTo(p.conns, Opened(p, kind, r), cs) /\ IsConnection(Opened(p, kind, r))
<1>1. cs = Append(p.conns, Opened(p, kind, r))
  BY DEF Open, Opened
<1>2. IsConnection(Opened(p, kind, r))
  BY DEF Opened, IsConnection
<1>3. PICK before, c : before = p.conns /\ c = Opened(p, kind, r)
  OBVIOUS
<1>4. IsSeq(before) /\ cs = Append(before, c)
  BY <1>1, <1>3 DEF Sound, IsPage
<1>5. AddedTo(before, c, cs)
  BY <1>4, Added
<1> QED BY <1>2, <1>3, <1>5

Gains(p, kind, q) ==
  /\ Sound(q) /\ Keeps(p, q)
  /\ (kind = "xhr" => Current(p).suspend) => Live(q, Len(p.conns) + 1)
  /\ Len(p.conns) + 1 \in DOMAIN q.conns \ DOMAIN p.conns
  /\ \A x \in DOMAIN p.conns : q.conns[x] = p.conns[x]

\* A page that gets a connection for its current request: what changes beside
\* is the library's idea of its connections, and the request's of its poll.
LEMMA ConnectionAdded ==
  ASSUME NEW p, Sound(p), p.am.request \in DOMAIN p.reqs, NEW kind, NEW cs, cs = Open(p, kind, Current(p)),
         NEW a, IsAm(a), a.request = p.am.request, a.subscribed = p.am.subscribed,
         a.activeRequest \in {p.am.activeRequest, Len(p.conns) + 1},
         a.websocket \in {p.am.websocket, Len(p.conns) + 1},
         a.push = "socket" => a.socketRequest \in DOMAIN p.reqs,
         NEW rs, IsSeq(rs), DOMAIN rs = DOMAIN p.reqs,
         \A k \in DOMAIN rs : /\ IsRequest(rs[k]) /\ rs[k].suspend = p.reqs[k].suspend
                              /\ rs[k].id = p.reqs[k].id \/ (rs[k].id = Len(p.conns) + 1 /\ rs[k].suspend),
         NEW q, q = [am |-> a, reqs |-> rs, conns |-> cs, failed |-> p.failed]
  PROVE  Gains(p, kind, q)
<1>1. PICK n, c : n = Len(p.conns) + 1 /\ c = Opened(p, kind, Current(p))
  OBVIOUS
<1>2. /\ IsSeq(cs) /\ DOMAIN cs = DOMAIN p.conns \cup {n}
      /\ n \notin DOMAIN p.conns /\ n # 0
      /\ cs[n] = c /\ \A x \in DOMAIN p.conns : cs[x] = p.conns[x]
      /\ IsConnection(c)
  <2>1. PICK r : r = Current(p)
    OBVIOUS
  <2>2. cs = Open(p, kind, r) /\ c = Opened(p, kind, r)
    BY <1>1, <2>1
  <2>3. AddedTo(p.conns, c, cs) /\ IsConnection(c)
    BY <2>2, OpenAdds
  <2> QED BY <1>1, <2>3 DEF AddedTo
<1>3. q.am = a /\ q.reqs = rs /\ q.conns = cs /\ q.failed = p.failed
  OBVIOUS
<1>4. c.request = p.am.request /\ c.kind = kind /\ c.phase \in {"sent", "open"}
      /\ (c.timer => Current(p).suspend)
  BY <1>1 DEF Opened
<1>5. IsPage(q)
  BY <1>2, <1>3 DEF Sound, IsPage
<1>6. \A x \in DOMAIN cs : /\ cs[x].request \in DOMAIN rs
                           /\ p.failed = {} /\ cs[x].timer => rs[cs[x].request].suspend
  <2>1. \A x \in DOMAIN p.conns : /\ cs[x].request \in DOMAIN rs
                                  /\ p.failed = {} /\ cs[x].timer => rs[cs[x].request].suspend
    BY <1>2 DEF Sound, Wired
  <2>2. cs[n].request \in DOMAIN rs /\ (cs[n].timer => rs[cs[n].request].suspend)
    BY <1>2, <1>4 DEF Current
  <2> QED BY <1>2, <2>1, <2>2
<1>7. \A k \in DOMAIN rs : /\ rs[k].id \in {0} \cup DOMAIN cs
                           /\ p.failed = {} /\ rs[k].id # 0 => rs[k].suspend
  BY <1>1, <1>2 DEF Sound, Wired
<1>8. a.activeRequest \in {0} \cup DOMAIN cs /\ a.websocket \in {0} \cup DOMAIN cs
  BY <1>1, <1>2 DEF Sound, Wired
<1>9. Wired(q)
  BY <1>3, <1>6, <1>7, <1>8 DEF Wired
<1>10. \A x \in DOMAIN p.conns : Live(p, x) => Live(q, x)
  BY <1>2, <1>3 DEF Live, Sound, Wired
<1>11. Keeps(p, q)
  BY <1>2, <1>3, <1>10 DEF Keeps, Extends
<1>12. (kind = "xhr" => Current(p).suspend) => Live(q, n)
  BY <1>2, <1>3, <1>4 DEF Live, Current
<1> QED BY <1>1, <1>2, <1>3, <1>5, <1>9, <1>11, <1>12 DEF Sound, Gains

\* executeRequest for the current request: what it opens for a request that
\* suspends brings messages, unless maxRequest is reached.
Executed(p, q) ==
  /\ Sound(q) /\ Keeps(p, q) /\ q.am.request = p.am.request /\ q.am.request \in DOMAIN q.reqs
  /\ q.failed = {} /\ Current(p).suspend => \E n \in DOMAIN q.conns : Live(q, n) /\ n \notin DOMAIN p.conns
  /\ q.am.websocket = p.am.websocket /\ q.am.socketRequest = p.am.socketRequest

\* A record with a record in it, changed in both.
Polls(c, act, i, id, cs) ==
  [c EXCEPT !.am.push = "publish", !.am.activeRequest = act, !.reqs[i].id = id, !.conns = cs]
PollsAm(a0, act) == [a0 EXCEPT !.push = "publish", !.activeRequest = act]
PollsReqs(r0, i, id) == [r0 EXCEPT ![i].id = id]

LEMMA PageExcept ==
  ASSUME NEW a0, NEW r0, NEW c0, NEW f0, NEW act, NEW i, NEW id, NEW cs,
         NEW c, c = [am |-> a0, reqs |-> r0, conns |-> c0, failed |-> f0]
  PROVE  Polls(c, act, i, id, cs)
           = [am |-> PollsAm(a0, act), reqs |-> PollsReqs(r0, i, id), conns |-> cs, failed |-> f0]
<1>1. PICK a1 : a1 = [a0 EXCEPT !.push = "publish"]
  OBVIOUS
<1>2. PICK a2 : a2 = [a1 EXCEPT !.activeRequest = act]
  OBVIOUS
<1>3. PICK r2 : r2 = [r0 EXCEPT ![i].id = id]
  OBVIOUS
<1>4. PICK d1 : d1 = [c EXCEPT !.am.push = "publish"]
  OBVIOUS
<1>5. d1 = [am |-> a1, reqs |-> r0, conns |-> c0, failed |-> f0]
  BY <1>1, <1>4
<1>6. PICK d2 : d2 = [d1 EXCEPT !.am.activeRequest = act]
  OBVIOUS
<1>7. d2 = [am |-> a2, reqs |-> r0, conns |-> c0, failed |-> f0]
  BY <1>2, <1>5, <1>6
<1>8. PICK d3 : d3 = [d2 EXCEPT !.reqs[i].id = id]
  OBVIOUS
<1>9. d3 = [am |-> a2, reqs |-> r2, conns |-> c0, failed |-> f0]
  BY <1>3, <1>7, <1>8
<1>10. PICK d4 : d4 = [d3 EXCEPT !.conns = cs]
  OBVIOUS
<1>11. d4 = [am |-> a2, reqs |-> r2, conns |-> cs, failed |-> f0]
  BY <1>9, <1>10
<1>12. Polls(c, act, i, id, cs) = d4
  BY <1>4, <1>6, <1>8, <1>10 DEF Polls
<1>13. PollsAm(a0, act) = a2 /\ PollsReqs(r0, i, id) = r2
  BY <1>1, <1>2, <1>3 DEF PollsAm, PollsReqs
<1> QED BY <1>11, <1>12, <1>13

Counted(p) == [p EXCEPT !.reqs[p.am.request].requestCount = IF @ > MaxRequest THEN @ ELSE @ + 1]
PolledBy(p, counted, r, n) ==
  [counted EXCEPT !.am.push = "publish", !.am.activeRequest = IF r.suspend THEN n ELSE @,
                  !.reqs[p.am.request].id = IF r.suspend THEN n ELSE @, !.conns = Open(p, "xhr", r)]

LEMMA ExecuteCases ==
  ASSUME NEW p
  PROVE  executeRequest(p) =
           IF Current(p).transport = "streaming" /\ browser # "standard" THEN frameStreaming(p)
           ELSE IF ~WithinBudget(Current(p)) THEN Fail(Counted(p), "budget")
           ELSE PolledBy(p, Counted(p), Current(p), Len(p.conns) + 1)
  BY DEF executeRequest, Counted, PolledBy

\* What executeRequest makes of the page, in each of its cases.
Counting(r) ==
  [transport |-> r.transport, suspend |-> r.suspend,
   requestCount |-> IF r.requestCount > MaxRequest THEN r.requestCount ELSE r.requestCount + 1,
   lastIndex |-> r.lastIndex, id |-> r.id, data |-> r.data]
Polling(r, n) ==
  [transport |-> r.transport, suspend |-> r.suspend, requestCount |-> Counting(r).requestCount,
   lastIndex |-> r.lastIndex, id |-> IF r.suspend THEN n ELSE r.id, data |-> r.data]
Framed(p, q) ==
  /\ Current(p).transport = "streaming" /\ browser # "standard"
  /\ q = [am |-> [p.am EXCEPT !.push = "publish"], reqs |-> p.reqs,
          conns |-> Open(p, "frame", Current(p)), failed |-> p.failed]
Stopped(p, q) ==
  q = [am |-> p.am, reqs |-> [p.reqs EXCEPT ![p.am.request] = Counting(Current(p))],
       conns |-> p.conns, failed |-> p.failed \cup {"budget"}]
Polled(p, q) ==
  /\ ~(Current(p).transport = "streaming" /\ browser # "standard")
  /\ q = [am |-> [p.am EXCEPT !.push = "publish",
                              !.activeRequest = IF Current(p).suspend THEN Len(p.conns) + 1 ELSE @],
          reqs |-> [p.reqs EXCEPT ![p.am.request] = Polling(Current(p), Len(p.conns) + 1)],
          conns |-> Open(p, "xhr", Current(p)), failed |-> p.failed]

LEMMA ExecuteIs ==
  ASSUME NEW p, Sound(p), p.am.request \in DOMAIN p.reqs, NEW q, q = executeRequest(p)
  PROVE  Framed(p, q) \/ Stopped(p, q) \/ Polled(p, q)
<1>1. PICK r, i, n : r = Current(p) /\ i = p.am.request /\ n = Len(p.conns) + 1
  OBVIOUS
<1>2. IsRequest(r) /\ r = p.reqs[i] /\ i \in DOMAIN p.reqs
  BY <1>1 DEF Sound, IsPage, Current
<1>3. PICK count, more : count = (IF r.requestCount > MaxRequest THEN r.requestCount ELSE r.requestCount + 1)
                         /\ more = Counting(r)
  OBVIOUS
<1>4. more = [transport |-> r.transport, suspend |-> r.suspend, requestCount |-> count,
              lastIndex |-> r.lastIndex, id |-> r.id, data |-> r.data]
  BY <1>3 DEF Counting
<1>5. PICK counted : counted = [p EXCEPT !.reqs[i] = more]
  OBVIOUS
<1>6. Counted(p) = counted
  <2>1. [r EXCEPT !.requestCount = count] = more
    BY <1>2, <1>4 DEF IsRequest
  <2> QED BY <1>1, <1>2, <1>3, <1>5, <2>1 DEF Counted
<1>7. counted = [am |-> p.am, reqs |-> [p.reqs EXCEPT ![i] = more], conns |-> p.conns, failed |-> p.failed]
  BY <1>5 DEF Sound, IsPage
<1>a. CASE r.transport = "streaming" /\ browser # "standard"
  <2>1. q = frameStreaming(p)
    BY <1>1, <1>a, ExecuteCases
  <2> QED BY <2>1, <1>1, <1>a DEF Framed, frameStreaming, Sound, IsPage
<1>b. CASE ~(r.transport = "streaming" /\ browser # "standard") /\ ~WithinBudget(r)
  <2>1. q = Fail(counted, "budget")
    BY <1>1, <1>6, <1>b, ExecuteCases
  <2> QED BY <2>1, <1>1, <1>3, <1>7 DEF Stopped, Fail
<1>c. CASE ~(r.transport = "streaming" /\ browser # "standard") /\ WithinBudget(r)
  <2>1. q = PolledBy(p, counted, r, n)
    BY <1>1, <1>6, <1>c, ExecuteCases
  <2>2. PICK cs, a0, was, act, id : /\ cs = Open(p, "xhr", r) /\ a0 = p.am /\ was = counted.reqs
                                    /\ act = (IF r.suspend THEN n ELSE p.am.activeRequest)
                                    /\ id = (IF r.suspend THEN n ELSE r.id)
    OBVIOUS
  <2>3. /\ counted.am = a0 /\ was = [p.reqs EXCEPT ![i] = more] /\ was[i] = more /\ more.id = r.id
        /\ counted = [am |-> a0, reqs |-> was, conns |-> p.conns, failed |-> p.failed]
    BY <1>2, <1>4, <1>7, <2>2
  <2>4. PolledBy(p, counted, r, n) = Polls(counted, act, i, id, cs)
    BY <1>1, <2>2, <2>3 DEF PolledBy, Polls
  <2>5. PICK c0, f0 : c0 = p.conns /\ f0 = p.failed
    OBVIOUS
  <2>6. counted = [am |-> a0, reqs |-> was, conns |-> c0, failed |-> f0]
    BY <2>3, <2>5
  <2>7. Polls(counted, act, i, id, cs)
          = [am |-> PollsAm(a0, act), reqs |-> PollsReqs(was, i, id), conns |-> cs, failed |-> f0]
    BY <2>6, PageExcept
  <2>8. PICK polled : polled = Polling(r, n)
    OBVIOUS
  <2>9. [more EXCEPT !.id = id] = polled
    BY <1>4, <2>2, <2>8, <1>3 DEF Polling, Counting
  <2>10. PollsReqs(was, i, id) = [p.reqs EXCEPT ![i] = polled]
    <3>1. PollsReqs(was, i, id) = [was EXCEPT ![i] = polled]
      BY <2>3, <2>9 DEF PollsReqs
    <3>2. [[p.reqs EXCEPT ![i] = more] EXCEPT ![i] = polled] = [p.reqs EXCEPT ![i] = polled]
      OBVIOUS
    <3> QED BY <3>1, <3>2, <2>3
  <2>11. PollsAm(a0, act) = [p.am EXCEPT !.push = "publish", !.activeRequest = IF r.suspend THEN n ELSE @]
    BY <2>2 DEF PollsAm, Sound, IsPage, IsAm
  <2>12. q = [am |-> [p.am EXCEPT !.push = "publish", !.activeRequest = IF r.suspend THEN n ELSE @],
              reqs |-> [p.reqs EXCEPT ![i] = polled], conns |-> cs, failed |-> p.failed]
    BY <2>1, <2>4, <2>5, <2>7, <2>10, <2>11
  <2> QED BY <2>12, <2>8, <2>2, <1>1, <1>c DEF Polled
<1> QED BY <1>a, <1>b, <1>c

LEMMA ExecuteKeeps ==
  ASSUME NEW p, Sound(p), p.am.request \in DOMAIN p.reqs, NEW q, q = executeRequest(p)
  PROVE  Executed(p, q)
<1>1. PICK r, i, n : r = Current(p) /\ i = p.am.request /\ n = Len(p.conns) + 1
  OBVIOUS
<1>2. IsRequest(r) /\ r = p.reqs[i] /\ i \in DOMAIN p.reqs
  BY <1>1 DEF Sound, IsPage, Current
<1>a. CASE Framed(p, q)
  <2>1. PICK a, cs : a = [p.am EXCEPT !.push = "publish"] /\ cs = Open(p, "frame", Current(p))
    OBVIOUS
  <2>2. q = [am |-> a, reqs |-> p.reqs, conns |-> cs, failed |-> p.failed]
    BY <2>1, <1>a DEF Framed
  <2>3. /\ IsAm(a) /\ a.request = p.am.request /\ a.activeRequest = p.am.activeRequest
        /\ a.websocket = p.am.websocket /\ a.push = "publish" /\ a.socketRequest = p.am.socketRequest
        /\ a.subscribed = p.am.subscribed
    BY <2>1 DEF Sound, IsPage, IsAm
  <2>4. PICK rs : rs = p.reqs
    OBVIOUS
  <2>5. /\ IsSeq(rs) /\ DOMAIN rs = DOMAIN p.reqs
        /\ \A k \in DOMAIN rs : /\ IsRequest(rs[k]) /\ rs[k].suspend = p.reqs[k].suspend
                                /\ rs[k].id = p.reqs[k].id \/ (rs[k].id = Len(p.conns) + 1 /\ rs[k].suspend)
    BY <2>4 DEF Sound, IsPage
  <2>6. Gains(p, "frame", q)
    BY <2>1, <2>2, <2>3, <2>4, <2>5, ConnectionAdded
  <2> QED BY <2>2, <2>3, <2>6, <1>1, <1>2 DEF Executed, Gains, Keeps, Extends
<1>b. CASE Stopped(p, q)
  <2>1. PICK more, counted : more = Counting(r) /\ counted = [p EXCEPT !.reqs[i] = more]
    OBVIOUS
  <2>2. IsRequest(more) /\ more.suspend = r.suspend /\ more.id = r.id
    BY <2>1 DEF Counting, IsRequest
  <2>3. Sound(counted) /\ Keeps(p, counted) /\ counted.am = p.am
    BY <1>2, <2>1, <2>2, RequestChanges
  <2>4. q = Fail(counted, "budget")
    <3>1. counted = [am |-> p.am, reqs |-> [p.reqs EXCEPT ![i] = more], conns |-> p.conns, failed |-> p.failed]
      BY <2>1 DEF Sound, IsPage
    <3>2. Fail(counted, "budget")
            = [am |-> p.am, reqs |-> [p.reqs EXCEPT ![i] = more], conns |-> p.conns, failed |-> p.failed \cup {"budget"}]
      BY <3>1 DEF Fail
    <3> QED BY <3>2, <1>1, <1>b, <2>1 DEF Stopped
  <2>5. Sound(q) /\ q.failed # {} /\ Keeps(counted, q) /\ q.am = counted.am /\ q.reqs = counted.reqs
    BY <2>3, <2>4, FailKeeps
  <2>6. Keeps(p, q)
    BY <2>3, <2>5, KeepsFurther
  <2> QED BY <2>3, <2>5, <2>6, <1>1, <1>2 DEF Executed, Keeps, Extends
<1>c. CASE Polled(p, q)
  <2>1. PICK cs, a, polled, rs :
          /\ cs = Open(p, "xhr", Current(p)) /\ polled = Polling(r, n) /\ rs = [p.reqs EXCEPT ![i] = polled]
          /\ a = [p.am EXCEPT !.push = "publish", !.activeRequest = IF r.suspend THEN n ELSE @]
    OBVIOUS
  <2>2. IsRequest(polled) /\ polled.suspend = r.suspend /\ polled.id = IF r.suspend THEN n ELSE r.id
    BY <2>1 DEF Polling, IsRequest
  <2>3. q = [am |-> a, reqs |-> rs, conns |-> cs, failed |-> p.failed]
    BY <1>1, <1>c, <2>1 DEF Polled
  <2>4. /\ IsAm(a) /\ a.request = p.am.request /\ a.activeRequest \in {p.am.activeRequest, n}
        /\ a.websocket = p.am.websocket /\ a.push = "publish" /\ a.socketRequest = p.am.socketRequest
        /\ a.subscribed = p.am.subscribed
    BY <2>1 DEF Sound, IsPage, IsAm
  <2>5. /\ IsSeq(rs) /\ DOMAIN rs = DOMAIN p.reqs
        /\ \A k \in DOMAIN rs : /\ IsRequest(rs[k]) /\ rs[k].suspend = p.reqs[k].suspend
                                /\ rs[k].id = p.reqs[k].id \/ (rs[k].id = Len(p.conns) + 1 /\ rs[k].suspend)
    <3>1. IsSeq(rs) /\ DOMAIN rs = DOMAIN p.reqs /\ rs[i] = polled /\ \A k \in DOMAIN p.reqs : k # i => rs[k] = p.reqs[k]
      BY <1>2, <2>1, Replaced DEF Sound, IsPage
    <3> QED BY <1>1, <1>2, <2>2, <3>1 DEF Sound, IsPage
  <2>6. Gains(p, "xhr", q)
    <3>1. /\ a.activeRequest \in {p.am.activeRequest, Len(p.conns) + 1}
          /\ a.websocket \in {p.am.websocket, Len(p.conns) + 1}
          /\ a.push = "socket" => a.socketRequest \in DOMAIN p.reqs
      BY <2>4, <1>1
    <3>2. cs = Open(p, "xhr", Current(p)) /\ q = [am |-> a, reqs |-> rs, conns |-> cs, failed |-> p.failed]
      BY <2>1, <2>3
    <3>3. IsAm(a) /\ a.request = p.am.request /\ a.subscribed = p.am.subscribed
      BY <2>4
    <3> HIDE <2>1, <2>3
    <3> QED BY <3>1, <3>2, <3>3, <2>5, ConnectionAdded
  <2> QED BY <2>3, <2>4, <2>5, <2>6, <1>1, <1>2 DEF Executed, Gains
<1> QED BY <1>a, <1>b, <1>c, ExecuteIs

\* The library's idea of itself changes, and points to what is there.
AmChanged(p, a, q) ==
  /\ Sound(q) /\ Keeps(p, q)
  /\ q.am = a /\ q.reqs = p.reqs /\ q.conns = p.conns /\ q.failed = p.failed

LEMMA AmChanges ==
  ASSUME NEW p, Sound(p), NEW a, IsAm(a), a.request \in {0} \cup DOMAIN p.reqs,
         a.activeRequest \in {0} \cup DOMAIN p.conns, a.websocket \in {0} \cup DOMAIN p.conns,
         a.push = "socket" => a.socketRequest \in DOMAIN p.reqs, a.subscribed = p.am.subscribed,
         NEW q, q = [am |-> a, reqs |-> p.reqs, conns |-> p.conns, failed |-> p.failed]
  PROVE  AmChanged(p, a, q)
<1>1. q.am = a /\ q.reqs = p.reqs /\ q.conns = p.conns /\ q.failed = p.failed
  OBVIOUS
<1>2. Sound(q)
  BY <1>1 DEF Sound, IsPage, Wired
<1>3. Keeps(p, q)
  BY <1>1 DEF Keeps, Extends, Live
<1> QED BY <1>1, <1>2, <1>3 DEF AmChanged

LEMMA OverIsConnection ==
  ASSUME NEW c, IsConnection(c), NEW phase, NEW d, d = Over(c, phase)
  PROVE  IsConnection(d) /\ d.request = c.request /\ d.kind = c.kind /\ d.timer = c.timer /\ d.phase = phase
<1>1. d = [kind |-> c.kind, request |-> c.request, transport |-> c.transport, data |-> c.data,
           phase |-> phase, answer |-> "none", text |-> <<>>, read |-> 0,
           timer |-> c.timer, told |-> [m \in Msg |-> 0]]
  BY DEF Over, IsConnection
<1> QED BY <1>1 DEF IsConnection

\* A connection is over, or has lost its timer.
Dropped(p, x, q) ==
  /\ Sound(q) /\ Extends(p, q)
  /\ q.am = p.am /\ q.reqs = p.reqs /\ q.failed = p.failed
  /\ DOMAIN q.conns = DOMAIN p.conns /\ Len(q.conns) = Len(p.conns)
  /\ \A y \in DOMAIN p.conns : y # x => q.conns[y] = p.conns[y] /\ (Live(p, y) => Live(q, y))

LEMMA AbortDrops ==
  ASSUME NEW p, Sound(p), NEW x \in {0} \cup DOMAIN p.conns, NEW q, q = Abort(p, x)
  PROVE  Dropped(p, x, q)
<1>1. CASE q = p
  BY <1>1 DEF Dropped, Extends
<1>2. CASE q # p
  <2>1. x \in DOMAIN p.conns
    BY <1>2 DEF Abort
  <2>2. PICK c : c = Over(p.conns[x], "aborted")
    OBVIOUS
  <2>3. q = [p EXCEPT !.conns[x] = c]
    BY <1>2, <2>2 DEF Abort
  <2>4. IsConnection(c) /\ c.request = p.conns[x].request /\ c.kind = p.conns[x].kind /\ c.timer = p.conns[x].timer
    BY <2>1, <2>2, OverIsConnection DEF Sound, IsPage
  <2>5. /\ Sound(q) /\ Extends(p, q)
        /\ q.am = p.am /\ q.reqs = p.reqs /\ q.failed = p.failed
        /\ DOMAIN q.conns = DOMAIN p.conns /\ Len(q.conns) = Len(p.conns)
        /\ \A y \in DOMAIN p.conns : y # x => q.conns[y] = p.conns[y] /\ (Live(p, y) => Live(q, y))
    BY <2>1, <2>3, <2>4, ConnectionChanges
  <2> QED BY <2>5 DEF Dropped
<1> QED BY <1>1, <1>2

\* closeSuspendedConnection: of requests it changes nothing.
Closed(p, q) ==
  /\ Sound(q) /\ Extends(p, q) /\ q.reqs = p.reqs /\ q.failed = p.failed
  /\ q.am.request = p.am.request /\ DOMAIN q.conns = DOMAIN p.conns

LEMMA CloseCloses ==
  ASSUME NEW p, Sound(p), NEW q, q = closeSuspendedConnection(p)
  PROVE  Closed(p, q)
<1>1. PICK one, two : one = Abort(p, p.am.activeRequest) /\ two = Abort(one, p.am.websocket)
  OBVIOUS
<1>2. p.am.activeRequest \in {0} \cup DOMAIN p.conns /\ p.am.websocket \in {0} \cup DOMAIN p.conns
  BY DEF Sound, Wired
<1>3. Dropped(p, p.am.activeRequest, one)
  BY <1>1, <1>2, AbortDrops
<1>4. Dropped(one, p.am.websocket, two)
  BY <1>1, <1>2, <1>3, AbortDrops DEF Dropped
<1>5. PICK a : a = [two.am EXCEPT !.websocket = 0]
  OBVIOUS
<1>6. q = [am |-> a, reqs |-> two.reqs, conns |-> two.conns, failed |-> two.failed]
  BY <1>1, <1>4, <1>5 DEF closeSuspendedConnection, Dropped, Sound, IsPage
<1>7. /\ IsAm(a) /\ a.request = two.am.request /\ a.activeRequest = two.am.activeRequest /\ a.websocket = 0
      /\ a.push = two.am.push /\ a.socketRequest = two.am.socketRequest /\ a.subscribed = two.am.subscribed
  BY <1>4, <1>5 DEF Dropped, Sound, IsPage, IsAm
<1>8. Sound(two)
  BY <1>4 DEF Dropped
<1>9. AmChanged(two, a, q)
  BY <1>6, <1>7, <1>8, AmChanges DEF Sound, Wired
<1>10. Extends(p, q)
  <2>1. Extends(p, one) /\ Extends(one, two) /\ Extends(two, q)
    BY <1>3, <1>4, <1>9 DEF Dropped, AmChanged, Keeps
  <2> QED BY <2>1, ExtendsFurther
<1> QED BY <1>3, <1>4, <1>7, <1>9, <1>10 DEF Closed, AmChanged, Dropped

\* executeWebSocket.
LEMMA WebSocketOpens ==
  ASSUME NEW p, Sound(p), p.am.request \in DOMAIN p.reqs, NEW q, q = executeWebSocket(p)
  PROVE  Gains(p, "socket", q)
<1>1. PICK a, cs, rs :
        /\ cs = Open(p, "socket", Current(p)) /\ rs = p.reqs
        /\ a = [p.am EXCEPT !.push = "socket", !.socketRequest = p.am.request, !.websocket = Len(p.conns) + 1]
  OBVIOUS
<1>2. q = [am |-> a, reqs |-> rs, conns |-> cs, failed |-> p.failed]
  BY <1>1 DEF executeWebSocket, Sound, IsPage
<1>3. /\ IsAm(a) /\ a.request = p.am.request /\ a.activeRequest = p.am.activeRequest
      /\ a.websocket = Len(p.conns) + 1 /\ a.push = "socket" /\ a.socketRequest = p.am.request
      /\ a.subscribed = p.am.subscribed
  BY <1>1 DEF Sound, IsPage, IsAm
<1>4. /\ IsSeq(rs) /\ DOMAIN rs = DOMAIN p.reqs
      /\ \A k \in DOMAIN rs : /\ IsRequest(rs[k]) /\ rs[k].suspend = p.reqs[k].suspend
                              /\ rs[k].id = p.reqs[k].id \/ (rs[k].id = Len(p.conns) + 1 /\ rs[k].suspend)
  BY <1>1 DEF Sound, IsPage
<1>5. /\ a.activeRequest \in {p.am.activeRequest, Len(p.conns) + 1}
      /\ a.websocket \in {p.am.websocket, Len(p.conns) + 1}
      /\ a.push = "socket" => a.socketRequest \in DOMAIN p.reqs
  BY <1>3
<1>6. cs = Open(p, "socket", Current(p)) /\ IsAm(a) /\ a.request = p.am.request /\ a.subscribed = p.am.subscribed
  BY <1>1, <1>3
<1> HIDE <1>1, <1>3
<1> QED BY <1>2, <1>4, <1>5, <1>6, ConnectionAdded

\* subscribe: whatever it closes, it opens a connection that brings messages
\* or a poll whose timer does.
Opens(p, q) ==
  /\ Sound(q) /\ Extends(p, q)
  /\ q.failed = {} => \E n \in DOMAIN q.conns : Live(q, n)

LEMMA SubscribeOpens ==
  ASSUME NEW p, Sound(p), NEW r, IsRequest(r), r.id \in {0} \cup DOMAIN p.conns,
         p.failed = {} => r.suspend, NEW q, q = subscribe(p, r)
  PROVE  Opens(p, q)
<1>1. PICK new : new = NewRequest(p, r)
  OBVIOUS
<1>2. /\ Sound(new) /\ Keeps(p, new)
      /\ new.am.request \in DOMAIN new.reqs /\ Current(new) = r
      /\ new.conns = p.conns /\ new.failed = p.failed
  BY <1>1, NewRequestKeeps
<1>3. PICK one : one = IF r.transport # p.am.activeTransport THEN closeSuspendedConnection(new) ELSE new
  OBVIOUS
<1>4. Closed(new, one)
  <2>1. CASE r.transport # p.am.activeTransport
    BY <2>1, <1>2, <1>3, CloseCloses
  <2>2. CASE r.transport = p.am.activeTransport
    BY <2>2, <1>2, <1>3 DEF Closed, Extends
  <2> QED BY <2>1, <2>2
<1>5. PICK a, on : a = [one.am EXCEPT !.activeTransport = r.transport]
                   /\ on = [one EXCEPT !.am.activeTransport = r.transport]
  OBVIOUS
<1>6. on = [am |-> a, reqs |-> one.reqs, conns |-> one.conns, failed |-> one.failed]
  BY <1>4, <1>5 DEF Closed, Sound, IsPage
<1>7. /\ IsAm(a) /\ a.request = one.am.request /\ a.activeRequest = one.am.activeRequest
      /\ a.websocket = one.am.websocket /\ a.push = one.am.push /\ a.socketRequest = one.am.socketRequest
      /\ a.subscribed = one.am.subscribed
  BY <1>4, <1>5 DEF Closed, Sound, IsPage, IsAm
<1>8. AmChanged(one, a, on)
  <2>1. Sound(one)
    BY <1>4 DEF Closed
  <2> QED BY <2>1, <1>6, <1>7, AmChanges DEF Sound, Wired
<1>9. /\ Sound(on) /\ Extends(p, on) /\ on.am.request \in DOMAIN on.reqs /\ Current(on) = r /\ on.failed = p.failed
  <2>1. Extends(p, new) /\ Extends(new, one) /\ Extends(one, on)
    BY <1>2, <1>4, <1>8 DEF Keeps, Closed, AmChanged
  <2>2. Extends(p, on)
    BY <2>1, ExtendsFurther
  <2> QED BY <2>2, <1>2, <1>4, <1>7, <1>8 DEF Closed, AmChanged, Current
<1>10. \A from, to : /\ Sound(from) /\ Extends(p, from) /\ from.failed = p.failed
                     /\ from.am.request \in DOMAIN from.reqs /\ Current(from).suspend = r.suspend
                     /\ to = executeRequest(from)
                     => Opens(p, to)
  <2> TAKE from, to
  <2> HAVE /\ Sound(from) /\ Extends(p, from) /\ from.failed = p.failed
           /\ from.am.request \in DOMAIN from.reqs /\ Current(from).suspend = r.suspend
           /\ to = executeRequest(from)
  <2>1. Executed(from, to)
    BY ExecuteKeeps
  <2>2. Extends(p, to)
    BY <2>1, ExtendsFurther DEF Executed, Keeps
  <2> QED BY <2>1, <2>2 DEF Opens, Executed, Keeps, Extends
<1>a. CASE r.transport # "websocket"
  <2>1. q = executeRequest(on)
    BY <1>a, <1>1, <1>3, <1>5 DEF subscribe
  <2> QED BY <2>1, <1>9, <1>10
<1>b. CASE r.transport = "websocket" /\ WebSockets
  <2>1. q = executeWebSocket(on)
    BY <1>b, <1>1, <1>3, <1>5 DEF subscribe
  <2>2. Gains(on, "socket", q)
    BY <2>1, <1>9, WebSocketOpens
  <2>3. Extends(p, q)
    BY <2>2, <1>9, ExtendsFurther DEF Gains, Keeps
  <2> QED BY <2>2, <2>3 DEF Opens, Gains
<1>c. CASE r.transport = "websocket" /\ ~WebSockets
  <2>1. PICK back : back = [on EXCEPT !.reqs[on.am.request].transport = Fallback]
    OBVIOUS
  <2>2. q = executeRequest(back)
    BY <1>c, <1>1, <1>3, <1>5, <2>1 DEF subscribe
  <2>3. PICK i, e : i = on.am.request /\ e = [on.reqs[on.am.request] EXCEPT !.transport = Fallback]
    OBVIOUS
  <2>4. IsRequest(e) /\ e.suspend = on.reqs[i].suspend /\ e.id = on.reqs[i].id /\ i \in DOMAIN on.reqs
    BY <1>9, <2>3 DEF Sound, IsPage, IsRequest
  <2>5. back = [on EXCEPT !.reqs[i] = e]
    BY <2>1, <2>3
  <2>6. /\ Sound(back) /\ Keeps(on, back) /\ back.am = on.am /\ back.failed = on.failed
        /\ back.reqs[i] = e /\ DOMAIN back.reqs = DOMAIN on.reqs
    BY <1>9, <2>4, <2>5, RequestChanges
  <2>7. Extends(p, back)
    BY <1>9, <2>6, ExtendsFurther DEF Keeps
  <2>8. back.am.request \in DOMAIN back.reqs /\ Current(back).suspend = r.suspend
    BY <1>9, <2>3, <2>4, <2>6 DEF Current
  <2> QED BY <2>2, <2>6, <2>7, <2>8, <1>9, <1>10
<1> QED BY <1>a, <1>b, <1>c

\* publish closes nothing.
LEMMA PublishKeeps ==
  ASSUME NEW p, Sound(p), NEW r, IsRequest(r), r.id \in {0} \cup DOMAIN p.conns,
         p.failed = {} /\ r.id # 0 => r.suspend, NEW q, q = publish(p, r)
  PROVE  Sound(q) /\ Keeps(p, q) /\ q.am.websocket = p.am.websocket
<1>1. PICK e, new : e = [r EXCEPT !.transport = "polling"] /\ new = NewRequest(p, e)
  OBVIOUS
<1>2. IsRequest(e) /\ e.id = r.id /\ e.suspend = r.suspend
  BY <1>1 DEF IsRequest
<1>3. /\ Sound(new) /\ Keeps(p, new)
      /\ new.am.request \in DOMAIN new.reqs
  BY <1>1, <1>2, NewRequestKeeps
<1>4. q = executeRequest(new)
  BY <1>1 DEF publish
<1>5. Executed(new, q)
  BY <1>3, <1>4, ExecuteKeeps
<1>6. new.am.websocket = p.am.websocket
  BY <1>1 DEF NewRequest, Sound, IsPage, IsAm
<1> QED BY <1>3, <1>5, <1>6, KeepsFurther DEF Executed

LEMMA ClearDrops ==
  ASSUME NEW p, Sound(p), NEW x \in {0} \cup DOMAIN p.conns, NEW q, q = clearTimeout(p, x)
  PROVE  /\ Dropped(p, x, q)
         /\ x # 0 /\ p.conns[x].phase \in {"sent", "open"} /\ p.reqs[p.conns[x].request].suspend => Live(q, x)
<1>1. CASE x = 0
  BY <1>1 DEF clearTimeout, Dropped, Extends
<1>2. CASE x # 0
  <2>1. x \in DOMAIN p.conns
    BY <1>2
  <2>2. PICK c : c = [p.conns[x] EXCEPT !.timer = FALSE]
    OBVIOUS
  <2>3. q = [p EXCEPT !.conns[x] = c]
    BY <1>2, <2>2 DEF clearTimeout
  <2>4. /\ IsConnection(c) /\ c.request = p.conns[x].request /\ c.kind = p.conns[x].kind
        /\ ~c.timer /\ c.phase = p.conns[x].phase
    <3>1. PICK d : d = p.conns[x]
      OBVIOUS
    <3>2. IsConnection(d)
      BY <2>1, <3>1 DEF Sound, IsPage
    <3>3. c = [kind |-> d.kind, request |-> d.request, transport |-> d.transport, data |-> d.data,
               phase |-> d.phase, answer |-> d.answer, text |-> d.text, read |-> d.read,
               timer |-> FALSE, told |-> d.told]
      BY <2>2, <3>1, <3>2 DEF IsConnection
    <3> QED BY <3>1, <3>3 DEF IsConnection
  <2>5. /\ Sound(q) /\ Extends(p, q)
        /\ q.am = p.am /\ q.reqs = p.reqs /\ q.failed = p.failed /\ q.conns[x] = c
        /\ DOMAIN q.conns = DOMAIN p.conns /\ Len(q.conns) = Len(p.conns)
        /\ \A y \in DOMAIN p.conns : y # x => q.conns[y] = p.conns[y] /\ (Live(p, y) => Live(q, y))
    BY <2>1, <2>3, <2>4, ConnectionChanges
  <2>6. p.conns[x].phase \in {"sent", "open"} /\ p.reqs[p.conns[x].request].suspend => Live(q, x)
    BY <2>4, <2>5 DEF Live
  <2> QED BY <2>5, <2>6 DEF Dropped
<1> QED BY <1>1, <1>2

\* A connection is over.
LEMMA FinishDrops ==
  ASSUME NEW p, Sound(p), NEW x \in DOMAIN p.conns, NEW phase, NEW q, q = FinishConnection(p, x, phase)
  PROVE  Dropped(p, x, q) /\ q.conns[x].timer = p.conns[x].timer /\ q.conns[x].request = p.conns[x].request
<1>1. PICK c : c = Over(p.conns[x], phase)
  OBVIOUS
<1>2. q = [p EXCEPT !.conns[x] = c]
  BY <1>1 DEF FinishConnection
<1>3. IsConnection(c) /\ c.request = p.conns[x].request /\ c.kind = p.conns[x].kind /\ c.timer = p.conns[x].timer
  BY <1>1, OverIsConnection DEF Sound, IsPage
<1>4. /\ Sound(q) /\ Extends(p, q)
      /\ q.am = p.am /\ q.reqs = p.reqs /\ q.failed = p.failed /\ q.conns[x] = c
      /\ DOMAIN q.conns = DOMAIN p.conns /\ Len(q.conns) = Len(p.conns)
      /\ \A y \in DOMAIN p.conns : y # x => q.conns[y] = p.conns[y] /\ (Live(p, y) => Live(q, y))
  BY <1>2, <1>3, ConnectionChanges
<1> QED BY <1>3, <1>4 DEF Dropped

\* What is told changes nothing here.
LEMMA ToldKeeps ==
  ASSUME NEW p, Sound(p), NEW x \in DOMAIN p.conns, NEW body, NEW q, q = invokeCallback(p, x, body)
  PROVE  Sound(q) /\ Keeps(p, q)
<1>1. PICK d : d = p.conns[x]
  OBVIOUS
<1>2. IsConnection(d)
  BY <1>1 DEF Sound, IsPage
<1>3. PICK t : t = [m \in Msg |-> IF \E i \in DOMAIN body : body[i] = m
                                  THEN Count(d.told[m] + p.am.callbacks) ELSE d.told[m]]
  OBVIOUS
<1>4. PICK c : c = [d EXCEPT !.told = t]
  OBVIOUS
<1>5. q = [p EXCEPT !.conns[x] = c]
  <2>1. q = [p EXCEPT !.conns[x].told = t]
    BY <1>1, <1>3, Zenon DEF invokeCallback
  <2> QED BY <2>1, <1>1, <1>4
<1>6. c = [kind |-> d.kind, request |-> d.request, transport |-> d.transport, data |-> d.data,
           phase |-> d.phase, answer |-> d.answer, text |-> d.text, read |-> d.read,
           timer |-> d.timer, told |-> t]
  BY <1>2, <1>4 DEF IsConnection
<1>7. /\ IsConnection(c) /\ c.request = d.request /\ c.kind = d.kind /\ c.timer = d.timer /\ c.phase = d.phase
  BY <1>6 DEF IsConnection
<1>8. /\ Sound(q) /\ q.reqs = p.reqs /\ q.conns[x] = c
      /\ (Live(p, x) => Live(q, x)) => Keeps(p, q)
  BY <1>1, <1>5, <1>7, ConnectionChanges
<1> QED BY <1>1, <1>7, <1>8 DEF Live

LEMMA StreamedKeeps ==
  ASSUME NEW p, Sound(p), NEW x \in DOMAIN p.conns, NEW q, q = Streamed(p, x)
  PROVE  Sound(q) /\ Keeps(p, q) /\ q.conns = p.conns
<1>1. PICK i, d : i = p.conns[x].request /\ d = p.reqs[p.conns[x].request]
  OBVIOUS
<1>2. i \in DOMAIN p.reqs /\ IsRequest(d) /\ d = p.reqs[i]
  BY <1>1 DEF Sound, IsPage, Wired
<1>3. PICK e, read : read = p.conns[x].read /\ e = [d EXCEPT !.lastIndex = read]
  OBVIOUS
<1>4. IsRequest(e) /\ e.suspend = d.suspend /\ e.id = d.id
  BY <1>2, <1>3 DEF IsRequest
<1>5. q = [p EXCEPT !.reqs[i] = e]
  BY <1>1, <1>2, <1>3 DEF Streamed
<1> QED BY <1>2, <1>4, <1>5, RequestChanges

LEMMA UpdateKeeps ==
  ASSUME NEW p, Sound(p), NEW x \in DOMAIN p.conns, NEW q, q \in {p, Update(p, x), UpdateLate(p, x)}
  PROVE  Sound(q) /\ Keeps(p, q)
<1>1. PICK new : new = IF RequestOf(p, x).transport = "streaming" THEN Streamed(p, x) ELSE p
  OBVIOUS
<1>2. Sound(new) /\ Keeps(p, new) /\ new.conns = p.conns
  <2>1. Keeps(p, p)
    BY DEF Keeps, Extends
  <2> QED BY <2>1, <1>1, StreamedKeeps
<1>3. PICK body : body = Body(p, x)
  OBVIOUS
<1>4. PICK told : told = invokeCallback(new, x, body)
  OBVIOUS
<1>5. Sound(told) /\ Keeps(p, told)
  BY <1>2, <1>4, ToldKeeps, KeepsFurther
<1>6. Update(p, x) \in {new, told}
  BY <1>1, <1>3, <1>4 DEF Update
<1>7. Sound(Update(p, x)) /\ Keeps(p, Update(p, x))
  BY <1>2, <1>5, <1>6
<1>8. UpdateLate(p, x) \in {p, Update(p, x)}
  BY DEF UpdateLate
<1>9. Keeps(p, p)
  BY DEF Keeps, Extends
<1> QED BY <1>7, <1>8, <1>9

\* The connection goes on, and is what it was.
Alike(c, d) ==
  /\ IsConnection(c) /\ c.request = d.request /\ c.kind = d.kind /\ c.timer = d.timer
  /\ d.phase \in {"sent", "open"} => c.phase \in {"sent", "open"}

LEMMA GoesOn ==
  ASSUME NEW d, IsConnection(d), NEW u, NEW v, NEW c,
         c \in {d, [d EXCEPT !.read = u], [d EXCEPT !.answer = u], [d EXCEPT !.answer = u, !.text = v],
                [d EXCEPT !.phase = "open"], [d EXCEPT !.phase = "open", !.answer = v]}
  PROVE  Alike(c, d)
<1>1. \E p, a, t, r :
        /\ c = [kind |-> d.kind, request |-> d.request, transport |-> d.transport, data |-> d.data,
                phase |-> p, answer |-> a, text |-> t, read |-> r, timer |-> d.timer, told |-> d.told]
        /\ p \in {d.phase, "open"}
  <2>1. CASE c = d
    BY <2>1 DEF IsConnection
  <2>2. CASE c = [d EXCEPT !.read = u]
    BY <2>2 DEF IsConnection
  <2>3. CASE c = [d EXCEPT !.answer = u]
    BY <2>3 DEF IsConnection
  <2>4. CASE c = [d EXCEPT !.answer = u, !.text = v]
    BY <2>4 DEF IsConnection
  <2>5. CASE c = [d EXCEPT !.phase = "open"]
    BY <2>5 DEF IsConnection
  <2>6. CASE c = [d EXCEPT !.phase = "open", !.answer = v]
    BY <2>6 DEF IsConnection
  <2> QED BY <2>1, <2>2, <2>3, <2>4, <2>5, <2>6
<1> QED BY <1>1 DEF Alike, IsConnection

Touched(p, x, c, q) ==
  /\ Sound(q) /\ Keeps(p, q) /\ q.conns[x] = c
  /\ q.am = p.am /\ q.reqs = p.reqs /\ q.failed = p.failed /\ DOMAIN q.conns = DOMAIN p.conns

LEMMA AlikeKeeps ==
  ASSUME NEW p, Sound(p), NEW x \in DOMAIN p.conns, NEW c, Alike(c, p.conns[x]),
         NEW q, q = [p EXCEPT !.conns[x] = c]
  PROVE  Touched(p, x, c, q)
<1>1. /\ Sound(q) /\ Extends(p, q)
      /\ q.am = p.am /\ q.reqs = p.reqs /\ q.failed = p.failed /\ q.conns[x] = c
      /\ DOMAIN q.conns = DOMAIN p.conns
      /\ (Live(p, x) => Live(q, x)) => Keeps(p, q)
  BY ConnectionChanges DEF Alike
<1> QED BY <1>1 DEF Touched, Alike, Live

\* clearTimeout(request.id) in a handler: the request suspends, or has no poll,
\* and the connection that hears of it goes on.
LEMMA ClearKeepsLives ==
  ASSUME NEW p, Sound(p), Lives(p), NEW x \in DOMAIN p.conns, p.conns[x].phase \in {"sent", "open"},
         NEW q, q = clearTimeout(p, RequestOf(p, x).id)
  PROVE  Sound(q) /\ Lives(q)
<1>1. PICK i, id : i = p.conns[x].request /\ id = RequestOf(p, x).id
  OBVIOUS
<1>2. /\ i \in DOMAIN p.reqs /\ id = p.reqs[i].id /\ id \in {0} \cup DOMAIN p.conns
      /\ p.failed = {} /\ id # 0 => p.reqs[i].suspend
  BY <1>1 DEF RequestOf, Sound, Wired
<1>3. /\ Dropped(p, id, q)
      /\ id # 0 /\ p.conns[id].phase \in {"sent", "open"} /\ p.reqs[p.conns[id].request].suspend => Live(q, id)
  BY <1>1, <1>2, ClearDrops
<1>4. SUFFICES ASSUME q.am.subscribed > 0, q.failed = {}
               PROVE  \E y \in DOMAIN q.conns : Live(q, y)
  BY <1>3 DEF Dropped, Lives
<1>5. p.failed = {} /\ p.am.subscribed > 0 /\ DOMAIN q.conns = DOMAIN p.conns
  BY <1>3, <1>4 DEF Dropped
<1>6. PICK y \in DOMAIN p.conns : Live(p, y)
  BY <1>5 DEF Lives
<1>7. CASE y # id
  BY <1>3, <1>5, <1>6, <1>7 DEF Dropped
<1>8. CASE y = id
  <2>1. id # 0
    BY <1>6, <1>8, SequencesStartAtOne DEF Sound, IsPage
  <2>2. p.reqs[i].suspend
    BY <1>2, <1>5, <2>1
  <2>3. Live(p, x)
    BY <1>1, <2>2 DEF Live
  <2>4. Live(q, x)
    BY <1>1, <1>3, <2>1, <2>2, <2>3 DEF Dropped
  <2> QED BY <1>5, <2>4
<1> QED BY <1>7, <1>8

\* Reconnect: a request that suspends gets its next poll, or has failed.
Reconnected(p, x, q) ==
  /\ Sound(q) /\ Keeps(p, q)
  /\ q.failed = {} /\ p.reqs[p.conns[x].request].suspend => \E n \in DOMAIN q.conns : Live(q, n) /\ n # x

LEMMA ReconnectKeeps ==
  ASSUME NEW p, Sound(p), NEW x \in DOMAIN p.conns, NEW q, q = Reconnect(p, x)
  PROVE  Reconnected(p, x, q)
<1>1. PICK i, a, back : /\ i = p.conns[x].request /\ a = [p.am EXCEPT !.request = i]
                        /\ back = [p EXCEPT !.am.request = p.conns[x].request]
  OBVIOUS
<1>2. i \in DOMAIN p.reqs
  BY <1>1 DEF Sound, Wired
<1>3. back = [am |-> a, reqs |-> p.reqs, conns |-> p.conns, failed |-> p.failed]
  BY <1>1 DEF Sound, IsPage
<1>4. /\ IsAm(a) /\ a.request = i /\ a.activeRequest = p.am.activeRequest
      /\ a.websocket = p.am.websocket /\ a.push = p.am.push /\ a.socketRequest = p.am.socketRequest
      /\ a.subscribed = p.am.subscribed
  BY <1>1 DEF Sound, IsPage, IsAm
<1>5. AmChanged(p, a, back)
  BY <1>2, <1>3, <1>4, AmChanges DEF Sound, Wired
<1>6. Sound(back) /\ Keeps(p, back) /\ back.am.request \in DOMAIN back.reqs /\ Current(back) = p.reqs[i]
      /\ back.conns = p.conns
  BY <1>2, <1>4, <1>5 DEF AmChanged, Current
<1>a. CASE ~p.reqs[i].suspend
  <2>1. q = back
    BY <1>a, <1>1 DEF Reconnect, RequestOf
  <2> QED BY <2>1, <1>1, <1>6, <1>a DEF Reconnected
<1>b. CASE p.reqs[i].suspend /\ p.conns[x].answer = "ok"
  <2>1. q = executeRequest(back)
    BY <1>b, <1>1 DEF Reconnect, RequestOf
  <2>2. Executed(back, q)
    BY <2>1, <1>6, ExecuteKeeps
  <2>3. Keeps(p, q)
    BY <2>2, <1>6, KeepsFurther DEF Executed
  <2> QED BY <2>2, <2>3, <1>6, <1>b DEF Reconnected, Executed
<1>c. CASE p.reqs[i].suspend /\ p.conns[x].answer # "ok"
  <2>1. q = Fail(back, "refused")
    BY <1>c, <1>1 DEF Reconnect, RequestOf
  <2>2. Sound(q) /\ q.failed # {} /\ Keeps(back, q)
    BY <2>1, <1>6, FailKeeps
  <2>3. Keeps(p, q)
    BY <2>2, <1>6, KeepsFurther
  <2> QED BY <2>2, <2>3 DEF Reconnected
<1> QED BY <1>a, <1>b, <1>c

(* The steps. *)

LEMMA NextPage ==
  ASSUME NEW p, Sound(p), Lives(p), Page' = p
  PROVE  ClientInv'
<1>1. Sound(Page)'
  BY DEF Sound, IsPage, IsAm, IsRequest, IsConnection, IsSeq, Wired
<1>2. Lives(Page)'
  BY DEF Lives, Live
<1> QED BY <1>1, <1>2 DEF ClientInv

LEMMA BecomesIt ==
  ASSUME NEW p, Sound(p), Lives(p), Becomes(p)
  PROVE  ClientInv'
<1>1. Page' = p
  BY DEF Becomes, Page, Sound, IsPage
<1> QED BY <1>1, NextPage

LEMMA SubscribeStep ==
  ASSUME ClientInv, NEW t, Subscribe(t)
  PROVE  ClientInv'
<1>1. PICK p, on, r, s : p = Page /\ on = addCallback(p) /\ r = FreshRequest(t, TRUE, Absent) /\ s = subscribe(on, r)
  OBVIOUS
<1>2. Sound(p)
  BY <1>1 DEF ClientInv
<1>3. Sound(on) /\ on.conns = p.conns
  <2>1. CASE on = p
    BY <1>2, <2>1
  <2>2. CASE on # p
    <3>1. PICK a : a = [p.am EXCEPT !.callbacks = 1]
      OBVIOUS
    <3>2. on = [p EXCEPT !.am.callbacks = 1]
      BY <2>2, <1>1 DEF addCallback
    <3>3. on = [am |-> a, reqs |-> p.reqs, conns |-> p.conns, failed |-> p.failed]
      BY <1>2, <3>1, <3>2 DEF Sound, IsPage
    <3>4. /\ IsAm(a) /\ a.request = p.am.request /\ a.activeRequest = p.am.activeRequest
          /\ a.websocket = p.am.websocket /\ a.push = p.am.push /\ a.socketRequest = p.am.socketRequest
          /\ a.subscribed = p.am.subscribed
      BY <1>2, <3>1 DEF Sound, IsPage, IsAm
    <3>5. AmChanged(p, a, on)
      BY <1>2, <3>3, <3>4, AmChanges DEF Sound, Wired
    <3> QED BY <3>5 DEF AmChanged
  <2> QED BY <2>1, <2>2
<1>4. IsRequest(r) /\ r.id = 0 /\ r.suspend
  BY <1>1 DEF FreshRequest, IsRequest
<1>5. Opens(on, s)
  BY <1>1, <1>3, <1>4, SubscribeOpens
<1>6. PICK a, q : a = [s.am EXCEPT !.subscribed = @ + 1] /\ q = [s EXCEPT !.am.subscribed = @ + 1]
  OBVIOUS
<1>7. q = [am |-> a, reqs |-> s.reqs, conns |-> s.conns, failed |-> s.failed]
  BY <1>5, <1>6 DEF Opens, Sound, IsPage
<1>8. q.am = a /\ q.reqs = s.reqs /\ q.conns = s.conns /\ q.failed = s.failed
  BY <1>7
<1>9. /\ IsAm(a) /\ a.request = s.am.request /\ a.activeRequest = s.am.activeRequest
      /\ a.websocket = s.am.websocket /\ a.push = s.am.push /\ a.socketRequest = s.am.socketRequest
  BY <1>5, <1>6 DEF Opens, Sound, IsPage, IsAm
<1>10. IsPage(q)
  BY <1>5, <1>7, <1>8, <1>9 DEF Opens, Sound, IsPage
<1>11. Wired(q)
  BY <1>5, <1>8, <1>9 DEF Opens, Sound, Wired
<1>12. Lives(q)
  BY <1>5, <1>8 DEF Opens, Lives, Live
<1>13. Becomes(q)
  BY <1>1, <1>6 DEF Subscribe
<1> QED BY <1>10, <1>11, <1>12, <1>13, BecomesIt DEF Sound

LEMMA PublishStep ==
  ASSUME ClientInv, NEW m, Publish(m)
  PROVE  ClientInv'
<1>1. PICK p, r, q : p = Page /\ r = FreshRequest("polling", FALSE, m) /\ q = publish(p, r)
  OBVIOUS
<1>2. Sound(p) /\ Lives(p)
  BY <1>1 DEF ClientInv
<1>3. IsRequest(r) /\ r.id = 0
  BY <1>1 DEF FreshRequest, IsRequest
<1>4. Sound(q) /\ Keeps(p, q)
  BY <1>1, <1>2, <1>3, PublishKeeps
<1>5. Becomes(q)
  BY <1>1 DEF Publish
<1> QED BY <1>2, <1>4, <1>5, KeepsLives, BecomesIt

LEMMA PushSocketStep ==
  ASSUME ClientInv, NEW m, PushSocket(m)
  PROVE  ClientInv'
<1>1. PICK p, r, q : p = Page /\ r = FreshRequest("polling", FALSE, m) /\ q = NewRequest(p, r)
  OBVIOUS
<1>2. Sound(p) /\ Lives(p)
  BY <1>1 DEF ClientInv
<1>3. IsRequest(r) /\ r.id = 0
  BY <1>1 DEF FreshRequest, IsRequest
<1>4. Sound(q) /\ Keeps(p, q)
  BY <1>1, <1>2, <1>3, NewRequestKeeps
<1>5. Becomes(q)
  BY <1>1 DEF PushSocket
<1> QED BY <1>2, <1>4, <1>5, KeepsLives, BecomesIt

\* After a failure a request may change as it likes.
LEMMA LostRequestChanges ==
  ASSUME NEW p, Sound(p), p.failed # {}, NEW i \in DOMAIN p.reqs, NEW r, IsRequest(r), r.id = p.reqs[i].id,
         NEW q, q = [p EXCEPT !.reqs[i] = r]
  PROVE  Sound(q) /\ q.am = p.am /\ q.failed = p.failed /\ DOMAIN q.reqs = DOMAIN p.reqs /\ q.conns = p.conns
<1>1. PICK rs : rs = [p.reqs EXCEPT ![i] = r]
  OBVIOUS
<1>2. /\ IsSeq(rs) /\ DOMAIN rs = DOMAIN p.reqs
      /\ rs[i] = r /\ \A k \in DOMAIN p.reqs : k # i => rs[k] = p.reqs[k]
  BY <1>1, Replaced DEF Sound, IsPage
<1>3. q = [am |-> p.am, reqs |-> rs, conns |-> p.conns, failed |-> p.failed]
  BY <1>1 DEF Sound, IsPage
<1>4. q.am = p.am /\ q.reqs = rs /\ q.conns = p.conns /\ q.failed = p.failed
  BY <1>3
<1>5. IsPage(q)
  BY <1>2, <1>3, <1>4 DEF Sound, IsPage
<1>6. \A k \in DOMAIN rs : rs[k].id = p.reqs[k].id
  BY <1>2
<1>7. Wired(q)
  BY <1>2, <1>4, <1>6 DEF Sound, Wired
<1> QED BY <1>2, <1>4, <1>5, <1>7 DEF Sound

LEMMA DowngradeFails ==
  ASSUME NEW p, Sound(p), p.am.push = "socket", NEW m, NEW q, q = Downgrade(p, m)
  PROVE  Sound(q) /\ q.failed # {}
<1>1. PICK i, lost, a, e, back, next :
        /\ i = p.am.socketRequest /\ lost = Fail(p, "downgrade")
        /\ a = [lost.am EXCEPT !.request = i] /\ e = [lost.reqs[i] EXCEPT !.transport = Fallback]
        /\ back = [lost EXCEPT !.am = a]
        /\ next = [lost EXCEPT !.am.request = i, !.reqs[i].transport = Fallback]
  OBVIOUS
<1>2. /\ Sound(lost) /\ lost.failed # {} /\ lost.am = p.am /\ lost.reqs = p.reqs /\ lost.conns = p.conns
      /\ i \in DOMAIN lost.reqs
  <2>1. Sound(lost) /\ lost.failed # {} /\ lost.am = p.am /\ lost.reqs = p.reqs /\ lost.conns = p.conns
    BY <1>1, FailKeeps
  <2>2. i \in DOMAIN p.reqs
    BY <1>1 DEF Sound, Wired
  <2> QED BY <2>1, <2>2
<1>3. back = [am |-> a, reqs |-> lost.reqs, conns |-> lost.conns, failed |-> lost.failed]
  BY <1>1, <1>2 DEF Sound, IsPage
<1>4. /\ IsAm(a) /\ a.request = i /\ a.activeRequest = lost.am.activeRequest
      /\ a.websocket = lost.am.websocket /\ a.push = lost.am.push /\ a.socketRequest = lost.am.socketRequest
      /\ a.subscribed = lost.am.subscribed
  BY <1>1, <1>2 DEF Sound, IsPage, IsAm
<1>5. AmChanged(lost, a, back)
  BY <1>2, <1>3, <1>4, AmChanges DEF Sound, Wired
<1>6. IsRequest(e) /\ e.id = lost.reqs[i].id
  BY <1>1, <1>2 DEF Sound, IsPage, IsRequest
<1>7. next = [back EXCEPT !.reqs[i] = e]
  BY <1>1, <1>2, <1>3 DEF Sound, IsPage
<1>8. Sound(next) /\ next.failed # {} /\ next.am = a /\ DOMAIN next.reqs = DOMAIN lost.reqs /\ next.conns = lost.conns
  BY <1>2, <1>5, <1>6, <1>7, LostRequestChanges DEF AmChanged
<1>9. PICK down : down = executeRequest(next)
  OBVIOUS
<1>10. /\ Sound(down) /\ down.failed # {} /\ down.am.request = i /\ i \in DOMAIN down.reqs
       /\ DOMAIN next.conns \subseteq DOMAIN down.conns
  <2>1. Executed(next, down)
    BY <1>2, <1>4, <1>8, <1>9, ExecuteKeeps
  <2> QED BY <2>1, <1>4, <1>8 DEF Executed, Keeps, Extends
<1>11. PICK f, post : /\ f = [down.reqs[i] EXCEPT !.suspend = FALSE, !.data = m]
                      /\ post = [down EXCEPT !.reqs[i].suspend = FALSE, !.reqs[i].data = m]
  OBVIOUS
<1>12. IsRequest(f) /\ f.id = down.reqs[i].id
  <2>1. PICK d : d = down.reqs[i]
    OBVIOUS
  <2>2. IsRequest(d)
    BY <2>1, <1>10 DEF Sound, IsPage
  <2>3. f = [transport |-> d.transport, suspend |-> FALSE, requestCount |-> d.requestCount,
             lastIndex |-> d.lastIndex, id |-> d.id, data |-> m]
    BY <2>1, <2>2, <1>11 DEF IsRequest
  <2> QED BY <2>1, <2>3 DEF IsRequest
<1>13. post = [down EXCEPT !.reqs[i] = f]
  BY <1>10, <1>11 DEF Sound, IsPage
<1>14. Sound(post) /\ post.failed # {} /\ post.am = down.am /\ i \in DOMAIN post.reqs /\ post.conns = down.conns
  BY <1>10, <1>12, <1>13, LostRequestChanges
<1>15. PICK r, sent : r = Current(post) /\ sent = publish(post, r)
  OBVIOUS
<1>16. IsRequest(r) /\ r.id \in {0} \cup DOMAIN post.conns
  BY <1>10, <1>14, <1>15 DEF Current, Sound, IsPage, Wired
<1>17. Sound(sent) /\ Keeps(post, sent)
  BY <1>14, <1>15, <1>16, PublishKeeps
<1>18. sent.failed # {} /\ p.am.websocket \in {0} \cup DOMAIN sent.conns
  BY <1>2, <1>8, <1>10, <1>14, <1>17 DEF Keeps, Extends, Sound, Wired
<1>19. q = Abort(sent, p.am.websocket)
  BY <1>1, <1>9, <1>11, <1>15 DEF Downgrade
<1>20. Dropped(sent, p.am.websocket, q)
  BY <1>17, <1>18, <1>19, AbortDrops
<1> QED BY <1>18, <1>20 DEF Dropped

LEMMA PushSocketThrowsStep ==
  ASSUME ClientInv, NEW m, PushSocketThrows(m)
  PROVE  ClientInv'
<1>1. PICK p, q : p = Page /\ q = Downgrade(p, m)
  OBVIOUS
<1>2. Sound(p) /\ p.am.push = "socket"
  BY <1>1 DEF ClientInv, PushSocketThrows, Page
<1>3. Sound(q) /\ q.failed # {}
  BY <1>1, <1>2, DowngradeFails
<1>4. Becomes(q)
  BY <1>1 DEF PushSocketThrows
<1> QED BY <1>3, <1>4, BecomesIt DEF Lives

\* Steps of the endpoint and the network change a connection only in what is
\* of no account here.
LEMMA ConnectionStep ==
  ASSUME ClientInv, NEW x \in DOMAIN conns, NEW c, Alike(c, conns[x]),
         conns' = [conns EXCEPT ![x] = c], UNCHANGED <<am, reqs, failed>>
  PROVE  ClientInv'
<1>1. PICK p, q : p = Page /\ q = [p EXCEPT !.conns[x] = c]
  OBVIOUS
<1>2. Sound(p) /\ Lives(p) /\ p.conns = conns
  BY <1>1 DEF ClientInv, Page
<1>3. Touched(p, x, c, q)
  BY <1>1, <1>2, AlikeKeeps
<1>4. Page' = q
  BY <1>1 DEF Page
<1> QED BY <1>2, <1>3, <1>4, KeepsLives, NextPage DEF Touched

LEMMA ServeStep ==
  ASSUME ClientInv, NEW x \in DOMAIN conns, Suspend(x) \/ TakePost(x) \/ EndPoll(x) \/ Refuse(x) \/ OnOpen(x)
  PROVE  ClientInv'
<1>1. PICK d : d = conns[x]
  OBVIOUS
<1>2. IsConnection(d)
  BY <1>1 DEF ClientInv, Sound, IsPage, Page
<1>3. \E c : Alike(c, d) /\ conns' = [conns EXCEPT ![x] = c]
  <2>1. CASE Suspend(x)
    <3>1. PICK v : v = IF d.kind = "xhr" /\ d.transport = "streaming" THEN <<Junk>> ELSE <<>>
      OBVIOUS
    <3>2. PICK c : c = [d EXCEPT !.answer = "suspended", !.text = v]
      OBVIOUS
    <3>3. conns' = [conns EXCEPT ![x] = c]
      <4>1. conns' = [conns EXCEPT ![x].answer = "suspended", ![x].text = v]
        BY <2>1, <1>1, <3>1 DEF Suspend
      <4> QED BY <4>1, <1>1, <3>2
    <3> QED BY <1>2, <3>2, <3>3, GoesOn
  <2>2. CASE TakePost(x) \/ EndPoll(x) \/ Refuse(x)
    <3>1. \E u : conns' = [conns EXCEPT ![x].answer = u]
      BY <2>2 DEF TakePost, EndPoll, Refuse
    <3>2. PICK u : conns' = [conns EXCEPT ![x].answer = u]
      BY <3>1
    <3>3. PICK c : c = [d EXCEPT !.answer = u]
      OBVIOUS
    <3>4. conns' = [conns EXCEPT ![x] = c]
      BY <1>1, <3>2, <3>3
    <3> QED BY <1>2, <3>3, <3>4, GoesOn
  <2>3. CASE OnOpen(x)
    <3>1. PICK c : c = [d EXCEPT !.phase = "open", !.answer = "suspended"]
      OBVIOUS
    <3>2. conns' = [conns EXCEPT ![x] = c]
      BY <1>1, <2>3, <3>1 DEF OnOpen
    <3> QED BY <1>2, <3>1, <3>2, GoesOn
  <2> QED BY <2>1, <2>2, <2>3
<1>4. UNCHANGED <<am, reqs, failed>>
  BY DEF Suspend, TakePost, EndPoll, Refuse, OnOpen
<1> QED BY <1>1, <1>3, <1>4, ConnectionStep

LEMMA BroadcastStep ==
  ASSUME ClientInv, NEW batch, Broadcast(batch)
  PROVE  ClientInv'
<1>1. PICK p, cs : p = Page /\ cs = conns'
  OBVIOUS
<1>2. Sound(p) /\ Lives(p) /\ p.conns = conns /\ p.am = am /\ p.reqs = reqs /\ p.failed = failed
  BY <1>1 DEF ClientInv, Page
<1>3. DOMAIN cs = DOMAIN p.conns /\ cs = [x \in DOMAIN p.conns |-> cs[x]]
  BY <1>1, <1>2 DEF Broadcast
<1>4. \A x \in DOMAIN p.conns : Alike(cs[x], p.conns[x])
  <2> TAKE x \in DOMAIN p.conns
  <2>1. PICK d : d = p.conns[x]
    OBVIOUS
  <2>2. IsConnection(d)
    BY <1>2, <2>1 DEF Sound, IsPage
  <2>3. PICK more, u, v : /\ more = SubSeq(log', Len(log) + 1, Len(log'))
                          /\ u = d.text \o more
                          /\ v = IF d.transport = "long-polling" THEN "ok" ELSE d.answer
    OBVIOUS
  <2>4. cs[x] = IF d.answer # "suspended" THEN d
                ELSE [d EXCEPT !.text = @ \o SubSeq(log', Len(log) + 1, Len(log')),
                               !.answer = IF d.transport = "long-polling" THEN "ok" ELSE @]
    BY <1>1, <1>2, <2>1 DEF Broadcast
  <2>5. cs[x] \in {d, [d EXCEPT !.text = u, !.answer = v]}
    BY <2>3, <2>4
  <2>6. PICK c : c = cs[x]
    OBVIOUS
  <2>7. c \in {d, [d EXCEPT !.text = u, !.answer = v]}
    BY <2>5, <2>6
  <2>8. c = d => Alike(c, d)
    BY <2>2 DEF Alike
  <2>9. ASSUME c = [d EXCEPT !.text = u, !.answer = v]
        PROVE  Alike(c, d)
    <3>1. c = [kind |-> d.kind, request |-> d.request, transport |-> d.transport, data |-> d.data,
               phase |-> d.phase, answer |-> v, text |-> u, read |-> d.read,
               timer |-> d.timer, told |-> d.told]
      BY <2>2, <2>9 DEF IsConnection
    <3> QED BY <3>1 DEF Alike, IsConnection
  <2> QED BY <2>1, <2>6, <2>7, <2>8, <2>9
<1>5. IsSeq(cs)
  BY <1>2, <1>3, Redefined DEF Sound, IsPage
<1>6. PICK q : q = [am |-> p.am, reqs |-> p.reqs, conns |-> cs, failed |-> p.failed]
  OBVIOUS
<1>7. q.am = p.am /\ q.reqs = p.reqs /\ q.conns = cs /\ q.failed = p.failed
  BY <1>6
<1>8. IsPage(q)
  BY <1>2, <1>3, <1>4, <1>5, <1>6, <1>7 DEF Sound, IsPage, Alike
<1>9. Wired(q)
  BY <1>2, <1>3, <1>4, <1>7 DEF Sound, Wired, Alike
<1>10. Lives(q)
  BY <1>2, <1>3, <1>4, <1>7 DEF Lives, Live, Alike
<1>11. Page' = q
  BY <1>1, <1>2, <1>6 DEF Page, Broadcast
<1> QED BY <1>8, <1>9, <1>10, <1>11, NextPage DEF Sound

LEMMA OnHeadersStep ==
  ASSUME ClientInv, NEW x \in DOMAIN conns, OnHeaders(x)
  PROVE  ClientInv'
<1>1. PICK now, d, c, p : /\ now = Page /\ d = now.conns[x] /\ c = [d EXCEPT !.phase = "open"]
                          /\ p = [now EXCEPT !.conns[x].phase = "open"]
  OBVIOUS
<1>2. Sound(now) /\ Lives(now) /\ now.conns = conns
  BY <1>1 DEF ClientInv, Page
<1>3. IsConnection(d)
  BY <1>1, <1>2 DEF Sound, IsPage
<1>4. p = [now EXCEPT !.conns[x] = c]
  BY <1>1
<1>5. Touched(now, x, c, p)
  BY <1>1, <1>2, <1>3, <1>4, GoesOn, AlikeKeeps
<1>6. Sound(p) /\ Lives(p) /\ x \in DOMAIN p.conns /\ p.conns[x].phase \in {"sent", "open"}
  <2>1. c.phase = "open"
    BY <1>1, <1>3 DEF IsConnection
  <2> QED BY <1>2, <1>5, <2>1, KeepsLives DEF Touched
<1>7. PICK q : q = clearTimeout(p, RequestOf(p, x).id)
  OBVIOUS
<1>8. Sound(q) /\ Lives(q)
  BY <1>6, <1>7, ClearKeepsLives
<1>9. Becomes(p) \/ Becomes(q)
  BY <1>1, <1>7 DEF OnHeaders
<1> QED BY <1>6, <1>8, <1>9, BecomesIt

LEMMA OnTextStep ==
  ASSUME ClientInv, NEW x \in DOMAIN conns, OnText(x)
  PROVE  ClientInv'
<1>0. PICK now : now = Page
  OBVIOUS
<1>1. PICK n : LET p == [now EXCEPT !.conns[x].read = n] IN
               Becomes(IF ~Handled(p) THEN p
                       ELSE IF browser = "ie" THEN clearTimeout(p, RequestOf(p, x).id)
                       ELSE Update(p, x))
  BY <1>0 DEF OnText
<1>2. PICK d, c, p : d = now.conns[x] /\ c = [d EXCEPT !.read = n] /\ p = [now EXCEPT !.conns[x].read = n]
  OBVIOUS
<1>3. Sound(now) /\ Lives(now) /\ now.conns = conns
  BY <1>0 DEF ClientInv, Page
<1>4. IsConnection(d)
  BY <1>2, <1>3 DEF Sound, IsPage
<1>5. p = [now EXCEPT !.conns[x] = c]
  BY <1>2
<1>6. Touched(now, x, c, p)
  BY <1>2, <1>3, <1>4, <1>5, GoesOn, AlikeKeeps
<1>7. Sound(p) /\ Lives(p) /\ x \in DOMAIN p.conns /\ p.conns[x].phase \in {"sent", "open"}
  <2>1. c.phase = d.phase /\ d.phase = "open"
    BY <1>2, <1>3, <1>4 DEF IsConnection, OnText
  <2> QED BY <1>3, <1>6, <2>1, KeepsLives DEF Touched
<1>8. PICK q, r : q = clearTimeout(p, RequestOf(p, x).id) /\ r = Update(p, x)
  OBVIOUS
<1>9. Sound(q) /\ Lives(q)
  BY <1>7, <1>8, ClearKeepsLives
<1>10. Sound(r) /\ Lives(r)
  BY <1>7, <1>8, UpdateKeeps, KeepsLives
<1>11. Becomes(p) \/ Becomes(q) \/ Becomes(r)
  BY <1>1, <1>2, <1>8
<1> QED BY <1>7, <1>9, <1>10, <1>11, BecomesIt

LEMMA OnMessageStep ==
  ASSUME ClientInv, NEW x \in DOMAIN conns, OnMessage(x)
  PROVE  ClientInv'
<1>1. PICK now, d, n, c, p : /\ now = Page /\ d = now.conns[x] /\ n = d.read + 1 /\ c = [d EXCEPT !.read = n]
                             /\ p = [now EXCEPT !.conns[x].read = @ + 1]
  OBVIOUS
<1>2. Sound(now) /\ Lives(now) /\ now.conns = conns
  BY <1>1 DEF ClientInv, Page
<1>3. IsConnection(d)
  BY <1>1, <1>2 DEF Sound, IsPage
<1>4. p = [now EXCEPT !.conns[x] = c]
  BY <1>1
<1>5. Touched(now, x, c, p)
  BY <1>1, <1>2, <1>3, <1>4, GoesOn, AlikeKeeps
<1>6. Sound(p) /\ Lives(p) /\ x \in DOMAIN p.conns
  BY <1>2, <1>5, KeepsLives DEF Touched
<1>7. PICK body, q : body = <<conns[x].text[p.conns[x].read]>> /\ q = invokeCallback(p, x, body)
  OBVIOUS
<1>8. Sound(q) /\ Keeps(p, q)
  BY <1>6, <1>7, ToldKeeps
<1>9. Becomes(q)
  BY <1>1, <1>7 DEF OnMessage
<1> QED BY <1>6, <1>8, <1>9, KeepsLives, BecomesIt

LEMMA OnCloseStep ==
  ASSUME ClientInv, NEW x \in DOMAIN conns, OnClose(x)
  PROVE  ClientInv'
<1>1. PICK now, p, q : now = Page /\ p = FinishConnection(now, x, "done") /\ q = Fail(p, "socket")
  OBVIOUS
<1>2. Sound(now) /\ now.conns = conns
  BY <1>1 DEF ClientInv, Page
<1>3. Sound(p)
  BY <1>1, <1>2, FinishDrops DEF Dropped
<1>4. Sound(q) /\ Lives(q)
  BY <1>1, <1>3, FailKeeps
<1>5. Becomes(q)
  BY <1>1 DEF OnClose
<1> QED BY <1>4, <1>5, BecomesIt

LEMMA OnDoneStep ==
  ASSUME ClientInv, NEW x \in DOMAIN conns, OnDone(x)
  PROVE  ClientInv'
<1>1. PICK now, next, late, q :
        /\ now = Page /\ next = Reconnect(now, x) /\ late = UpdateLate(next, x)
        /\ q = FinishConnection(IF Handled(now) THEN late ELSE now, x, "done")
  OBVIOUS
<1>2. Sound(now) /\ Lives(now) /\ now.conns = conns /\ now.reqs = reqs
  BY <1>1 DEF ClientInv, Page
<1>3. Becomes(q)
  BY <1>1 DEF OnDone
<1>a. CASE ~Handled(now)
  <2>1. q = FinishConnection(now, x, "done")
    BY <1>1, <1>a
  <2>2. Dropped(now, x, q)
    BY <2>1, <1>2, FinishDrops
  <2>3. Lives(q)
    BY <2>2, <1>a DEF Handled, Dropped, Lives
  <2> QED BY <2>2, <2>3, <1>3, BecomesIt DEF Dropped
<1>b. CASE Handled(now)
  <2>1. q = FinishConnection(late, x, "done")
    BY <1>1, <1>b
  <2>2. Reconnected(now, x, next)
    BY <1>1, <1>2, ReconnectKeeps
  <2>3. Sound(next) /\ Keeps(now, next) /\ x \in DOMAIN next.conns
    BY <2>2, <1>2 DEF Reconnected, Keeps, Extends
  <2>4. Sound(late) /\ Keeps(next, late)
    BY <1>1, <2>3, UpdateKeeps
  <2>5. x \in DOMAIN late.conns
    BY <2>3, <2>4 DEF Keeps, Extends
  <2>6. Dropped(late, x, q)
    BY <2>1, <2>4, <2>5, FinishDrops
  <2>7. SUFFICES ASSUME q.am.subscribed > 0, q.failed = {}
                 PROVE  \E y \in DOMAIN q.conns : Live(q, y)
    BY <2>6, <1>3, BecomesIt DEF Dropped, Lives
  <2>8. late.failed = {} /\ next.failed = {} /\ now.failed = {} /\ now.am.subscribed > 0
    BY <1>b, <2>3, <2>4, <2>6, <2>7 DEF Dropped, Keeps, Extends, Handled
  <2>9. \E y \in DOMAIN next.conns : Live(next, y) /\ y # x
    <3>1. CASE now.reqs[now.conns[x].request].suspend
      BY <3>1, <2>2, <2>8 DEF Reconnected
    <3>2. CASE ~now.reqs[now.conns[x].request].suspend
      <4>1. PICK y \in DOMAIN now.conns : Live(now, y)
        BY <1>2, <2>8 DEF Lives
      <4>2. ~Live(now, x)
        BY <1>2, <2>8, <3>2 DEF Live, Sound, Wired, OnDone
      <4> QED BY <2>3, <2>8, <4>1, <4>2 DEF Keeps, Extends
    <3> QED BY <3>1, <3>2
  <2>10. PICK y \in DOMAIN next.conns : Live(next, y) /\ y # x
    BY <2>9
  <2>11. y \in DOMAIN late.conns /\ Live(late, y)
    BY <2>4, <2>8, <2>10 DEF Keeps, Extends
  <2> QED BY <2>6, <2>10, <2>11 DEF Dropped
<1> QED BY <1>a, <1>b

LEMMA OnErrorStep ==
  ASSUME ClientInv, NEW x \in DOMAIN conns, OnError(x)
  PROVE  ClientInv'
<1>1. PICK now, p, act, back, lost :
        /\ now = Page /\ p = FinishConnection(now, x, "aborted")
        /\ act = (IF browser = "ie" THEN p.am.activeRequest ELSE 0)
        /\ back = [p EXCEPT !.am.request = p.conns[x].request, !.am.activeRequest = IF browser = "ie" THEN @ ELSE 0]
        /\ lost = Fail(back, "lost")
  OBVIOUS
<1>2. Sound(now) /\ Lives(now) /\ now.conns = conns
  BY <1>1 DEF ClientInv, Page
<1>3. Dropped(now, x, p) /\ p.conns[x].timer = now.conns[x].timer /\ p.conns[x].request = now.conns[x].request
  BY <1>1, <1>2, FinishDrops
<1>4. Sound(p) /\ x \in DOMAIN p.conns
  BY <1>2, <1>3 DEF Dropped
<1>5. PICK a : a = [p.am EXCEPT !.request = p.conns[x].request, !.activeRequest = act]
  OBVIOUS
<1>6. back = [am |-> a, reqs |-> p.reqs, conns |-> p.conns, failed |-> p.failed]
  BY <1>1, <1>4, <1>5 DEF Sound, IsPage
<1>7. /\ IsAm(a) /\ a.request = p.conns[x].request /\ a.activeRequest = act
      /\ a.websocket = p.am.websocket /\ a.push = p.am.push /\ a.socketRequest = p.am.socketRequest
      /\ a.subscribed = p.am.subscribed
  BY <1>4, <1>5 DEF Sound, IsPage, IsAm
<1>8. AmChanged(p, a, back)
  <2>1. p.am.activeRequest \in {0} \cup DOMAIN p.conns /\ p.am.websocket \in {0} \cup DOMAIN p.conns
        /\ (p.am.push = "socket" => p.am.socketRequest \in DOMAIN p.reqs)
        /\ p.conns[x].request \in DOMAIN p.reqs
    BY <1>4 DEF Sound, Wired
  <2>2. act \in {0} \cup DOMAIN p.conns
    BY <1>1, <2>1
  <2>3. /\ a.request \in {0} \cup DOMAIN p.reqs /\ a.activeRequest \in {0} \cup DOMAIN p.conns
        /\ a.websocket \in {0} \cup DOMAIN p.conns /\ a.subscribed = p.am.subscribed
        /\ (a.push = "socket" => a.socketRequest \in DOMAIN p.reqs)
    BY <1>7, <2>1, <2>2
  <2> QED BY <1>4, <1>6, <1>7, <2>3, AmChanges
<1>9. Becomes(IF ~Handled(p) THEN p
              ELSE IF p.conns[x].timer \/ ~RequestOf(p, x).suspend THEN back
              ELSE lost)
  BY <1>1 DEF OnError
<1>a. CASE ~Handled(p)
  <2>1. Becomes(p) /\ Lives(p)
    BY <1>9, <1>a DEF Handled, Lives
  <2> QED BY <2>1, <1>4, BecomesIt
<1>b. CASE Handled(p) /\ (p.conns[x].timer \/ ~RequestOf(p, x).suspend)
  <2>1. Becomes(back) /\ Sound(back)
    BY <1>9, <1>b, <1>8 DEF AmChanged
  <2>2. SUFFICES ASSUME back.am.subscribed > 0, back.failed = {}
                 PROVE  \E y \in DOMAIN back.conns : Live(back, y)
    BY <2>1, BecomesIt DEF Lives
  <2>3. p.failed = {} /\ now.failed = {} /\ now.am.subscribed > 0
    BY <2>2, <1>3, <1>8, <1>7 DEF AmChanged, Dropped
  <2>4. \E y \in DOMAIN p.conns : Live(p, y)
    <3>1. CASE p.conns[x].timer
      BY <3>1, <1>4 DEF Live
    <3>2. CASE ~p.conns[x].timer /\ ~RequestOf(p, x).suspend
      <4>1. PICK y \in DOMAIN now.conns : Live(now, y)
        BY <1>2, <2>3 DEF Lives
      <4>2. ~Live(now, x)
        BY <1>2, <1>3, <3>2 DEF Live, OnError, RequestOf, Dropped
      <4> QED BY <1>3, <4>1, <4>2 DEF Dropped
    <3> QED BY <3>1, <3>2, <1>b
  <2> QED BY <2>3, <2>4, <1>8 DEF AmChanged, Live
<1>c. CASE Handled(p) /\ ~(p.conns[x].timer \/ ~RequestOf(p, x).suspend)
  <2>1. Becomes(lost)
    BY <1>9, <1>c
  <2>2. Sound(lost) /\ Lives(lost)
    BY <1>1, <1>8, FailKeeps DEF AmChanged
  <2> QED BY <2>1, <2>2, BecomesIt
<1> QED BY <1>a, <1>b, <1>c

LEMMA OnPollTimeoutStep ==
  ASSUME ClientInv, NEW x \in DOMAIN conns, OnPollTimeout(x)
  PROVE  ClientInv'
<1>1. PICK now, p, gone, r, q :
        /\ now = Page /\ p = clearTimeout(now, x) /\ gone = Abort(p, x) /\ r = RequestOf(p, x)
        /\ q = subscribe(gone, r)
  OBVIOUS
<1>2. Sound(now) /\ now.conns = conns
  BY <1>1 DEF ClientInv, Page
<1>3. Dropped(now, x, p)
  BY <1>1, <1>2, ClearDrops
<1>4. Sound(p) /\ x \in DOMAIN p.conns
  BY <1>2, <1>3 DEF Dropped
<1>5. Dropped(p, x, gone)
  BY <1>1, <1>4, AbortDrops
<1>6. Sound(gone) /\ gone.failed = now.failed /\ gone.reqs = now.reqs /\ DOMAIN gone.conns = DOMAIN p.conns
  BY <1>3, <1>5 DEF Dropped
<1>7. PICK i : i = p.conns[x].request
  OBVIOUS
<1>8. i \in DOMAIN p.reqs /\ r = p.reqs[i] /\ IsRequest(r) /\ r.id \in {0} \cup DOMAIN p.conns
  BY <1>1, <1>4, <1>7 DEF RequestOf, Sound, IsPage, Wired
<1>9. now.failed = {} => r.suspend
  <2>1. p.conns[x].request = now.conns[x].request
    <3>1. x # 0
      BY <1>2, SequencesStartAtOne DEF Sound, IsPage
    <3>2. p = [now EXCEPT !.conns[x].timer = FALSE]
      BY <1>1, <3>1 DEF clearTimeout
    <3>3. PICK d, c : d = now.conns[x] /\ c = [d EXCEPT !.timer = FALSE]
      OBVIOUS
    <3>4. p = [now EXCEPT !.conns[x] = c]
      BY <3>2, <3>3
    <3>5. IsConnection(d)
      BY <1>2, <3>3 DEF Sound, IsPage
    <3>6. c.request = d.request
      BY <3>3, <3>5 DEF IsConnection
    <3>7. p.conns[x] = c
      BY <1>2, <3>4 DEF Sound, IsPage
    <3> QED BY <3>3, <3>6, <3>7
  <2>2. p.reqs = now.reqs
    BY <1>3 DEF Dropped
  <2>3. now.conns[x].timer
    BY <1>2 DEF OnPollTimeout
  <2> QED BY <1>2, <1>7, <1>8, <2>1, <2>2, <2>3 DEF Sound, Wired
<1>10. Opens(gone, q)
  BY <1>1, <1>6, <1>8, <1>9, SubscribeOpens
<1>11. Becomes(q)
  BY <1>1 DEF OnPollTimeout, Resubscribe
<1> QED BY <1>10, <1>11, BecomesIt DEF Opens, Lives

LEMMA ClientInvInit ==
  ASSUME ClientInit
  PROVE  ClientInv
<1>1. PICK p : p = Page
  OBVIOUS
<1>2. IsSeq(<<>>) /\ DOMAIN <<>> = {}
  <2>1. <<>> \in Seq({}) /\ DOMAIN <<>> = {}
    OBVIOUS
  <2> QED BY <2>1 DEF IsSeq
<1>3. p = [am |-> p.am, reqs |-> p.reqs, conns |-> p.conns, failed |-> p.failed]
      /\ p.am = am /\ p.reqs = <<>> /\ p.conns = <<>>
  BY <1>1 DEF Page, ClientInit
<1>4. IsAm(am) /\ am.request = 0 /\ am.activeRequest = 0 /\ am.websocket = 0 /\ am.push = "none" /\ am.subscribed = 0
  BY DEF ClientInit, IsAm
<1>5. IsPage(p)
  BY <1>2, <1>3, <1>4 DEF IsPage
<1>6. Wired(p) /\ Lives(p)
  BY <1>2, <1>3, <1>4 DEF Wired, Lives
<1> QED BY <1>1, <1>5, <1>6 DEF ClientInv, Sound

LEMMA ClientInvStep ==
  ASSUME ClientInv, [ClientNext]_clientVars
  PROVE  ClientInv'
<1>1. CASE UNCHANGED clientVars
  <2>1. PICK p : p = Page
    OBVIOUS
  <2>2. Sound(p) /\ Lives(p) /\ Page' = p
    BY <1>1, <2>1 DEF ClientInv, clientVars, Page
  <2> QED BY <2>2, NextPage
<1>2. ASSUME NEW t \in Transports, Subscribe(t)
      PROVE  ClientInv'
  BY <1>2, SubscribeStep
<1>3. ASSUME NEW m \in Msg, Publish(m) \/ PushSocket(m) \/ PushSocketThrows(m)
      PROVE  ClientInv'
  BY <1>3, PublishStep, PushSocketStep, PushSocketThrowsStep
<1>4. ASSUME NEW x \in DOMAIN conns, Suspend(x) \/ TakePost(x) \/ EndPoll(x) \/ Refuse(x)
      PROVE  ClientInv'
  BY <1>4, ServeStep
<1>5. ASSUME NEW m \in Msg, OthersSend(m)
      PROVE  ClientInv'
  <2>1. PICK p : p = Page
    OBVIOUS
  <2>2. Sound(p) /\ Lives(p) /\ Page' = p
    BY <1>5, <2>1 DEF ClientInv, OthersSend, Page
  <2> QED BY <2>2, NextPage
<1>6. ASSUME NEW batch \in SUBSET pending, Broadcast(batch)
      PROVE  ClientInv'
  BY <1>6, BroadcastStep
<1>7. ASSUME NEW x \in DOMAIN conns, Event(x) \/ OnError(x) \/ OnPollTimeout(x) \/ OnClose(x)
      PROVE  ClientInv'
  BY <1>7, OnHeadersStep, OnTextStep, OnDoneStep, OnMessageStep, ServeStep, OnErrorStep,
     OnPollTimeoutStep, OnCloseStep DEF Event
<1> QED BY <1>1, <1>2, <1>3, <1>4, <1>5, <1>6, <1>7 DEF ClientNext, ClientCalls, Serves, Events

\* Whatever a page that has subscribed publishes, pushes and subscribes to
\* again, and whatever the endpoint answers and when the timers fire, it is
\* never without a connection that brings messages and without a timer that
\* makes one, as long as no answer was an error, no socket was lost and
\* maxRequest was not reached (onreadystatechange, setTimeout, subscribe).
THEOREM SubscriptionStays == ClientSpec => []SubscriptionLives
<1>1. ClientInit => ClientInv
  BY ClientInvInit
<1>2. ClientInv /\ [ClientNext]_clientVars => ClientInv'
  BY ClientInvStep
<1>3. ClientInv => SubscriptionLives
  BY DEF ClientInv, Lives, Live, Page, SubscriptionLives, Subscribed, Alive
<1> QED BY <1>1, <1>2, <1>3, PTL DEF ClientSpec

-----------------------------------------------------------------------------
(***************************************************************************)
(* What is told and posted, and of what type the page is.                  *)
(***************************************************************************)

IsOpen(c) == c.phase \in {"sent", "open"}
OpenPoll(c) == c.kind = "xhr" /\ IsOpen(c)
Nothing == [m \in Msg |-> 0]

AmOK(a) ==
  /\ a.activeTransport \in Transport \cup {Absent} /\ a.push \in {"none", "publish", "socket"}
  /\ a.callbacks \in 0 .. 1 /\ a.subscribed \in 0 .. MaxSubs

RequestOK(r) == r \in Request /\ (r.transport = "polling" => r.data # Absent)

\* What a connection tells in pieces was told once and is in the text of it
\* that has been told: up to n.
TellsOnce(c, n) ==
  c.transport # "long-polling" =>
    \A m \in Msg : c.told[m] # 0 => c.told[m] = 1 /\ \E i \in DOMAIN c.text : i <= n /\ c.text[i] = m

\* Of an XMLHttpRequest, what has been told is what was read and lies before
\* lastIndex; lastIndex may be ahead of what was read, as the request's next
\* poll begins with that of the last.
Told(c, r) ==
  IF c.kind # "xhr" THEN c.read ELSE IF c.read < r.lastIndex THEN c.read ELSE r.lastIndex

\* A connection c of a request r, in a browser b.
ConnectionOK(c, r, b) ==
  /\ c \in Connection
  /\ c.timer => c.kind = "xhr"
  /\ c.kind = "xhr" => c.transport # "websocket" /\ r.transport # "websocket"
  /\ c.transport = "polling" => c.data # Absent
  /\ c.kind = "xhr" /\ c.data # Absent => c.answer # "suspended" /\ c.text = <<>>
  /\ c.kind = "xhr" /\ c.transport = "streaming" =>
       b = "standard" /\ (IsOpen(c) => r.transport = "streaming")
  /\ ~IsOpen(c) => c.answer = "none"
  /\ c.answer = "none" => c.text = <<>> /\ c.told = Nothing
  /\ TellsOnce(c, Told(c, r))

\* The text of a connection: messages of the log, each once.
TextOK(t, l) ==
  /\ t \in Seq(Msg \cup {Junk})
  /\ \A i, j \in DOMAIN t : t[i] = t[j] /\ t[i] # Junk => i = j
  /\ \A i \in DOMAIN t : t[i] = Junk \/ \E j \in DOMAIN l : l[j] = t[i]

LogOK(l, w) ==
  /\ l \in Seq(Msg) /\ IsFiniteSet(w) /\ w \subseteq Msg
  /\ \A i, j \in DOMAIN l : l[i] = l[j] => i = j
  /\ \A i \in DOMAIN l : l[i] \notin w

Contents(p, b, l) ==
  /\ AmOK(p.am) /\ p.am.socketRequest \in {0} \cup DOMAIN p.reqs
  /\ p.failed \subseteq {"budget", "refused", "lost", "socket", "downgrade"}
  /\ \A r \in DOMAIN p.reqs : RequestOK(p.reqs[r])
  /\ \A x \in DOMAIN p.conns :
       ConnectionOK(p.conns[x], p.reqs[p.conns[x].request], b) /\ TextOK(p.conns[x].text, l)

\* A request has one open poll, those of X aside.
Alone(p, X) ==
  \A x, y \in DOMAIN p.conns \ X :
    OpenPoll(p.conns[x]) /\ OpenPoll(p.conns[y]) /\ p.conns[x].request = p.conns[y].request => x = y

\* ... and the request of a socket has none, until the socket is downgraded.
SocketAlone(p) ==
  p.am.push = "socket" =>
    \A x \in DOMAIN p.conns : p.conns[x].request = p.am.socketRequest => p.conns[x].kind = "socket"

\* The request of a post is never polled for again.
PostedOf(p, r) == p.reqs[r].data # Absent
Posts(p) ==
  "downgrade" \notin p.failed =>
    /\ \A r \in DOMAIN p.reqs : PostedOf(p, r) => ~p.reqs[r].suspend
    /\ \A r, s \in DOMAIN p.reqs : PostedOf(p, r) /\ p.reqs[r].data = p.reqs[s].data => r = s
    /\ \A x \in DOMAIN p.conns : /\ p.conns[x].data = p.reqs[p.conns[x].request].data
                                 /\ p.conns[x].timer => p.reqs[p.conns[x].request].suspend
    /\ \A x, y \in DOMAIN p.conns :
         p.conns[x].request = p.conns[y].request /\ ~p.reqs[p.conns[x].request].suspend => x = y

Proper(p, X, b, l) == Contents(p, b, l) /\ Alone(p, X) /\ SocketAlone(p) /\ Posts(p)
ClientSound == Proper(Page, {}, browser, log) /\ LogOK(log, pending)

-----------------------------------------------------------------------------
(* Of one connection. *)

LEMMA OverOK ==
  ASSUME NEW c, NEW r, NEW b, NEW l, ConnectionOK(c, r, b), NEW phase \in {"done", "aborted"},
         NEW d, d = Over(c, phase)
  PROVE  ConnectionOK(d, r, b) /\ TextOK(d.text, l) /\ ~IsOpen(d) /\ d.request = c.request /\ d.kind = c.kind
         /\ d.data = c.data /\ d.timer = c.timer
<1>1. c \in Connection
  BY DEF ConnectionOK
<1>2. PICK none : none = Nothing
  OBVIOUS
<1>3. none \in [Msg -> 0 .. 2] /\ \A m \in Msg : none[m] = 0
  BY <1>2 DEF Nothing
<1>4. d = [kind |-> c.kind, request |-> c.request, transport |-> c.transport, data |-> c.data,
           phase |-> phase, answer |-> "none", text |-> <<>>, read |-> 0, timer |-> c.timer, told |-> none]
  BY <1>1, <1>2 DEF Over, Connection, Nothing
<1>5. /\ d.kind = c.kind /\ d.request = c.request /\ d.transport = c.transport /\ d.data = c.data
      /\ d.phase = phase /\ d.answer = "none" /\ d.text = <<>> /\ d.read = 0 /\ d.timer = c.timer /\ d.told = none
  BY <1>4
<1>6. <<>> \in Seq(Msg \cup {Junk}) /\ DOMAIN <<>> = {}
  OBVIOUS
<1>7. d \in Connection
  <2>1. /\ c.kind \in {"xhr", "frame", "socket"} /\ c.request \in Nat /\ c.transport \in Transport
        /\ c.data \in Msg \cup {Absent} /\ c.timer \in BOOLEAN
    BY <1>1 DEF Connection
  <2> QED BY <2>1, <1>3, <1>4, <1>6 DEF Connection
<1>8. TextOK(d.text, l)
  BY <1>5, <1>6 DEF TextOK
<1>9. ~IsOpen(d)
  BY <1>5 DEF IsOpen
<1>10. TellsOnce(d, Told(d, r))
  BY <1>3, <1>5 DEF TellsOnce
<1>11. ConnectionOK(d, r, b)
  BY <1>2, <1>5, <1>7, <1>9, <1>10 DEF ConnectionOK
<1> QED BY <1>5, <1>8, <1>9, <1>11

\* Of its request, a connection knows the transport and lastIndex.
LEMMA RequestsAlike ==
  ASSUME NEW c, NEW r, NEW s, NEW b, ConnectionOK(c, r, b), s.transport = r.transport, s.lastIndex = r.lastIndex
  PROVE  ConnectionOK(c, s, b)
  BY DEF ConnectionOK, Told

NewFor(p, kind, r, b, l, c) ==
  /\ ConnectionOK(c, r, b) /\ TextOK(c.text, l) /\ c.request = p.am.request /\ c.kind = kind
  /\ c.data = r.data /\ (c.timer => r.suspend)

LEMMA OpenedOK ==
  ASSUME NEW p, p.am.request \in Nat, NEW kind, kind \in {"xhr", "frame", "socket"}, NEW r, RequestOK(r),
         NEW b, NEW l, kind = "xhr" => r.transport # "websocket" /\ (r.transport = "streaming" => b = "standard"),
         NEW c, c = Opened(p, kind, r)
  PROVE  NewFor(p, kind, r, b, l, c)
<1>1. /\ r.transport \in Transport /\ r.data \in Msg \cup {Absent} /\ r.suspend \in BOOLEAN
      /\ (r.transport = "polling" => r.data # Absent)
  BY DEF RequestOK, Request
<1>2. PICK none, timer, phase :
        /\ none = Nothing /\ timer = (kind = "xhr" /\ r.suspend)
        /\ phase = IF kind = "frame" THEN "open" ELSE "sent"
  OBVIOUS
<1>3. none \in [Msg -> 0 .. 2] /\ \A m \in Msg : none[m] = 0
  BY <1>2 DEF Nothing
<1>4. c = [kind |-> kind, request |-> p.am.request, transport |-> r.transport, data |-> r.data,
           phase |-> phase, answer |-> "none", text |-> <<>>, read |-> 0, timer |-> timer, told |-> none]
  BY <1>2 DEF Opened, Nothing
<1>5. /\ c.kind = kind /\ c.request = p.am.request /\ c.transport = r.transport /\ c.data = r.data
      /\ c.phase = phase /\ c.answer = "none" /\ c.text = <<>> /\ c.read = 0 /\ c.timer = timer /\ c.told = none
  BY <1>4
<1>6. <<>> \in Seq(Msg \cup {Junk}) /\ DOMAIN <<>> = {}
  OBVIOUS
<1>7. timer \in BOOLEAN /\ phase \in {"sent", "open"}
  BY <1>1, <1>2
<1>8. c \in Connection
  BY <1>1, <1>3, <1>4, <1>6, <1>7 DEF Connection
<1>9. TextOK(c.text, l)
  BY <1>5, <1>6 DEF TextOK
<1>10. TellsOnce(c, Told(c, r))
  BY <1>3, <1>5 DEF TellsOnce
<1>11. ConnectionOK(c, r, b)
  BY <1>1, <1>2, <1>5, <1>7, <1>8, <1>10 DEF ConnectionOK, IsOpen
<1> QED BY <1>2, <1>5, <1>9, <1>11 DEF NewFor

(* Of a page. *)

LEMMA AmProper ==
  ASSUME NEW p, NEW X, NEW b, NEW l, Proper(p, X, b, l),
         NEW q, q.reqs = p.reqs, q.conns = p.conns, q.failed = p.failed,
         AmOK(q.am), q.am.push = p.am.push, q.am.socketRequest = p.am.socketRequest
  PROVE  Proper(q, X, b, l)
<1>1. Contents(q, b, l)
  BY DEF Proper, Contents
<1>2. Alone(q, X) /\ SocketAlone(q) /\ Posts(q)
  BY DEF Proper, Alone, SocketAlone, Posts, PostedOf
<1> QED BY <1>1, <1>2 DEF Proper

LEMMA FailProper ==
  ASSUME NEW p, NEW X, NEW b, NEW l, Proper(p, X, b, l),
         NEW q, q.am = p.am, q.reqs = p.reqs, q.conns = p.conns, p.failed \subseteq q.failed,
         q.failed \subseteq {"budget", "refused", "lost", "socket", "downgrade"}
  PROVE  Proper(q, X, b, l)
<1>1. Contents(q, b, l)
  BY DEF Proper, Contents
<1>2. Alone(q, X) /\ SocketAlone(q) /\ Posts(q)
  BY DEF Proper, Alone, SocketAlone, Posts, PostedOf
<1> QED BY <1>1, <1>2 DEF Proper

\* The requests are what they were, but for requestCount and id.
SameRequests(p, q) ==
  /\ DOMAIN q.reqs = DOMAIN p.reqs
  /\ \A r \in DOMAIN p.reqs :
       /\ RequestOK(q.reqs[r])
       /\ q.reqs[r].transport = p.reqs[r].transport /\ q.reqs[r].lastIndex = p.reqs[r].lastIndex
       /\ q.reqs[r].suspend = p.reqs[r].suspend /\ q.reqs[r].data = p.reqs[r].data

LEMMA RequestsProper ==
  ASSUME NEW p, Sound(p), NEW X, NEW b, NEW l, Proper(p, X, b, l),
         NEW q, SameRequests(p, q), q.am = p.am, q.conns = p.conns, q.failed = p.failed
  PROVE  Proper(q, X, b, l)
<1>1. \A x \in DOMAIN p.conns : p.conns[x].request \in DOMAIN p.reqs
  BY DEF Sound, Wired
<1>2. \A x \in DOMAIN p.conns : ConnectionOK(p.conns[x], q.reqs[p.conns[x].request], b)
  BY <1>1, RequestsAlike DEF Proper, Contents, SameRequests
<1>3. Contents(q, b, l)
  BY <1>2 DEF Proper, Contents, SameRequests
<1>4. Alone(q, X) /\ SocketAlone(q)
  BY DEF Proper, Alone, SocketAlone
<1>5. Posts(q)
  BY <1>1 DEF Proper, Posts, PostedOf, SameRequests
<1> QED BY <1>3, <1>4, <1>5 DEF Proper

\* A request is added that is none of a post, or of one that is new.
LEMMA NewRequestProper ==
  ASSUME NEW p, Sound(p), NEW X, NEW b, NEW l, Proper(p, X, b, l), NEW r, RequestOK(r),
         "downgrade" \notin p.failed /\ r.data # Absent =>
           ~r.suspend /\ \A k \in DOMAIN p.reqs : p.reqs[k].data # r.data,
         NEW q, q = NewRequest(p, r)
  PROVE  /\ Proper(q, X, b, l) /\ q.failed = p.failed /\ q.conns = p.conns
         /\ \A x \in DOMAIN q.conns : q.conns[x].request # q.am.request
         /\ q.am.activeTransport = p.am.activeTransport
         /\ \A k \in DOMAIN p.reqs : q.reqs[k] = p.reqs[k]
<1>1. PICK rs, a, n : rs = Append(p.reqs, r) /\ n = Len(p.reqs) + 1 /\ a = [p.am EXCEPT !.request = n]
  OBVIOUS
<1>2. /\ DOMAIN rs = DOMAIN p.reqs \cup {n} /\ n \notin DOMAIN p.reqs
      /\ rs[n] = r /\ \A k \in DOMAIN p.reqs : rs[k] = p.reqs[k]
  <2>1. PICK before : before = p.reqs
    OBVIOUS
  <2>2. IsSeq(before) /\ rs = Append(before, r)
    BY <1>1, <2>1 DEF Sound, IsPage
  <2>3. AddedTo(before, r, rs)
    BY <2>2, Added
  <2> QED BY <2>1, <2>3, <1>1 DEF AddedTo
<1>3. /\ a.request = n /\ a.activeTransport = p.am.activeTransport /\ a.push = p.am.push
      /\ a.socketRequest = p.am.socketRequest /\ a.callbacks = p.am.callbacks /\ a.subscribed = p.am.subscribed
  BY <1>1 DEF Sound, IsPage, IsAm
<1>4. q = [am |-> a, reqs |-> rs, conns |-> p.conns, failed |-> p.failed]
  BY <1>1 DEF NewRequest, Sound, IsPage
<1>5. q.am = a /\ q.reqs = rs /\ q.conns = p.conns /\ q.failed = p.failed
  BY <1>4
<1>6. \A x \in DOMAIN p.conns : p.conns[x].request \in DOMAIN p.reqs /\ p.conns[x].request # n
  BY <1>2 DEF Sound, Wired
<1>7. AmOK(a)
  BY <1>3 DEF Proper, Contents, AmOK
<1>8. Contents(q, b, l)
  BY <1>2, <1>3, <1>5, <1>6, <1>7 DEF Proper, Contents
<1>9. Alone(q, X) /\ SocketAlone(q)
  BY <1>3, <1>5 DEF Proper, Alone, SocketAlone
<1>10. Posts(q)
  <2>1. SUFFICES ASSUME "downgrade" \notin p.failed PROVE Posts(q)
    BY <1>5 DEF Posts
  <2>2. \A k \in DOMAIN rs : PostedOf(q, k) => ~rs[k].suspend
    BY <1>2, <1>5, <2>1 DEF Proper, Posts, PostedOf
  <2>3. \A k, m \in DOMAIN rs : PostedOf(q, k) /\ rs[k].data = rs[m].data => k = m
    BY <1>2, <1>5, <2>1 DEF Proper, Posts, PostedOf
  <2> QED BY <1>2, <1>5, <1>6, <2>1, <2>2, <2>3 DEF Proper, Posts
<1> QED BY <1>2, <1>3, <1>5, <1>6, <1>8, <1>9, <1>10 DEF Proper

\* The page may open a connection for its current request.
Unused(p) == \A x \in DOMAIN p.conns : p.conns[x].request # p.am.request
MayOpen(p, X) ==
  /\ \A x \in DOMAIN p.conns \ X : OpenPoll(p.conns[x]) => p.conns[x].request # p.am.request
  /\ "downgrade" \notin p.failed /\ ~Current(p).suspend => Unused(p)

LEMMA OpenedProper ==
  ASSUME NEW p, Sound(p), p.am.request \in DOMAIN p.reqs, NEW X, NEW b, NEW l, Proper(p, X, b, l),
         MayOpen(p, X), NEW kind \in {"xhr", "frame", "socket"},
         kind = "xhr" => Current(p).transport # "websocket" /\ (Current(p).transport = "streaming" => b = "standard"),
         NEW q, SameRequests(p, q), q.failed = p.failed, AddedTo(p.conns, Opened(p, kind, Current(p)), q.conns),
         AmOK(q.am), q.am.socketRequest \in {0} \cup DOMAIN q.reqs,
         q.am.push = "socket" => kind = "socket" /\ q.am.socketRequest = p.am.request /\ Unused(p)
  PROVE  Proper(q, X, b, l)
<1>1. PICK c, r, n, i : c = Opened(p, kind, r) /\ r = Current(p) /\ n = Len(p.conns) + 1 /\ i = p.am.request
  OBVIOUS
<1>2. DOMAIN q.conns = DOMAIN p.conns \cup {n} /\ n \notin DOMAIN p.conns
      /\ q.conns[n] = c /\ \A x \in DOMAIN p.conns : q.conns[x] = p.conns[x]
  BY <1>1 DEF AddedTo
<1>3. i \in DOMAIN p.reqs /\ r = p.reqs[i] /\ RequestOK(r) /\ i \in Nat
  <2>1. i \in DOMAIN p.reqs /\ r = p.reqs[i]
    BY <1>1 DEF Current
  <2>2. i \in Nat
    BY <2>1 DEF Sound, IsPage, IsSeq
  <2> QED BY <2>1, <2>2 DEF Proper, Contents
<1>4. /\ ConnectionOK(c, r, b) /\ TextOK(c.text, l) /\ c.request = i /\ c.kind = kind
      /\ c.data = r.data /\ (c.timer => r.suspend)
  <2>1. /\ p.am.request \in Nat /\ RequestOK(r) /\ c = Opened(p, kind, r)
        /\ kind = "xhr" => r.transport # "websocket" /\ (r.transport = "streaming" => b = "standard")
    BY <1>1, <1>3
  <2>2. NewFor(p, kind, r, b, l, c)
    BY <2>1, OpenedOK
  <2> QED BY <1>1, <2>2 DEF NewFor
<1>5. \A x \in DOMAIN p.conns : p.conns[x].request \in DOMAIN p.reqs
  BY DEF Sound, Wired
<1>6. Contents(q, b, l)
  <2>1. ConnectionOK(c, q.reqs[i], b)
    BY <1>3, <1>4, RequestsAlike DEF SameRequests
  <2>2. \A x \in DOMAIN p.conns : ConnectionOK(p.conns[x], q.reqs[p.conns[x].request], b)
    BY <1>5, RequestsAlike DEF Proper, Contents, SameRequests
  <2>3. \A x \in DOMAIN q.conns :
          ConnectionOK(q.conns[x], q.reqs[q.conns[x].request], b) /\ TextOK(q.conns[x].text, l)
    BY <1>2, <1>4, <2>1, <2>2 DEF Proper, Contents
  <2> QED BY <2>3 DEF Proper, Contents, SameRequests
<1>7. Alone(q, X)
  <2>1. \A x \in DOMAIN p.conns \ X : OpenPoll(c) /\ OpenPoll(p.conns[x]) => p.conns[x].request # i
    BY <1>1 DEF MayOpen
  <2> QED BY <1>2, <1>4, <2>1 DEF Proper, Alone
<1>8. SocketAlone(q)
  BY <1>1, <1>2, <1>4 DEF SocketAlone, Unused
<1>9. Posts(q)
  <2>1. SUFFICES ASSUME "downgrade" \notin p.failed PROVE Posts(q)
    BY DEF Posts
  <2>2. /\ \A k \in DOMAIN q.reqs : PostedOf(q, k) => ~q.reqs[k].suspend
        /\ \A k, m \in DOMAIN q.reqs : PostedOf(q, k) /\ q.reqs[k].data = q.reqs[m].data => k = m
    BY <2>1 DEF Proper, Posts, PostedOf, SameRequests
  <2>3. \A x \in DOMAIN q.conns : /\ q.conns[x].data = q.reqs[q.conns[x].request].data
                                  /\ q.conns[x].timer => q.reqs[q.conns[x].request].suspend
    <3>1. \A x \in DOMAIN p.conns : /\ p.conns[x].data = q.reqs[p.conns[x].request].data
                                    /\ p.conns[x].timer => q.reqs[p.conns[x].request].suspend
      BY <1>5, <2>1 DEF Proper, Posts, SameRequests
    <3> QED BY <1>2, <1>3, <1>4, <3>1 DEF SameRequests
  <2>4. \A x, y \in DOMAIN q.conns :
          q.conns[x].request = q.conns[y].request /\ ~q.reqs[q.conns[x].request].suspend => x = y
    <3>1. \A x, y \in DOMAIN p.conns :
            p.conns[x].request = p.conns[y].request /\ ~q.reqs[p.conns[x].request].suspend => x = y
      BY <1>5, <2>1 DEF Proper, Posts, SameRequests
    <3>2. \A x \in DOMAIN p.conns : ~q.reqs[i].suspend => p.conns[x].request # i
      BY <1>1, <1>3, <2>1 DEF MayOpen, Unused, SameRequests
    <3> QED BY <1>2, <1>4, <3>1, <3>2
  <2> QED BY <2>2, <2>3, <2>4 DEF Posts
<1> QED BY <1>6, <1>7, <1>8, <1>9 DEF Proper

\* A connection changes, and does not open again; an open poll of X may close.
LEMMA ConnectionProper ==
  ASSUME NEW p, Sound(p), NEW X, NEW b, NEW l, Proper(p, X, b, l), NEW x \in DOMAIN p.conns,
         NEW c, ConnectionOK(c, p.reqs[p.conns[x].request], b), TextOK(c.text, l),
         c.request = p.conns[x].request, c.kind = p.conns[x].kind, c.data = p.conns[x].data,
         c.timer => p.conns[x].timer, IsOpen(c) => IsOpen(p.conns[x]),
         NEW q, q = [p EXCEPT !.conns[x] = c]
  PROVE  Proper(q, X, b, l) /\ (~IsOpen(c) => Proper(q, X \ {x}, b, l))
<1>1. PICK cs : cs = [p.conns EXCEPT ![x] = c]
  OBVIOUS
<1>2. /\ DOMAIN cs = DOMAIN p.conns /\ cs[x] = c /\ \A k \in DOMAIN p.conns : k # x => cs[k] = p.conns[k]
  BY <1>1, Replaced DEF Sound, IsPage
<1>3. q = [am |-> p.am, reqs |-> p.reqs, conns |-> cs, failed |-> p.failed]
  BY <1>1 DEF Sound, IsPage
<1>4. q.am = p.am /\ q.reqs = p.reqs /\ q.conns = cs /\ q.failed = p.failed
  BY <1>3
<1>5. \A y \in DOMAIN cs : /\ cs[y].request = p.conns[y].request /\ cs[y].kind = p.conns[y].kind
                           /\ cs[y].data = p.conns[y].data /\ (cs[y].timer => p.conns[y].timer)
                           /\ (OpenPoll(cs[y]) => OpenPoll(p.conns[y]))
  BY <1>2 DEF OpenPoll
<1>6. Contents(q, b, l)
  BY <1>2, <1>4, <1>5 DEF Proper, Contents
<1>7. Alone(q, X) /\ (~IsOpen(c) => Alone(q, X \ {x}))
  BY <1>2, <1>4, <1>5 DEF Proper, Alone, OpenPoll
<1>8. SocketAlone(q)
  BY <1>2, <1>4, <1>5 DEF Proper, SocketAlone
<1>9. Posts(q)
  <2> SUFFICES ASSUME "downgrade" \notin p.failed PROVE Posts(q)
    BY <1>4 DEF Posts
  <2>1. /\ \A r \in DOMAIN p.reqs : PostedOf(q, r) => ~p.reqs[r].suspend
        /\ \A r, s \in DOMAIN p.reqs : PostedOf(q, r) /\ p.reqs[r].data = p.reqs[s].data => r = s
    BY <1>4 DEF Proper, Posts, PostedOf
  <2>2. \A y \in DOMAIN cs : /\ cs[y].data = p.reqs[cs[y].request].data
                             /\ cs[y].timer => p.reqs[cs[y].request].suspend
    BY <1>2, <1>5 DEF Proper, Posts
  <2>3. \A y, z \in DOMAIN p.conns :
          p.conns[y].request = p.conns[z].request /\ ~p.reqs[p.conns[y].request].suspend => y = z
    BY DEF Proper, Posts
  <2>4. \A y, z \in DOMAIN cs : cs[y].request = cs[z].request /\ ~p.reqs[cs[y].request].suspend => y = z
    BY <1>2, <1>5, <2>3
  <2>5. \A r \in DOMAIN q.reqs : PostedOf(q, r) => ~q.reqs[r].suspend
    BY <1>4, <2>1
  <2>6. \A r, s \in DOMAIN q.reqs : PostedOf(q, r) /\ q.reqs[r].data = q.reqs[s].data => r = s
    BY <1>4, <2>1
  <2>7. \A y \in DOMAIN q.conns : /\ q.conns[y].data = q.reqs[q.conns[y].request].data
                                  /\ q.conns[y].timer => q.reqs[q.conns[y].request].suspend
    BY <1>4, <2>2
  <2>8. \A y, z \in DOMAIN q.conns :
          q.conns[y].request = q.conns[z].request /\ ~q.reqs[q.conns[y].request].suspend => y = z
    BY <1>4, <2>4
  <2> QED BY <2>5, <2>6, <2>7, <2>8, Zenon DEF Posts
<1> QED BY <1>6, <1>7, <1>8, <1>9 DEF Proper

(* Of the functions of the library. *)

LEMMA CountingOK ==
  ASSUME NEW r, RequestOK(r), NEW n \in Nat, NEW s, s \in {Counting(r), Polling(r, n)}
  PROVE  /\ RequestOK(s) /\ s.transport = r.transport /\ s.lastIndex = r.lastIndex
         /\ s.suspend = r.suspend /\ s.data = r.data
<1>1. PICK count, id : /\ count = (IF r.requestCount > MaxRequest THEN r.requestCount ELSE r.requestCount + 1)
                       /\ id = s.id
  OBVIOUS
<1>2. r \in Request /\ (r.transport = "polling" => r.data # Absent)
  BY DEF RequestOK
<1>3. count \in 0 .. MaxRequest + 1
  <2>1. r.requestCount \in 0 .. MaxRequest + 1 /\ MaxRequest \in Nat
    BY <1>2, ClientBoundsAreCounts DEF Request
  <2> QED BY <2>1, <1>1
<1>4. s = [transport |-> r.transport, suspend |-> r.suspend, requestCount |-> count,
           lastIndex |-> r.lastIndex, id |-> id, data |-> r.data]
      /\ id \in {n, r.id}
  <2>1. CASE s = Counting(r)
    BY <2>1, <1>1 DEF Counting
  <2>2. CASE s = Polling(r, n)
    <3>1. Counting(r).requestCount = count
      BY <1>1 DEF Counting
    <3> QED BY <2>2, <3>1, <1>1 DEF Polling
  <2> QED BY <2>1, <2>2
<1>5. id \in Nat
  BY <1>2, <1>4 DEF Request
<1>6. s \in Request
  BY <1>2, <1>3, <1>4, <1>5 DEF Request
<1> QED BY <1>2, <1>4, <1>6 DEF RequestOK

LEMMA CurrentChanges ==
  ASSUME NEW p, Sound(p), NEW X, NEW b, NEW l, Proper(p, X, b, l), p.am.request \in DOMAIN p.reqs,
         NEW n \in Nat, NEW s, s \in {Counting(Current(p)), Polling(Current(p), n)},
         NEW q, q.reqs = [p.reqs EXCEPT ![p.am.request] = s]
  PROVE  SameRequests(p, q)
<1>1. PICK r, i, rs : r = Current(p) /\ i = p.am.request /\ rs = q.reqs
  OBVIOUS
<1>2. i \in DOMAIN p.reqs /\ r = p.reqs[i] /\ RequestOK(r) /\ s \in {Counting(r), Polling(r, n)}
  BY <1>1 DEF Current, Proper, Contents
<1>3. /\ RequestOK(s) /\ s.transport = r.transport /\ s.lastIndex = r.lastIndex
      /\ s.suspend = r.suspend /\ s.data = r.data
  BY <1>2, CountingOK
<1>4. DOMAIN rs = DOMAIN p.reqs /\ rs[i] = s /\ \A k \in DOMAIN p.reqs : k # i => rs[k] = p.reqs[k]
  BY <1>1, <1>2, Replaced DEF Sound, IsPage
<1> QED BY <1>1, <1>2, <1>3, <1>4 DEF SameRequests, Proper, Contents

ExecutedWell(p, q, X, l) ==
  /\ Proper(q, X, browser, l) /\ p.failed \subseteq q.failed
  /\ \A x \in DOMAIN p.conns : q.conns[x] = p.conns[x]

LEMMA ExecuteProper ==
  ASSUME NEW p, Sound(p), p.am.request \in DOMAIN p.reqs, NEW X, NEW l, Proper(p, X, browser, l),
         MayOpen(p, X), Current(p).transport # "websocket", NEW q, q = executeRequest(p)
  PROVE  ExecutedWell(p, q, X, l)
<1>1. PICK r, n : r = Current(p) /\ n = Len(p.conns) + 1
  OBVIOUS
<1>2. n \in Nat
  <2>1. Len(p.conns) \in Nat
    BY DEF Sound, IsPage, IsSeq
  <2> QED BY <2>1, <1>1
<1>3. AmOK(p.am) /\ IsAm(p.am) /\ p.am.socketRequest \in {0} \cup DOMAIN p.reqs
  BY DEF Proper, Contents, Sound, IsPage
<1>a. CASE Framed(p, q)
  <2>1. PICK a : a = [p.am EXCEPT !.push = "publish"]
    OBVIOUS
  <2>2. q.am = a /\ q.reqs = p.reqs /\ q.conns = Open(p, "frame", r) /\ q.failed = p.failed
    BY <2>1, <1>1, <1>a DEF Framed
  <2>3. AmOK(a) /\ a.push = "publish" /\ a.socketRequest = p.am.socketRequest
    BY <1>3, <2>1 DEF AmOK, IsAm
  <2>4. AddedTo(p.conns, Opened(p, "frame", Current(p)), q.conns)
    BY <1>1, <2>2, OpenAdds
  <2>5. SameRequests(p, q)
    BY <2>2 DEF SameRequests, Proper, Contents
  <2>6. Proper(q, X, browser, l)
    <3>1. PICK kind : kind = "frame"
      OBVIOUS
    <3>2. AddedTo(p.conns, Opened(p, kind, Current(p)), q.conns) /\ kind \in {"xhr", "frame", "socket"} /\ kind # "xhr"
      BY <2>4, <3>1
    <3>3. AmOK(q.am) /\ q.am.socketRequest \in {0} \cup DOMAIN q.reqs /\ q.am.push # "socket" /\ q.failed = p.failed
      BY <1>3, <2>2, <2>3
    <3> QED BY <3>2, <3>3, <2>5, OpenedProper
  <2> QED BY <1>1, <2>2, <2>4, <2>6 DEF ExecutedWell, AddedTo
<1>b. CASE Stopped(p, q)
  <2>1. PICK s, mid : /\ s = Counting(r)
                      /\ mid = [am |-> p.am, reqs |-> [p.reqs EXCEPT ![p.am.request] = s],
                                conns |-> p.conns, failed |-> p.failed]
    OBVIOUS
  <2>2. /\ mid.am = p.am /\ mid.reqs = [p.reqs EXCEPT ![p.am.request] = s]
        /\ mid.conns = p.conns /\ mid.failed = p.failed
    BY <2>1
  <2>3. SameRequests(p, mid)
    BY <1>1, <1>2, <2>1, <2>2, CurrentChanges
  <2>4. Proper(mid, X, browser, l)
    BY <2>2, <2>3, RequestsProper
  <2>5. q.am = mid.am /\ q.reqs = mid.reqs /\ q.conns = mid.conns /\ q.failed = mid.failed \cup {"budget"}
    BY <1>1, <1>b, <2>1, <2>2 DEF Stopped
  <2>6. q.failed \subseteq {"budget", "refused", "lost", "socket", "downgrade"}
    BY <2>4, <2>5 DEF Proper, Contents
  <2>7. Proper(q, X, browser, l)
    BY <2>4, <2>5, <2>6, FailProper
  <2> QED BY <2>2, <2>5, <2>7 DEF ExecutedWell
<1>c. CASE Polled(p, q)
  <2>1. PICK a, act, s : /\ act = (IF r.suspend THEN n ELSE p.am.activeRequest)
                         /\ a = [p.am EXCEPT !.push = "publish", !.activeRequest = act] /\ s = Polling(r, n)
    OBVIOUS
  <2>2. q.am = a /\ q.reqs = [p.reqs EXCEPT ![p.am.request] = s] /\ q.conns = Open(p, "xhr", r) /\ q.failed = p.failed
    BY <2>1, <1>1, <1>c DEF Polled
  <2>3. AmOK(a) /\ a.push = "publish" /\ a.socketRequest = p.am.socketRequest
    BY <1>3, <2>1 DEF AmOK, IsAm
  <2>4. AddedTo(p.conns, Opened(p, "xhr", Current(p)), q.conns)
    BY <1>1, <2>2, OpenAdds
  <2>5. SameRequests(p, q)
    BY <1>1, <1>2, <2>1, <2>2, CurrentChanges
  <2>6. browser \in {"standard"} \/ Current(p).transport # "streaming"
    BY <1>c DEF Polled
  <2>7. Proper(q, X, browser, l)
    <3>1. PICK kind : kind = "xhr"
      OBVIOUS
    <3>2. AddedTo(p.conns, Opened(p, kind, Current(p)), q.conns) /\ kind \in {"xhr", "frame", "socket"}
      BY <2>4, <3>1
    <3>3. AmOK(q.am) /\ q.am.socketRequest \in {0} \cup DOMAIN q.reqs /\ q.am.push # "socket" /\ q.failed = p.failed
      BY <1>3, <2>2, <2>3, <2>5 DEF SameRequests
    <3>4. kind = "xhr" => Current(p).transport # "websocket" /\ (Current(p).transport = "streaming" => browser = "standard")
      BY <2>6
    <3> QED BY <3>2, <3>3, <3>4, <2>5, OpenedProper
  <2> QED BY <1>1, <2>2, <2>4, <2>7 DEF ExecutedWell, AddedTo
<1> QED BY <1>a, <1>b, <1>c, ExecuteIs

LEMMA WebSocketProper ==
  ASSUME NEW p, Sound(p), p.am.request \in DOMAIN p.reqs, NEW b, NEW l, Proper(p, {}, b, l),
         Unused(p), NEW q, q = executeWebSocket(p)
  PROVE  Proper(q, {}, b, l)
<1>1. PICK a, kind : /\ a = [p.am EXCEPT !.push = "socket", !.socketRequest = p.am.request, !.websocket = Len(p.conns) + 1]
                     /\ kind = "socket"
  OBVIOUS
<1>2. q = [am |-> a, reqs |-> p.reqs, conns |-> Open(p, kind, Current(p)), failed |-> p.failed]
  BY <1>1 DEF executeWebSocket, Sound, IsPage
<1>3. q.am = a /\ q.reqs = p.reqs /\ q.conns = Open(p, kind, Current(p)) /\ q.failed = p.failed
  BY <1>2
<1>4. AmOK(a) /\ a.socketRequest = p.am.request
  <2>1. AmOK(p.am) /\ IsAm(p.am)
    BY DEF Proper, Contents, Sound, IsPage
  <2> QED BY <1>1, <2>1 DEF AmOK, IsAm
<1>5. AddedTo(p.conns, Opened(p, kind, Current(p)), q.conns)
  BY <1>3, OpenAdds
<1>6. SameRequests(p, q)
  BY <1>3 DEF SameRequests, Proper, Contents
<1>7. MayOpen(p, {})
  BY DEF MayOpen, Unused
<1>8. /\ AmOK(q.am) /\ q.am.socketRequest \in {0} \cup DOMAIN q.reqs /\ q.am.socketRequest = p.am.request
      /\ kind \in {"xhr", "frame", "socket"} /\ kind # "xhr" /\ kind = "socket" /\ q.failed = p.failed
  BY <1>1, <1>3, <1>4
<1> QED BY <1>5, <1>6, <1>7, <1>8, OpenedProper

\* The connections are there, for the same requests.
SameWays(p, q) ==
  /\ DOMAIN q.conns = DOMAIN p.conns /\ q.am = p.am /\ q.reqs = p.reqs /\ q.failed = p.failed
  /\ \A y \in DOMAIN p.conns : q.conns[y].request = p.conns[y].request

LEMMA FinishProper ==
  ASSUME NEW p, Sound(p), NEW X, NEW b, NEW l, Proper(p, X, b, l), NEW x \in DOMAIN p.conns,
         NEW phase \in {"done", "aborted"}, NEW q, q = FinishConnection(p, x, phase)
  PROVE  Proper(q, X, b, l) /\ Proper(q, X \ {x}, b, l) /\ SameWays(p, q)
<1>1. PICK c, d : c = p.conns[x] /\ d = Over(c, phase)
  OBVIOUS
<1>2. q = [p EXCEPT !.conns[x] = d]
  BY <1>1 DEF FinishConnection
<1>3. ConnectionOK(c, p.reqs[c.request], b)
  BY <1>1 DEF Proper, Contents
<1>4. /\ ConnectionOK(d, p.reqs[c.request], b) /\ TextOK(d.text, l) /\ ~IsOpen(d) /\ d.request = c.request
      /\ d.kind = c.kind /\ d.data = c.data /\ d.timer = c.timer
  BY <1>1, <1>3, OverOK
<1>5. Proper(q, X, b, l) /\ Proper(q, X \ {x}, b, l)
  BY <1>1, <1>2, <1>4, ConnectionProper
<1>6. IsConnection(d)
  BY <1>1, OverIsConnection DEF Sound, IsPage
<1>7. /\ q.am = p.am /\ q.reqs = p.reqs /\ q.failed = p.failed /\ q.conns[x] = d
      /\ DOMAIN q.conns = DOMAIN p.conns
      /\ \A y \in DOMAIN p.conns : y # x => q.conns[y] = p.conns[y]
  BY <1>1, <1>2, <1>4, <1>6, ConnectionChanges
<1> QED BY <1>1, <1>4, <1>5, <1>7 DEF SameWays

LEMMA AbortProper ==
  ASSUME NEW p, Sound(p), NEW X, NEW b, NEW l, Proper(p, X, b, l), NEW x \in {0} \cup DOMAIN p.conns,
         NEW q, q = Abort(p, x)
  PROVE  Proper(q, X, b, l) /\ SameWays(p, q)
<1>1. CASE q = p
  BY <1>1 DEF SameWays
<1>2. CASE q # p
  <2>1. x \in DOMAIN p.conns /\ q = FinishConnection(p, x, "aborted")
    BY <1>2 DEF Abort, FinishConnection
  <2>2. PICK phase : phase = "aborted"
    OBVIOUS
  <2>3. phase \in {"done", "aborted"} /\ q = FinishConnection(p, x, phase)
    BY <2>1, <2>2
  <2> QED BY <2>1, <2>3, FinishProper
<1> QED BY <1>1, <1>2

LEMMA ClearProper ==
  ASSUME NEW p, Sound(p), NEW X, NEW b, NEW l, Proper(p, X, b, l), NEW x \in {0} \cup DOMAIN p.conns,
         NEW q, q = clearTimeout(p, x)
  PROVE  Proper(q, X, b, l) /\ SameWays(p, q)
<1>1. CASE x = 0
  BY <1>1 DEF clearTimeout, SameWays
<1>2. CASE x # 0
  <2>1. PICK c, d, r : c = p.conns[x] /\ d = [c EXCEPT !.timer = FALSE] /\ r = p.reqs[c.request]
    OBVIOUS
  <2>2. q = [p EXCEPT !.conns[x] = d]
    BY <1>2, <2>1 DEF clearTimeout
  <2>3. ConnectionOK(c, r, b) /\ TextOK(c.text, l) /\ IsConnection(c)
    BY <1>2, <2>1 DEF Proper, Contents, Sound, IsPage
  <2>4. d = [kind |-> c.kind, request |-> c.request, transport |-> c.transport, data |-> c.data,
             phase |-> c.phase, answer |-> c.answer, text |-> c.text, read |-> c.read, timer |-> FALSE, told |-> c.told]
    BY <2>1, <2>3 DEF IsConnection
  <2>5. /\ d.kind = c.kind /\ d.request = c.request /\ d.transport = c.transport /\ d.data = c.data
        /\ d.phase = c.phase /\ d.answer = c.answer /\ d.text = c.text /\ d.read = c.read /\ ~d.timer /\ d.told = c.told
    BY <2>4
  <2>6. d \in Connection
    BY <2>1, <2>3 DEF ConnectionOK, Connection
  <2>7. ConnectionOK(d, r, b) /\ (IsOpen(d) => IsOpen(c))
    BY <2>3, <2>5, <2>6 DEF ConnectionOK, IsOpen, TellsOnce, Told
  <2>8. TextOK(d.text, l)
    BY <2>3, <2>5
  <2>9. x \in DOMAIN p.conns
    BY <1>2
  <2>10. Proper(q, X, b, l)
    <3>1. /\ ConnectionOK(d, p.reqs[p.conns[x].request], b)
          /\ d.request = p.conns[x].request /\ d.kind = p.conns[x].kind /\ d.data = p.conns[x].data
          /\ d.timer => p.conns[x].timer
          /\ IsOpen(d) => IsOpen(p.conns[x])
      BY <2>1, <2>5, <2>7
    <3> QED BY <3>1, <2>2, <2>8, <2>9, ConnectionProper
  <2>11. IsConnection(d)
    BY <2>4, <2>5 DEF IsConnection
  <2>12. /\ q.am = p.am /\ q.reqs = p.reqs /\ q.failed = p.failed /\ q.conns[x] = d
         /\ DOMAIN q.conns = DOMAIN p.conns
         /\ \A y \in DOMAIN p.conns : y # x => q.conns[y] = p.conns[y]
    BY <2>1, <2>2, <2>5, <2>9, <2>11, ConnectionChanges
  <2> QED BY <2>1, <2>5, <2>10, <2>12 DEF SameWays
<1> QED BY <1>1, <1>2

LEMMA CloseProper ==
  ASSUME NEW p, Sound(p), NEW X, NEW b, NEW l, Proper(p, X, b, l), Unused(p), NEW q, q = closeSuspendedConnection(p)
  PROVE  Proper(q, X, b, l) /\ Unused(q)
<1>1. PICK one, two : one = Abort(p, p.am.activeRequest) /\ two = Abort(one, p.am.websocket)
  OBVIOUS
<1>2. p.am.activeRequest \in {0} \cup DOMAIN p.conns /\ p.am.websocket \in {0} \cup DOMAIN p.conns
  BY DEF Sound, Wired
<1>3. Proper(one, X, b, l) /\ SameWays(p, one) /\ Sound(one)
  BY <1>1, <1>2, AbortProper, AbortDrops DEF Dropped
<1>4. Proper(two, X, b, l) /\ SameWays(one, two) /\ Sound(two)
  BY <1>1, <1>2, <1>3, AbortProper, AbortDrops DEF Dropped, SameWays
<1>5. PICK a : a = [two.am EXCEPT !.websocket = 0]
  OBVIOUS
<1>6. q = [am |-> a, reqs |-> two.reqs, conns |-> two.conns, failed |-> two.failed]
  BY <1>1, <1>4, <1>5 DEF closeSuspendedConnection, Sound, IsPage
<1>7. q.am = a /\ q.reqs = two.reqs /\ q.conns = two.conns /\ q.failed = two.failed
  BY <1>6
<1>8. AmOK(a) /\ a.push = two.am.push /\ a.socketRequest = two.am.socketRequest /\ a.request = two.am.request
  <2>1. AmOK(two.am) /\ IsAm(two.am)
    BY <1>4 DEF Proper, Contents, Sound, IsPage
  <2> QED BY <1>5, <2>1 DEF AmOK, IsAm
<1>9. Proper(q, X, b, l)
  BY <1>4, <1>7, <1>8, AmProper
<1>10. Unused(q)
  BY <1>3, <1>4, <1>7, <1>8 DEF Unused, SameWays
<1> QED BY <1>9, <1>10

\* subscribe, of a request that posts nothing.
LEMMA SubscribeProper ==
  ASSUME NEW p, Sound(p), NEW r, IsRequest(r), RequestOK(r), r.id \in {0} \cup DOMAIN p.conns,
         p.failed = {} => r.suspend, "downgrade" \notin p.failed => r.data = Absent,
         NEW l, Proper(p, {}, browser, l), NEW q, q = subscribe(p, r)
  PROVE  Proper(q, {}, browser, l)
<1>1. PICK new : new = NewRequest(p, r)
  OBVIOUS
<1>2. /\ Sound(new) /\ new.am.request \in DOMAIN new.reqs /\ Current(new) = r
      /\ Proper(new, {}, browser, l) /\ Unused(new)
  BY <1>1, NewRequestKeeps, NewRequestProper DEF Unused
<1>3. PICK one : one = IF r.transport # p.am.activeTransport THEN closeSuspendedConnection(new) ELSE new
  OBVIOUS
<1>4. /\ Sound(one) /\ one.am.request \in DOMAIN one.reqs /\ Current(one) = r
      /\ Proper(one, {}, browser, l) /\ Unused(one)
  <2>1. CASE one = closeSuspendedConnection(new)
    <3>1. Closed(new, one) /\ Proper(one, {}, browser, l) /\ Unused(one)
      BY <2>1, <1>2, CloseCloses, CloseProper
    <3> QED BY <3>1, <1>2 DEF Closed, Current
  <2>2. CASE one = new
    BY <2>2, <1>2
  <2> QED BY <2>1, <2>2, <1>3
<1>5. PICK a, on : a = [one.am EXCEPT !.activeTransport = r.transport]
                   /\ on = [one EXCEPT !.am.activeTransport = r.transport]
  OBVIOUS
<1>6. on = [am |-> a, reqs |-> one.reqs, conns |-> one.conns, failed |-> one.failed]
  BY <1>4, <1>5 DEF Sound, IsPage
<1>7. /\ IsAm(a) /\ a.request = one.am.request /\ a.activeRequest = one.am.activeRequest
      /\ a.websocket = one.am.websocket /\ a.push = one.am.push /\ a.socketRequest = one.am.socketRequest
      /\ a.subscribed = one.am.subscribed /\ a.callbacks = one.am.callbacks /\ a.activeTransport = r.transport
  BY <1>4, <1>5 DEF Sound, IsPage, IsAm
<1>8. AmChanged(one, a, on)
  BY <1>4, <1>6, <1>7, AmChanges DEF Sound, Wired
<1>9. AmOK(a)
  <2>1. AmOK(one.am) /\ r.transport \in Transport
    BY <1>4 DEF Proper, Contents, RequestOK, Request
  <2> QED BY <2>1, <1>7 DEF AmOK
<1>10. Proper(on, {}, browser, l)
  BY <1>4, <1>7, <1>8, <1>9, AmProper DEF AmChanged
<1>11. Sound(on) /\ on.am.request \in DOMAIN on.reqs /\ Current(on) = r /\ Unused(on)
  BY <1>4, <1>7, <1>8 DEF AmChanged, Current, Unused
<1>a. CASE r.transport # "websocket"
  <2>1. q = executeRequest(on)
    BY <1>a, <1>1, <1>3, <1>5 DEF subscribe
  <2>2. MayOpen(on, {})
    BY <1>11 DEF MayOpen, Unused
  <2> QED BY <2>1, <2>2, <1>a, <1>10, <1>11, ExecuteProper DEF ExecutedWell
<1>b. CASE r.transport = "websocket" /\ WebSockets
  <2>1. q = executeWebSocket(on)
    BY <1>b, <1>1, <1>3, <1>5 DEF subscribe
  <2> QED BY <2>1, <1>10, <1>11, WebSocketProper
<1>c. CASE r.transport = "websocket" /\ ~WebSockets
  <2>1. PICK back : back = [on EXCEPT !.reqs[on.am.request].transport = Fallback]
    OBVIOUS
  <2>2. q = executeRequest(back)
    BY <1>c, <1>1, <1>3, <1>5, <2>1 DEF subscribe
  <2>3. PICK i, e : i = on.am.request /\ e = [on.reqs[on.am.request] EXCEPT !.transport = Fallback]
    OBVIOUS
  <2>4. IsRequest(e) /\ e.suspend = on.reqs[i].suspend /\ e.id = on.reqs[i].id /\ i \in DOMAIN on.reqs
        /\ e.data = on.reqs[i].data
    BY <1>11, <2>3 DEF Sound, IsPage, IsRequest
  <2>5. back = [on EXCEPT !.reqs[i] = e]
    BY <2>1, <2>3
  <2>6. /\ Sound(back) /\ back.am = on.am /\ back.failed = on.failed /\ back.conns = on.conns
        /\ back.reqs[i] = e /\ DOMAIN back.reqs = DOMAIN on.reqs
        /\ \A k \in DOMAIN on.reqs : k # i => back.reqs[k] = on.reqs[k]
    BY <1>11, <2>4, <2>5, RequestChanges
  <2>7. Unused(back) /\ Current(back) = e /\ back.am.request \in DOMAIN back.reqs
    BY <1>11, <2>3, <2>6 DEF Unused, Current
  <2>8. RequestOK(e) /\ e.transport # "websocket"
    <3>1. on.reqs[i] = r
      BY <1>11, <2>3 DEF Current
    <3>2. Fallback \in Transport /\ Fallback # "polling" /\ Fallback # "websocket"
      BY TransportsAreKnown DEF Transport
    <3>3. e.transport = Fallback /\ e \in Request
      BY <2>3, <3>1, <3>2 DEF RequestOK, Request
    <3> QED BY <3>2, <3>3 DEF RequestOK
  <2>9. Proper(back, {}, browser, l)
    <3>1. \A x \in DOMAIN on.conns : on.conns[x].request \in DOMAIN on.reqs /\ on.conns[x].request # i
      BY <1>11, <2>3 DEF Unused, Sound, Wired
    <3>2. Contents(back, browser, l)
      BY <1>10, <2>6, <2>8, <3>1 DEF Proper, Contents
    <3>3. Alone(back, {}) /\ SocketAlone(back)
      BY <1>10, <2>6 DEF Proper, Alone, SocketAlone
    <3>4. \A k \in DOMAIN on.reqs : back.reqs[k].suspend = on.reqs[k].suspend /\ back.reqs[k].data = on.reqs[k].data
      BY <2>4, <2>6
    <3>5. Posts(back)
      BY <1>10, <2>6, <3>1, <3>4 DEF Proper, Posts, PostedOf
    <3> QED BY <3>2, <3>3, <3>5 DEF Proper
  <2>10. MayOpen(back, {})
    BY <2>7 DEF MayOpen, Unused
  <2> QED BY <2>2, <2>6, <2>7, <2>8, <2>9, <2>10, ExecuteProper DEF ExecutedWell
<1> QED BY <1>a, <1>b, <1>c

\* publish, of a message that is not posted yet.
LEMMA PublishProper ==
  ASSUME NEW p, Sound(p), NEW r, IsRequest(r), RequestOK(r), r.id \in {0} \cup DOMAIN p.conns,
         p.failed = {} /\ r.id # 0 => r.suspend, r.data # Absent,
         "downgrade" \notin p.failed => ~r.suspend /\ \A k \in DOMAIN p.reqs : p.reqs[k].data # r.data,
         NEW l, Proper(p, {}, browser, l), NEW q, q = publish(p, r)
  PROVE  Proper(q, {}, browser, l)
<1>1. PICK e, new : e = [r EXCEPT !.transport = "polling"] /\ new = NewRequest(p, e)
  OBVIOUS
<1>2. IsRequest(e) /\ e.id = r.id /\ e.suspend = r.suspend /\ e.data = r.data /\ e.transport = "polling"
  BY <1>1 DEF IsRequest
<1>3. RequestOK(e)
  <2>1. "polling" \in Transport
    BY DEF Transport
  <2> QED BY <1>1, <1>2, <2>1 DEF RequestOK, Request
<1>4. Sound(new) /\ new.am.request \in DOMAIN new.reqs /\ Current(new) = e
  <2>1. e.id \in {0} \cup DOMAIN p.conns /\ (p.failed = {} /\ e.id # 0 => e.suspend)
    BY <1>2
  <2>2. IsRequest(e) /\ new = NewRequest(p, e)
    BY <1>1, <1>2
  <2> QED BY <2>1, <2>2, NewRequestKeeps
<1>5. Proper(new, {}, browser, l) /\ Unused(new)
  <2>1. "downgrade" \notin p.failed /\ e.data # Absent =>
          ~e.suspend /\ \A k \in DOMAIN p.reqs : p.reqs[k].data # e.data
    BY <1>2
  <2>2. new = NewRequest(p, e)
    BY <1>1
  <2> QED BY <2>1, <2>2, <1>3, NewRequestProper DEF Unused
<1>6. q = executeRequest(new)
  BY <1>1 DEF publish
<1>7. MayOpen(new, {})
  BY <1>5 DEF MayOpen, Unused
<1> QED BY <1>2, <1>4, <1>5, <1>6, <1>7, ExecuteProper DEF ExecutedWell

(* What is told. *)

\* body is what t has beyond k and up to n
Piece(t, k, n, body) == \A j \in DOMAIN body : \E i \in DOMAIN t : k < i /\ i <= n /\ t[i] = body[j]

LEMMA PieceOf ==
  ASSUME NEW S, NEW t \in Seq(S), NEW a \in Nat, NEW n \in 0 .. Len(t), NEW body, body = SubSeq(t, a + 1, n)
  PROVE  Piece(t, a, n, body)
<1>1. body = [j \in 1 .. (1 + n - (a + 1)) |-> t[j + (a + 1) - 1]]
  OBVIOUS
<1> SUFFICES ASSUME NEW j \in DOMAIN body
             PROVE  \E i \in DOMAIN t : a < i /\ i <= n /\ t[i] = body[j]
  BY DEF Piece
<1>2. j \in 1 .. (n - a) /\ body[j] = t[j + a]
  BY <1>1
<1>3. j + a \in 1 .. Len(t) /\ a < j + a /\ j + a <= n
  BY <1>2
<1> QED BY <1>2, <1>3

Telling(told, body, callbacks) ==
  [m \in Msg |-> IF \E i \in DOMAIN body : body[i] = m THEN Count(told[m] + callbacks) ELSE told[m]]

LEMMA TellingCounts ==
  ASSUME NEW told, told \in [Msg -> 0 .. 2], NEW body, NEW callbacks \in 0 .. 1
  PROVE  /\ Telling(told, body, callbacks) \in [Msg -> 0 .. 2]
         /\ \A m \in Msg : \/ Telling(told, body, callbacks)[m] = told[m]
                           \/ /\ \E i \in DOMAIN body : body[i] = m
                              /\ told[m] = 0 => Telling(told, body, callbacks)[m] \in {0, 1}
<1>1. PICK t : t = Telling(told, body, callbacks)
  OBVIOUS
<1>2. DOMAIN t = Msg /\ t = [m \in Msg |-> t[m]]
  BY <1>1 DEF Telling
<1>3. ASSUME NEW m \in Msg
      PROVE  /\ t[m] \in 0 .. 2
             /\ \/ t[m] = told[m]
                \/ (\E i \in DOMAIN body : body[i] = m) /\ (told[m] = 0 => t[m] \in {0, 1})
  <2>1. PICK v : v = told[m]
    OBVIOUS
  <2>2. v \in 0 .. 2
    BY <2>1
  <2>3. Count(v + callbacks) \in 0 .. 2 /\ (v = 0 => Count(v + callbacks) \in {0, 1})
    BY <2>2 DEF Count
  <2>4. t[m] = IF \E i \in DOMAIN body : body[i] = m THEN Count(v + callbacks) ELSE v
    BY <1>1, <2>1 DEF Telling
  <2> QED BY <2>1, <2>2, <2>3, <2>4
<1>4. t \in [Msg -> 0 .. 2]
  BY <1>2, <1>3
<1> QED BY <1>1, <1>3, <1>4

\* What was told lies up to k, and what is told now beyond it.
LEMMA ToldOnce ==
  ASSUME NEW c, NEW l, c \in Connection, TextOK(c.text, l), NEW k \in Nat, NEW n \in Nat, TellsOnce(c, k), k <= n,
         NEW body, c.transport # "long-polling" => Piece(c.text, k, n, body),
         NEW callbacks \in 0 .. 1, NEW d, d.transport = c.transport, d.text = c.text,
         d.told = Telling(c.told, body, callbacks)
  PROVE  d.told \in [Msg -> 0 .. 2] /\ TellsOnce(d, n)
<1>1. PICK told, t, now : told = c.told /\ t = c.text /\ now = d.told
  OBVIOUS
<1>2. told \in [Msg -> 0 .. 2] /\ t \in Seq(Msg \cup {Junk})
  BY <1>1 DEF Connection
<1>3. /\ now \in [Msg -> 0 .. 2]
      /\ \A m \in Msg : \/ now[m] = told[m]
                        \/ (\E i \in DOMAIN body : body[i] = m) /\ (told[m] = 0 => now[m] \in {0, 1})
  BY <1>1, <1>2, TellingCounts
<1>4. \A i \in DOMAIN t : i \in Nat
  BY <1>2
<1>5. ASSUME c.transport # "long-polling", NEW m \in Msg, now[m] # 0
      PROVE  now[m] = 1 /\ \E i \in DOMAIN t : i <= n /\ t[i] = m
  <2>1. told[m] # 0 => told[m] = 1 /\ \E i \in DOMAIN t : i <= k /\ t[i] = m
    BY <1>1, <1>5 DEF TellsOnce
  <2>2. CASE now[m] = told[m]
    BY <1>4, <1>5, <2>1, <2>2
  <2>3. CASE now[m] # told[m]
    <3>1. PICK j \in DOMAIN body : body[j] = m
      BY <1>3, <2>3
    <3>2. PICK i \in DOMAIN t : k < i /\ i <= n /\ t[i] = m
      BY <1>1, <1>5, <3>1 DEF Piece
    <3>3. told[m] = 0
      <4>1. SUFFICES ASSUME told[m] # 0 PROVE FALSE
        OBVIOUS
      <4>2. PICK h \in DOMAIN t : h <= k /\ t[h] = m
        BY <2>1, <4>1
      <4>3. h = i
        BY <1>1, <3>2, <4>2, NoMessageIsJunk DEF TextOK
      <4> QED BY <1>4, <3>2, <4>2, <4>3
    <3> QED BY <1>3, <1>5, <2>3, <3>2, <3>3
  <2> QED BY <2>2, <2>3
<1> QED BY <1>1, <1>3, <1>5 DEF TellsOnce

LEMMA InvokeIs ==
  ASSUME NEW p, NEW x, NEW body
  PROVE  invokeCallback(p, x, body) = [p EXCEPT !.conns[x].told = Telling(p.conns[x].told, body, p.am.callbacks)]
  BY DEF invokeCallback, Telling

\* Update, of an open poll that is its request's only stream.
UpdateMay(p, x) ==
  /\ OpenPoll(p.conns[x]) /\ p.conns[x].read <= Len(p.conns[x].text)
  /\ \A y \in DOMAIN p.conns :
       y # x /\ OpenPoll(p.conns[y]) /\ p.conns[y].request = p.conns[x].request =>
         p.conns[y].transport # "streaming"

\* An XMLHttpRequest that posts is never answered with messages; one that
\* does not and is not a long poll is a stream.
LEMMA PostTellsNothing ==
  ASSUME NEW c, NEW r, NEW b, ConnectionOK(c, r, b), c.kind = "xhr",
         c.transport \notin {"long-polling", "streaming"}
  PROVE  c.text = <<>> /\ \A m \in Msg : c.told[m] = 0
<1>1. c.transport \in Transport
  BY DEF ConnectionOK, Connection
<1>2. c.transport = "polling"
  BY <1>1, TransportsAreKnown DEF ConnectionOK, Transport
<1>3. c.text = <<>>
  BY <1>2 DEF ConnectionOK
<1>4. DOMAIN c.text = {}
  BY <1>3
<1>5. TellsOnce(c, Told(c, r))
  BY DEF ConnectionOK
<1> QED BY <1>2, <1>3, <1>4, <1>5 DEF TellsOnce

LEMMA StreamedProper ==
  ASSUME NEW p, Sound(p), NEW X, NEW b, NEW l, Proper(p, X, b, l), NEW x \in DOMAIN p.conns, UpdateMay(p, x),
         NEW q, q = Streamed(p, x)
  PROVE  /\ Proper(q, X, b, l) /\ q.am = p.am /\ q.conns = p.conns /\ q.failed = p.failed
         /\ q.reqs[p.conns[x].request].lastIndex = p.conns[x].read
<1>1. PICK i, d, c : i = p.conns[x].request /\ d = p.reqs[p.conns[x].request] /\ c = p.conns[x]
  OBVIOUS
<1>2. i \in DOMAIN p.reqs /\ IsRequest(d) /\ d = p.reqs[i] /\ RequestOK(d) /\ ConnectionOK(c, d, b) /\ TextOK(c.text, l)
  BY <1>1 DEF Sound, IsPage, Wired, Proper, Contents
<1>3. PICK e, read : read = c.read /\ e = [d EXCEPT !.lastIndex = read]
  OBVIOUS
<1>4. read \in Nat /\ read = c.read /\ c.read = p.conns[x].read
  BY <1>1, <1>2, <1>3 DEF ConnectionOK, Connection
<1>5. /\ IsRequest(e) /\ e.suspend = d.suspend /\ e.id = d.id /\ e.data = d.data
      /\ e.transport = d.transport /\ e.lastIndex = read
  BY <1>2, <1>3 DEF IsRequest
<1>6. RequestOK(e)
  BY <1>2, <1>3, <1>4, <1>5 DEF RequestOK, Request
<1>7. q = [p EXCEPT !.reqs[i] = e]
  BY <1>1, <1>2, <1>3 DEF Streamed
<1>8. /\ q.am = p.am /\ q.conns = p.conns /\ q.failed = p.failed /\ q.reqs[i] = e
      /\ DOMAIN q.reqs = DOMAIN p.reqs /\ \A k \in DOMAIN p.reqs : k # i => q.reqs[k] = p.reqs[k]
  BY <1>2, <1>5, <1>7, RequestChanges
<1>9. \A y \in DOMAIN p.conns : ConnectionOK(p.conns[y], q.reqs[p.conns[y].request], b)
  <2> TAKE y \in DOMAIN p.conns
  <2>1. PICK f, r, s : f = p.conns[y] /\ r = p.reqs[f.request] /\ s = q.reqs[f.request]
    OBVIOUS
  <2>2. ConnectionOK(f, r, b) /\ f.request \in DOMAIN p.reqs
    BY <2>1 DEF Proper, Contents, Sound, Wired
  <2>3. CASE f.request # i
    BY <1>8, <2>1, <2>2, <2>3
  <2>4. CASE f.request = i
    <3>1. r = d /\ s = e
      BY <1>2, <1>8, <2>1, <2>4
    <3>2. TellsOnce(f, Told(f, s))
      <4>1. TellsOnce(f, Told(f, r))
        BY <2>2 DEF ConnectionOK
      <4>2. CASE f.kind # "xhr"
        BY <4>1, <4>2 DEF Told
      <4>3. CASE f.kind = "xhr" /\ f.transport \notin {"long-polling", "streaming"}
        BY <2>2, <4>3, PostTellsNothing DEF TellsOnce
      <4>4. CASE f.kind = "xhr" /\ f.transport = "long-polling"
        BY <4>4 DEF TellsOnce
      <4>5. CASE f.kind = "xhr" /\ f.transport = "streaming" /\ ~IsOpen(f)
        <5>1. \A m \in Msg : f.told[m] = 0
          BY <2>2, <4>5 DEF ConnectionOK, Nothing
        <5> QED BY <5>1 DEF TellsOnce
      <4>6. CASE f.kind = "xhr" /\ f.transport = "streaming" /\ IsOpen(f)
        <5>1. f = c
          BY <1>1, <2>1, <2>4, <4>6 DEF UpdateMay, OpenPoll
        <5>2. Told(f, s) = read /\ Told(f, r) \in Nat /\ Told(f, r) <= read
          <6>1. d.lastIndex \in Nat
            BY <1>2 DEF RequestOK, Request
          <6> QED BY <1>4, <1>5, <3>1, <4>6, <5>1, <6>1 DEF Told
        <5>3. \A h \in DOMAIN f.text : h \in Nat
          BY <2>2 DEF ConnectionOK, Connection
        <5> QED BY <1>4, <4>1, <5>2, <5>3 DEF TellsOnce
      <4> QED BY <4>2, <4>3, <4>4, <4>5, <4>6
    <3>3. s.transport = r.transport
      BY <1>5, <3>1
    <3> QED BY <2>1, <2>2, <3>2, <3>3 DEF ConnectionOK
  <2> QED BY <2>3, <2>4
<1>10. Contents(q, b, l)
  BY <1>6, <1>8, <1>9 DEF Proper, Contents
<1>11. Alone(q, X) /\ SocketAlone(q)
  BY <1>8 DEF Proper, Alone, SocketAlone
<1>12. \A k \in DOMAIN p.reqs : q.reqs[k].suspend = p.reqs[k].suspend /\ q.reqs[k].data = p.reqs[k].data
  BY <1>2, <1>5, <1>8
<1>13. Posts(q)
  <2>1. \A y \in DOMAIN p.conns : p.conns[y].request \in DOMAIN p.reqs
    BY DEF Sound, Wired
  <2> QED BY <1>8, <1>12, <2>1 DEF Proper, Posts, PostedOf
<1>14. q.reqs[p.conns[x].request].lastIndex = p.conns[x].read
  BY <1>1, <1>4, <1>5, <1>8
<1> QED BY <1>8, <1>10, <1>11, <1>13, <1>14 DEF Proper

LEMMA UpdateProper ==
  ASSUME NEW p, Sound(p), NEW X, NEW l, Proper(p, X, browser, l), NEW x \in DOMAIN p.conns, UpdateMay(p, x),
         NEW q, q = Update(p, x)
  PROVE  Proper(q, X, browser, l)
<1>1. PICK c, r, body, s :
        /\ c = p.conns[x] /\ r = p.reqs[c.request] /\ body = Body(p, x)
        /\ s = IF RequestOf(p, x).transport = "streaming" THEN Streamed(p, x) ELSE p
  OBVIOUS
<1>2. /\ ConnectionOK(c, r, browser) /\ TextOK(c.text, l) /\ IsConnection(c) /\ c \in Connection
      /\ c.request \in DOMAIN p.reqs /\ RequestOK(r) /\ r = RequestOf(p, x)
      /\ c.kind = "xhr" /\ IsOpen(c) /\ c.read <= Len(c.text)
  BY <1>1 DEF Proper, Contents, Sound, IsPage, Wired, UpdateMay, OpenPoll, ConnectionOK, RequestOf
<1>3. c.read \in Nat /\ r.lastIndex \in Nat /\ c.text \in Seq(Msg \cup {Junk}) /\ Len(c.text) \in Nat
  BY <1>2 DEF Connection, RequestOK, Request
<1>4. /\ Sound(s) /\ Proper(s, X, browser, l) /\ s.am = p.am /\ s.conns = p.conns
      /\ (r.transport = "streaming" => s.reqs[c.request].lastIndex = c.read)
  BY <1>1, <1>2, StreamedProper, StreamedKeeps
<1>5. q \in {s, invokeCallback(s, x, body)}
  BY <1>1 DEF Update
<1>6. SUFFICES ASSUME q = invokeCallback(s, x, body) PROVE Proper(q, X, browser, l)
  BY <1>4, <1>5
<1>7. PICK t, d, k, n : /\ t = Telling(c.told, body, s.am.callbacks) /\ d = [c EXCEPT !.told = t]
                        /\ k = Told(c, r) /\ n = c.read
  OBVIOUS
<1>8. q = [s EXCEPT !.conns[x] = d]
  <2>1. q = [s EXCEPT !.conns[x].told = t]
    BY <1>1, <1>4, <1>6, <1>7, InvokeIs
  <2> QED BY <2>1, <1>1, <1>4, <1>7
<1>9. d = [kind |-> c.kind, request |-> c.request, transport |-> c.transport, data |-> c.data,
           phase |-> c.phase, answer |-> c.answer, text |-> c.text, read |-> c.read, timer |-> c.timer, told |-> t]
  BY <1>2, <1>7 DEF IsConnection
<1>10. /\ d.kind = c.kind /\ d.request = c.request /\ d.transport = c.transport /\ d.data = c.data
       /\ d.phase = c.phase /\ d.answer = c.answer /\ d.text = c.text /\ d.read = c.read
       /\ d.timer = c.timer /\ d.told = t
  BY <1>9
<1>11. k \in Nat /\ n \in Nat /\ k <= n /\ (c.transport = "streaming" => k <= r.lastIndex) /\ TellsOnce(c, k)
  BY <1>2, <1>3, <1>7 DEF Told, ConnectionOK
<1>12. c.transport = "streaming" => r.transport = "streaming"
  BY <1>2 DEF ConnectionOK
<1>13. \A j \in DOMAIN body : \E i \in DOMAIN c.text :
         i <= n /\ c.text[i] = body[j] /\ (r.transport = "streaming" => r.lastIndex < i)
  <2>1. PICK a : a = IF r.transport = "streaming" THEN r.lastIndex ELSE 0
    OBVIOUS
  <2>2. body = SubSeq(c.text, a + 1, n)
    <3>1. (IF r.transport = "streaming" THEN r.lastIndex + 1 ELSE 1) = a + 1
      BY <2>1
    <3>2. body = SubSeq(p.conns[x].text, IF RequestOf(p, x).transport = "streaming"
                                         THEN RequestOf(p, x).lastIndex + 1 ELSE 1, p.conns[x].read)
      BY <1>1, Zenon DEF Body
    <3> QED BY <3>1, <3>2, <1>1, <1>2, <1>7, Zenon
  <2>3. a \in Nat /\ n \in 0 .. Len(c.text)
    BY <1>2, <1>3, <1>7, <2>1
  <2>4. \A j \in DOMAIN body : \E i \in DOMAIN c.text : a < i /\ i <= n /\ c.text[i] = body[j]
    <3>1. PICK text, S : text = c.text /\ S = Msg \cup {Junk}
      OBVIOUS
    <3>2. text \in Seq(S) /\ a \in Nat /\ n \in 0 .. Len(text)
      BY <1>3, <2>3, <3>1
    <3>3. body = SubSeq(text, a + 1, n)
      BY <2>2, <3>1, Zenon
    <3>4. Piece(text, a, n, body)
      BY <3>2, <3>3, PieceOf
    <3> QED BY <3>1, <3>4 DEF Piece
  <2> QED BY <2>1, <2>4
<1>14. c.transport # "long-polling" => Piece(c.text, k, n, body)
  <2>1. CASE c.transport = "streaming"
    <3>1. \A i \in DOMAIN c.text : i \in Nat
      BY <1>3
    <3> QED BY <2>1, <3>1, <1>3, <1>11, <1>12, <1>13 DEF Piece
  <2>2. CASE c.transport \notin {"long-polling", "streaming"}
    <3>1. DOMAIN c.text = {}
      BY <2>2, <1>2, PostTellsNothing
    <3> QED BY <3>1, <1>13 DEF Piece
  <2> QED BY <2>1, <2>2
<1>15. t \in [Msg -> 0 .. 2] /\ TellsOnce(d, n)
  <2>1. s.am.callbacks \in 0 .. 1
    BY <1>4 DEF Proper, Contents, AmOK
  <2>2. d.transport = c.transport /\ d.text = c.text /\ d.told = Telling(c.told, body, s.am.callbacks)
    BY <1>7, <1>10
  <2>3. d.told \in [Msg -> 0 .. 2] /\ TellsOnce(d, n)
    BY <1>2, <1>11, <1>14, <2>1, <2>2, ToldOnce
  <2> QED BY <2>3, <1>10
<1>16. d \in Connection
  BY <1>2, <1>9, <1>15 DEF Connection
<1>17. d.answer = "none" => d.told = Nothing
  <2>1. SUFFICES ASSUME c.answer = "none" PROVE t = Nothing
    BY <1>10
  <2>2. DOMAIN c.text = {} /\ c.told = Nothing
    BY <2>1, <1>2 DEF ConnectionOK
  <2>3. DOMAIN body = {}
    BY <2>2, <1>13
  <2> QED BY <2>2, <2>3, <1>7 DEF Telling, Nothing
<1>18. PICK u : u = s.reqs[c.request]
  OBVIOUS
<1>19. ConnectionOK(c, u, browser)
  BY <1>1, <1>4, <1>18 DEF Proper, Contents
<1>20. TellsOnce(d, Told(d, u))
  <2>1. CASE r.transport = "streaming"
    <3>1. Told(d, u) = n
      BY <2>1, <1>2, <1>4, <1>7, <1>10, <1>18 DEF Told
    <3> QED BY <3>1, <1>15
  <2>2. CASE c.transport = "long-polling"
    BY <2>2, <1>10 DEF TellsOnce
  <2>3. CASE c.transport \notin {"long-polling", "streaming"}
    <3>1. DOMAIN c.text = {} /\ \A m \in Msg : c.told[m] = 0
      BY <2>3, <1>2, PostTellsNothing
    <3>2. DOMAIN body = {}
      BY <3>1, <1>13
    <3>3. \A m \in Msg : d.told[m] = 0
      BY <3>1, <3>2, <1>7, <1>10 DEF Telling
    <3> QED BY <3>3 DEF TellsOnce
  <2> QED BY <2>1, <2>2, <2>3, <1>12
<1>21. ConnectionOK(d, u, browser) /\ (IsOpen(d) => IsOpen(c))
  BY <1>10, <1>16, <1>17, <1>19, <1>20 DEF ConnectionOK, IsOpen
<1>22. /\ ConnectionOK(d, s.reqs[s.conns[x].request], browser) /\ TextOK(d.text, l) /\ x \in DOMAIN s.conns
       /\ d.request = s.conns[x].request /\ d.kind = s.conns[x].kind /\ d.data = s.conns[x].data
       /\ (d.timer => s.conns[x].timer) /\ (IsOpen(d) => IsOpen(s.conns[x]))
  BY <1>1, <1>2, <1>4, <1>10, <1>18, <1>21
<1>23. Sound(s) /\ Proper(s, X, browser, l)
  BY <1>4
<1> QED BY <1>8, <1>22, <1>23, ConnectionProper, Zenon

\* Reconnect: until its old poll is done, a request may have two.
LEMMA ReconnectProper ==
  ASSUME NEW p, Sound(p), NEW l, Proper(p, {}, browser, l), NEW x \in DOMAIN p.conns, OpenPoll(p.conns[x]),
         NEW q, q = Reconnect(p, x)
  PROVE  Proper(q, {x}, browser, l) /\ \A y \in DOMAIN p.conns : q.conns[y] = p.conns[y]
<1>1. PICK i, a, back : /\ i = p.conns[x].request /\ a = [p.am EXCEPT !.request = i]
                        /\ back = [p EXCEPT !.am.request = p.conns[x].request]
  OBVIOUS
<1>2. i \in DOMAIN p.reqs
  BY <1>1 DEF Sound, Wired
<1>3. back = [am |-> a, reqs |-> p.reqs, conns |-> p.conns, failed |-> p.failed]
  BY <1>1 DEF Sound, IsPage
<1>4. /\ IsAm(a) /\ a.request = i /\ a.activeRequest = p.am.activeRequest
      /\ a.websocket = p.am.websocket /\ a.push = p.am.push /\ a.socketRequest = p.am.socketRequest
      /\ a.subscribed = p.am.subscribed /\ a.callbacks = p.am.callbacks /\ a.activeTransport = p.am.activeTransport
  BY <1>1 DEF Sound, IsPage, IsAm
<1>5. AmChanged(p, a, back)
  BY <1>2, <1>3, <1>4, AmChanges DEF Sound, Wired
<1>6. AmOK(a)
  BY <1>4 DEF Proper, Contents, AmOK
<1>7. Proper(p, {x}, browser, l)
  BY DEF Proper, Alone
<1>8. /\ Proper(back, {x}, browser, l) /\ Sound(back) /\ back.am.request = i /\ i \in DOMAIN back.reqs
      /\ Current(back) = p.reqs[i] /\ back.conns = p.conns /\ back.failed = p.failed
  BY <1>2, <1>4, <1>5, <1>6, <1>7, AmProper DEF AmChanged, Current
<1>a. CASE ~p.reqs[i].suspend
  <2>1. q = back
    BY <1>a, <1>1 DEF Reconnect, RequestOf
  <2> QED BY <2>1, <1>8
<1>b. CASE p.reqs[i].suspend /\ p.conns[x].answer = "ok"
  <2>1. q = executeRequest(back)
    BY <1>b, <1>1 DEF Reconnect, RequestOf
  <2>2. MayOpen(back, {x})
    BY <1>1, <1>8, <1>b DEF MayOpen, Proper, Alone
  <2>3. Current(back).transport # "websocket"
    BY <1>1, <1>8, ZenonT(40) DEF Proper, Contents, ConnectionOK, OpenPoll
  <2> QED BY <2>1, <2>2, <2>3, <1>8, ExecuteProper DEF ExecutedWell
<1>c. CASE p.reqs[i].suspend /\ p.conns[x].answer # "ok"
  <2>1. q = Fail(back, "refused")
    BY <1>c, <1>1 DEF Reconnect, RequestOf
  <2>2. q.am = back.am /\ q.reqs = back.reqs /\ q.conns = back.conns /\ q.failed = back.failed \cup {"refused"}
    BY <2>1, <1>8 DEF Fail, Sound, IsPage
  <2>3. q.failed \subseteq {"budget", "refused", "lost", "socket", "downgrade"}
    BY <2>2, <1>8 DEF Proper, Contents
  <2> QED BY <2>2, <2>3, <1>8, FailProper
<1> QED BY <1>a, <1>b, <1>c

\* A downgraded socket's request becomes that of a poll, and of a post.
LEMMA DowngradeProper ==
  ASSUME NEW p, Sound(p), p.am.push = "socket", NEW l, Proper(p, {}, browser, l), NEW m \in Msg,
         NEW q, q = Downgrade(p, m)
  PROVE  Proper(q, {}, browser, l)
<1>1. PICK i, lost, a, e, back, next :
        /\ i = p.am.socketRequest /\ lost = Fail(p, "downgrade")
        /\ a = [lost.am EXCEPT !.request = i] /\ e = [lost.reqs[i] EXCEPT !.transport = Fallback]
        /\ back = [lost EXCEPT !.am = a]
        /\ next = [lost EXCEPT !.am.request = i, !.reqs[i].transport = Fallback]
  OBVIOUS
<1>2. /\ Sound(lost) /\ lost.failed # {} /\ lost.am = p.am /\ lost.reqs = p.reqs /\ lost.conns = p.conns
      /\ i \in DOMAIN lost.reqs /\ lost.failed = p.failed \cup {"downgrade"}
  <2>1. Sound(lost) /\ lost.failed # {} /\ lost.am = p.am /\ lost.reqs = p.reqs /\ lost.conns = p.conns
    BY <1>1, FailKeeps
  <2>2. i \in DOMAIN p.reqs
    BY <1>1 DEF Sound, Wired
  <2>3. lost.failed = p.failed \cup {"downgrade"}
    BY <1>1 DEF Fail, Sound, IsPage
  <2> QED BY <2>1, <2>2, <2>3
<1>3. Proper(lost, {}, browser, l)
  <2>1. lost.failed \subseteq {"budget", "refused", "lost", "socket", "downgrade"}
    BY <1>2 DEF Proper, Contents
  <2> QED BY <2>1, <1>2, FailProper
<1>4. back = [am |-> a, reqs |-> lost.reqs, conns |-> lost.conns, failed |-> lost.failed]
  BY <1>1, <1>2 DEF Sound, IsPage
<1>5. /\ IsAm(a) /\ a.request = i /\ a.activeRequest = lost.am.activeRequest
      /\ a.websocket = lost.am.websocket /\ a.push = lost.am.push /\ a.socketRequest = lost.am.socketRequest
      /\ a.subscribed = lost.am.subscribed /\ a.callbacks = lost.am.callbacks
      /\ a.activeTransport = lost.am.activeTransport
  BY <1>1, <1>2 DEF Sound, IsPage, IsAm
<1>6. AmChanged(lost, a, back)
  BY <1>2, <1>4, <1>5, AmChanges DEF Sound, Wired
<1>7. Proper(back, {}, browser, l)
  <2>1. AmOK(a)
    BY <1>3, <1>5 DEF Proper, Contents, AmOK
  <2> QED BY <2>1, <1>3, <1>5, <1>6, AmProper DEF AmChanged
<1>8. /\ IsRequest(e) /\ e.id = lost.reqs[i].id /\ e.transport = Fallback /\ e.data = lost.reqs[i].data
      /\ RequestOK(e) /\ Fallback # "websocket"
  <2>1. PICK d : d = lost.reqs[i]
    OBVIOUS
  <2>2. IsRequest(d) /\ RequestOK(d)
    BY <2>1, <1>2, <1>3 DEF Sound, IsPage, Proper, Contents
  <2>3. Fallback \in Transport /\ Fallback # "polling" /\ Fallback # "websocket"
    BY TransportsAreKnown DEF Transport
  <2>4. e = [transport |-> Fallback, suspend |-> d.suspend, requestCount |-> d.requestCount,
             lastIndex |-> d.lastIndex, id |-> d.id, data |-> d.data]
    BY <1>1, <2>1, <2>2 DEF IsRequest
  <2>5. RequestOK(e)
    BY <2>2, <2>3, <2>4 DEF RequestOK, Request
  <2> QED BY <2>1, <2>3, <2>4, <2>5 DEF IsRequest
<1>9. next = [back EXCEPT !.reqs[i] = e]
  BY <1>1, <1>2, <1>4 DEF Sound, IsPage
<1>10. /\ Sound(next) /\ next.failed = lost.failed /\ next.am = a /\ DOMAIN next.reqs = DOMAIN lost.reqs
       /\ next.conns = lost.conns
  <2>1. /\ Sound(back) /\ back.failed = lost.failed /\ back.failed # {} /\ back.am = a
        /\ back.reqs = lost.reqs /\ back.conns = lost.conns /\ i \in DOMAIN back.reqs
    BY <1>2, <1>6 DEF AmChanged
  <2>2. IsRequest(e) /\ e.id = back.reqs[i].id
    BY <1>8, <2>1
  <2>3. Sound(next) /\ next.am = back.am /\ next.failed = back.failed /\ DOMAIN next.reqs = DOMAIN back.reqs
        /\ next.conns = back.conns
    BY <2>1, <2>2, <1>9, LostRequestChanges
  <2> QED BY <2>1, <2>3
<1>11. next.reqs[i] = e /\ \A k \in DOMAIN lost.reqs : k # i => next.reqs[k] = lost.reqs[k]
  <2>1. next.reqs = [lost.reqs EXCEPT ![i] = e]
    BY <1>4, <1>9
  <2> QED BY <2>1, <1>2, Replaced DEF Sound, IsPage
<1>12. \A x \in DOMAIN lost.conns : lost.conns[x].request = i => lost.conns[x].kind = "socket"
  BY <1>1, <1>2 DEF Proper, SocketAlone
<1>13. Proper(next, {}, browser, l)
  <2>1. \A x \in DOMAIN lost.conns : ConnectionOK(lost.conns[x], next.reqs[lost.conns[x].request], browser)
    <3> TAKE x \in DOMAIN lost.conns
    <3>1. PICK c : c = lost.conns[x]
      OBVIOUS
    <3>2. ConnectionOK(c, lost.reqs[c.request], browser) /\ c.request \in DOMAIN lost.reqs
      BY <1>2, <1>3, <3>1 DEF Proper, Contents, Sound, Wired
    <3>3. CASE c.request # i
      BY <3>1, <3>2, <3>3, <1>11
    <3>4. CASE c.request = i
      <4>1. c.kind = "socket"
        BY <3>1, <3>4, <1>12
      <4> QED BY <3>1, <3>2, <4>1 DEF ConnectionOK, Told
    <3> QED BY <3>3, <3>4
  <2>2. \A k \in DOMAIN next.reqs : RequestOK(next.reqs[k])
    BY <1>3, <1>8, <1>10, <1>11 DEF Proper, Contents
  <2>3. AmOK(next.am) /\ next.am.socketRequest \in {0} \cup DOMAIN next.reqs
    BY <1>6, <1>7, <1>10 DEF Proper, Contents, AmChanged
  <2>4. Contents(next, browser, l)
    BY <1>3, <1>10, <2>1, <2>2, <2>3 DEF Proper, Contents
  <2>5. Alone(next, {}) /\ SocketAlone(next)
    BY <1>3, <1>5, <1>10 DEF Proper, Alone, SocketAlone
  <2>6. Posts(next)
    BY <1>2, <1>10 DEF Posts
  <2> QED BY <2>4, <2>5, <2>6 DEF Proper
<1>14. PICK down : down = executeRequest(next)
  OBVIOUS
<1>15. /\ Sound(down) /\ "downgrade" \in down.failed /\ down.am.request = i /\ i \in DOMAIN down.reqs
       /\ DOMAIN next.conns \subseteq DOMAIN down.conns /\ Proper(down, {}, browser, l)
  <2>1. next.am.request = i /\ i \in DOMAIN next.reqs /\ Current(next) = e
    BY <1>2, <1>5, <1>10, <1>11 DEF Current
  <2>2. Executed(next, down)
    BY <1>10, <1>14, <2>1, ExecuteKeeps
  <2>3. MayOpen(next, {})
    BY <1>2, <1>10, <1>12, <2>1 DEF MayOpen, OpenPoll
  <2>4. ExecutedWell(next, down, {}, l)
    <3>1. Current(next).transport # "websocket"
      BY <1>8, <2>1
    <3> QED BY <1>10, <1>13, <1>14, <2>1, <2>3, <3>1, ExecuteProper
  <2> QED BY <2>1, <2>2, <2>4, <1>2, <1>10 DEF Executed, Keeps, Extends, ExecutedWell
<1>16. PICK f, post : /\ f = [down.reqs[i] EXCEPT !.suspend = FALSE, !.data = m]
                      /\ post = [down EXCEPT !.reqs[i].suspend = FALSE, !.reqs[i].data = m]
  OBVIOUS
<1>17. /\ IsRequest(f) /\ f.id = down.reqs[i].id /\ RequestOK(f) /\ f.data = m /\ m # Absent
       /\ f.transport = down.reqs[i].transport /\ f.lastIndex = down.reqs[i].lastIndex
  <2>1. PICK d : d = down.reqs[i]
    OBVIOUS
  <2>2. IsRequest(d) /\ RequestOK(d)
    BY <2>1, <1>15 DEF Sound, IsPage, Proper, Contents
  <2>3. f = [transport |-> d.transport, suspend |-> FALSE, requestCount |-> d.requestCount,
             lastIndex |-> d.lastIndex, id |-> d.id, data |-> m]
    BY <2>1, <2>2, <1>16 DEF IsRequest
  <2>4. m # Absent
    BY NoMessageIsJunk
  <2>5. RequestOK(f)
    BY <2>2, <2>3, <2>4 DEF RequestOK, Request
  <2> QED BY <2>1, <2>3, <2>4, <2>5 DEF IsRequest
<1>18. post = [down EXCEPT !.reqs[i] = f]
  BY <1>15, <1>16 DEF Sound, IsPage
<1>19. /\ Sound(post) /\ post.failed = down.failed /\ post.am = down.am /\ DOMAIN post.reqs = DOMAIN down.reqs
       /\ post.conns = down.conns
  BY <1>15, <1>17, <1>18, LostRequestChanges
<1>20. post.reqs[i] = f /\ \A k \in DOMAIN down.reqs : k # i => post.reqs[k] = down.reqs[k]
  <2>1. post.reqs = [down.reqs EXCEPT ![i] = f]
    BY <1>15, <1>18 DEF Sound, IsPage
  <2> QED BY <2>1, <1>15, Replaced DEF Sound, IsPage
<1>21. Proper(post, {}, browser, l)
  <2>1. \A k \in DOMAIN down.reqs : /\ RequestOK(post.reqs[k]) /\ post.reqs[k].transport = down.reqs[k].transport
                                    /\ post.reqs[k].lastIndex = down.reqs[k].lastIndex
    BY <1>15, <1>17, <1>20 DEF Proper, Contents
  <2>2. \A x \in DOMAIN down.conns : ConnectionOK(down.conns[x], post.reqs[down.conns[x].request], browser)
    <3>1. \A x \in DOMAIN down.conns : down.conns[x].request \in DOMAIN down.reqs
      BY <1>15 DEF Sound, Wired
    <3> QED BY <2>1, <3>1, <1>15, RequestsAlike DEF Proper, Contents
  <2>3. Contents(post, browser, l)
    BY <1>15, <1>19, <2>1, <2>2 DEF Proper, Contents
  <2>4. Alone(post, {}) /\ SocketAlone(post)
    BY <1>15, <1>19 DEF Proper, Alone, SocketAlone
  <2>5. Posts(post)
    BY <1>15, <1>19 DEF Posts
  <2> QED BY <2>3, <2>4, <2>5 DEF Proper
<1>22. PICK r, sent : r = Current(post) /\ sent = publish(post, r)
  OBVIOUS
<1>23. r = f /\ r.id \in {0} \cup DOMAIN post.conns
  BY <1>15, <1>19, <1>20, <1>22 DEF Current, Sound, Wired
<1>24. Sound(sent) /\ Keeps(post, sent) /\ Proper(sent, {}, browser, l)
  <2>1. /\ IsRequest(r) /\ RequestOK(r) /\ r.data # Absent /\ "downgrade" \in post.failed /\ post.failed # {}
    BY <1>15, <1>17, <1>19, <1>23
  <2> QED BY <1>19, <1>21, <1>22, <1>23, <2>1, PublishKeeps, PublishProper
<1>25. p.am.websocket \in {0} \cup DOMAIN sent.conns
  BY <1>2, <1>10, <1>15, <1>19, <1>24 DEF Keeps, Extends, Sound, Wired
<1>26. q = Abort(sent, p.am.websocket)
  BY <1>1, <1>14, <1>16, <1>22 DEF Downgrade
<1> QED BY <1>24, <1>25, <1>26, AbortProper

(* The steps. *)

LEMMA BecomesProper ==
  ASSUME NEW p, Proper(p, {}, browser, log), Becomes(p), LogOK(log, pending), UNCHANGED <<browser, log, pending>>
  PROVE  ClientSound'
<1>1. PICK q : q = Page'
  OBVIOUS
<1>2. q.am = p.am /\ q.reqs = p.reqs /\ q.conns = p.conns /\ q.failed = p.failed
  BY <1>1 DEF Becomes, Page
<1>3. p.failed \subseteq q.failed /\ q.failed \subseteq {"budget", "refused", "lost", "socket", "downgrade"}
  BY <1>2 DEF Proper, Contents
<1>4. Proper(q, {}, browser, log)
  BY <1>2, <1>3, FailProper
<1> QED BY <1>1, <1>4 DEF ClientSound

LEMMA CallbackAdded ==
  ASSUME NEW p, Sound(p), NEW X, NEW b, NEW l, Proper(p, X, b, l), NEW on, on = addCallback(p)
  PROVE  Sound(on) /\ Proper(on, X, b, l) /\ on.am.subscribed = p.am.subscribed
<1>1. CASE on = p
  BY <1>1
<1>2. CASE on # p
  <2>1. PICK a : a = [p.am EXCEPT !.callbacks = 1]
    OBVIOUS
  <2>2. on = [p EXCEPT !.am.callbacks = 1]
    BY <1>2 DEF addCallback
  <2>3. on = [am |-> a, reqs |-> p.reqs, conns |-> p.conns, failed |-> p.failed]
    BY <2>1, <2>2 DEF Sound, IsPage
  <2>4. /\ IsAm(a) /\ a.request = p.am.request /\ a.activeRequest = p.am.activeRequest
        /\ a.websocket = p.am.websocket /\ a.push = p.am.push /\ a.socketRequest = p.am.socketRequest
        /\ a.subscribed = p.am.subscribed /\ a.callbacks = 1 /\ a.activeTransport = p.am.activeTransport
    BY <2>1 DEF Sound, IsPage, IsAm
  <2>5. AmChanged(p, a, on)
    BY <2>3, <2>4, AmChanges DEF Sound, Wired
  <2>6. AmOK(a)
    BY <2>4 DEF Proper, Contents, AmOK
  <2> QED BY <2>4, <2>5, <2>6, AmProper DEF AmChanged
<1> QED BY <1>1, <1>2

LEMMA SubscribeSound ==
  ASSUME ClientInv, ClientSound, NEW t \in Transports, Subscribe(t)
  PROVE  ClientSound'
<1>1. PICK p, on, r, s : p = Page /\ on = addCallback(p) /\ r = FreshRequest(t, TRUE, Absent) /\ s = subscribe(on, r)
  OBVIOUS
<1>2. Sound(p) /\ Proper(p, {}, browser, log) /\ p.am.subscribed < MaxSubs
  BY <1>1 DEF ClientInv, ClientSound, Subscribe, Page
<1>3. Sound(on) /\ Proper(on, {}, browser, log) /\ on.am.subscribed = p.am.subscribed
  BY <1>1, <1>2, CallbackAdded
<1>4. IsRequest(r) /\ r.id = 0 /\ r.suspend /\ r.data = Absent /\ RequestOK(r)
  <2>1. r = [transport |-> t, suspend |-> TRUE, requestCount |-> 0, lastIndex |-> 0, id |-> 0, data |-> Absent]
    BY <1>1 DEF FreshRequest
  <2>2. t \in Transport /\ t # "polling"
    BY TransportsAreKnown DEF Transport
  <2>3. 0 \in 0 .. MaxRequest + 1
    BY ClientBoundsAreCounts
  <2>4. r \in Request
    BY <2>1, <2>2, <2>3 DEF Request
  <2> QED BY <2>1, <2>2, <2>4 DEF IsRequest, RequestOK
<1>5. Opens(on, s) /\ Proper(s, {}, browser, log)
  BY <1>1, <1>3, <1>4, SubscribeOpens, SubscribeProper
<1>6. PICK a, q : a = [s.am EXCEPT !.subscribed = @ + 1] /\ q = [s EXCEPT !.am.subscribed = @ + 1]
  OBVIOUS
<1>7. q = [am |-> a, reqs |-> s.reqs, conns |-> s.conns, failed |-> s.failed]
  BY <1>5, <1>6 DEF Opens, Sound, IsPage
<1>8. q.am = a /\ q.reqs = s.reqs /\ q.conns = s.conns /\ q.failed = s.failed
  BY <1>7
<1>9. /\ a.push = s.am.push /\ a.socketRequest = s.am.socketRequest /\ a.callbacks = s.am.callbacks
      /\ a.activeTransport = s.am.activeTransport /\ a.subscribed = s.am.subscribed + 1
  BY <1>5, <1>6 DEF Opens, Sound, IsPage, IsAm
<1>10. a.subscribed \in 0 .. MaxSubs
  <2>1. s.am.subscribed = p.am.subscribed
    BY <1>3, <1>5 DEF Opens, Extends
  <2>2. s.am.subscribed \in 0 .. MaxSubs /\ MaxSubs \in Nat
    BY <1>5, ClientBoundsAreCounts DEF Proper, Contents, AmOK
  <2> QED BY <1>2, <1>9, <2>1, <2>2
<1>11. Proper(q, {}, browser, log)
  <2>1. AmOK(a)
    BY <1>5, <1>9, <1>10 DEF Proper, Contents, AmOK
  <2> QED BY <2>1, <1>5, <1>8, <1>9, AmProper
<1>12. Becomes(q) /\ LogOK(log, pending) /\ UNCHANGED <<browser, log, pending>>
  BY <1>1, <1>6 DEF Subscribe, ClientSound, endpoint
<1> QED BY <1>11, <1>12, BecomesProper

PostRequest(r, m) ==
  IsRequest(r) /\ RequestOK(r) /\ r.id = 0 /\ ~r.suspend /\ r.data = m /\ m # Absent

LEMMA PostOK ==
  ASSUME NEW m \in Msg, NEW no, no = FALSE, NEW r, r = FreshRequest("polling", no, m)
  PROVE  PostRequest(r, m)
<1>1. PICK t, n : t = "polling" /\ n = 0
  OBVIOUS
<1>2. r = [transport |-> t, suspend |-> no, requestCount |-> n, lastIndex |-> n, id |-> n, data |-> m]
  BY <1>1 DEF FreshRequest
<1>3. /\ r.transport = t /\ r.suspend = no /\ r.requestCount = n /\ r.lastIndex = n
      /\ r.id = n /\ r.data = m
  BY <1>2
<1>4. t \in Transport /\ m # Absent /\ m \in Msg \cup {Absent} /\ no \in BOOLEAN
  BY <1>1, NoMessageIsJunk DEF Transport
<1>5. n \in 0 .. MaxRequest + 1 /\ n \in Nat
  BY <1>1, ClientBoundsAreCounts
<1>6. r \in Request
  BY <1>2, <1>4, <1>5 DEF Request
<1>7. IsRequest(r)
  BY <1>2, <1>3 DEF IsRequest
<1>8. RequestOK(r)
  BY <1>3, <1>4, <1>6 DEF RequestOK
<1>9. ~r.suspend /\ r.id = 0
  BY <1>1, <1>3
<1> QED BY <1>3, <1>4, <1>7, <1>8, <1>9 DEF PostRequest

LEMMA PublishSound ==
  ASSUME ClientInv, ClientSound, NEW m \in Msg, Publish(m)
  PROVE  ClientSound'
<1>1. PICK p, r, q : p = Page /\ r = FreshRequest("polling", FALSE, m) /\ q = publish(p, r)
  OBVIOUS
<1>2. Sound(p) /\ Proper(p, {}, browser, log) /\ \A k \in DOMAIN p.reqs : p.reqs[k].data # m
  BY <1>1 DEF ClientInv, ClientSound, Page, Publish, Unsent
<1>3. IsRequest(r) /\ RequestOK(r) /\ r.id = 0 /\ ~r.suspend /\ r.data = m /\ m # Absent
  BY <1>1, PostOK DEF PostRequest
<1>4. Proper(q, {}, browser, log)
  BY <1>1, <1>2, <1>3, PublishProper
<1>5. Becomes(q) /\ LogOK(log, pending) /\ UNCHANGED <<browser, log, pending>>
  BY <1>1 DEF Publish, ClientSound, endpoint
<1> QED BY <1>4, <1>5, BecomesProper

LEMMA Accepted ==
  ASSUME LogOK(log, pending), NEW m \in Msg, Endpoint!Accept(m)
  PROVE  LogOK(log, pending)' /\ log' = log
<1>1. log' = log /\ pending' = pending \cup {m} /\ \A i \in 1 .. Len(log) : log[i] # m
  BY DEF Endpoint!Accept, Endpoint!Occurs
<1>2. log \in Seq(Msg) /\ IsFiniteSet(pending)
  BY DEF LogOK
<1>3. DOMAIN log = 1 .. Len(log)
  BY <1>2
<1>4. IsFiniteSet(pending \cup {m})
  BY <1>2, FS_AddElement
<1> QED BY <1>1, <1>3, <1>4 DEF LogOK

LEMMA PushSocketSound ==
  ASSUME ClientInv, ClientSound, NEW m \in Msg, PushSocket(m)
  PROVE  ClientSound'
<1>1. PICK p, r, q : p = Page /\ r = FreshRequest("polling", FALSE, m) /\ q = NewRequest(p, r)
  OBVIOUS
<1>2. Sound(p) /\ Proper(p, {}, browser, log) /\ \A k \in DOMAIN p.reqs : p.reqs[k].data # m
  BY <1>1 DEF ClientInv, ClientSound, Page, PushSocket, Unsent
<1>3. IsRequest(r) /\ RequestOK(r) /\ r.id = 0 /\ ~r.suspend /\ r.data = m /\ m # Absent
  BY <1>1, PostOK DEF PostRequest
<1>4. Proper(q, {}, browser, log)
  <2>1. "downgrade" \notin p.failed /\ r.data # Absent =>
          ~r.suspend /\ \A k \in DOMAIN p.reqs : p.reqs[k].data # r.data
    BY <1>2, <1>3
  <2>2. q = NewRequest(p, r)
    BY <1>1
  <2> QED BY <1>2, <1>3, <2>1, <2>2, NewRequestProper
<1>5. Becomes(q) /\ LogOK(log, pending)' /\ log' = log /\ browser' = browser
  BY <1>1, Accepted DEF PushSocket, ClientSound
<1>6. PICK s : s = Page'
  OBVIOUS
<1>7. s.am = q.am /\ s.reqs = q.reqs /\ s.conns = q.conns /\ s.failed = q.failed
  BY <1>5, <1>6 DEF Becomes, Page
<1>8. q.failed \subseteq s.failed /\ s.failed \subseteq {"budget", "refused", "lost", "socket", "downgrade"}
  BY <1>4, <1>7 DEF Proper, Contents
<1>9. Proper(s, {}, browser, log)
  BY <1>4, <1>7, <1>8, FailProper
<1> QED BY <1>5, <1>6, <1>9 DEF ClientSound

LEMMA PushSocketThrowsSound ==
  ASSUME ClientInv, ClientSound, NEW m \in Msg, PushSocketThrows(m)
  PROVE  ClientSound'
<1>1. PICK p, q : p = Page /\ q = Downgrade(p, m)
  OBVIOUS
<1>2. Sound(p) /\ Proper(p, {}, browser, log) /\ p.am.push = "socket"
  BY <1>1 DEF ClientInv, ClientSound, PushSocketThrows, Page
<1>3. Proper(q, {}, browser, log)
  BY <1>1, <1>2, DowngradeProper
<1>4. Becomes(q) /\ LogOK(log, pending) /\ UNCHANGED <<browser, log, pending>>
  BY <1>1 DEF PushSocketThrows, ClientSound, endpoint
<1> QED BY <1>3, <1>4, BecomesProper

\* A connection that is opened, answered, written to or read: what has been
\* told of it is still in its text.
Going(d, phase, u, v, n) ==
  [kind |-> d.kind, request |-> d.request, transport |-> d.transport, data |-> d.data,
   phase |-> phase, answer |-> u, text |-> v, read |-> n, timer |-> d.timer, told |-> d.told]

Grows(t, v) == \A i \in DOMAIN t : i \in DOMAIN v /\ v[i] = t[i]

MayGoOn(d, phase, u, v, n) ==
  /\ IsOpen(d) /\ phase \in {"sent", "open"} /\ u \in {"none", "suspended", "ok", "refused"}
  /\ v \in Seq(Msg \cup {Junk}) /\ n \in Nat /\ d.read <= n
  /\ d.kind = "xhr" /\ d.data # Absent => u # "suspended" /\ v = <<>>
  /\ u = "none" => v = <<>> /\ d.told = Nothing
  /\ Grows(d.text, v) \/ d.told = Nothing

LEMMA GoesOnOK ==
  ASSUME NEW d, NEW r, NEW b, ConnectionOK(d, r, b), r.lastIndex \in Nat, NEW phase, NEW u, NEW v, NEW n,
         MayGoOn(d, phase, u, v, n), NEW c, c = Going(d, phase, u, v, n)
  PROVE  ConnectionOK(c, r, b) /\ Alike(c, d) /\ IsOpen(c) /\ c.data = d.data /\ c.text = v /\ c.read = n /\ c.told = d.told
<1>1. /\ d \in Connection /\ d.read \in Nat /\ n \in Nat /\ d.read <= n
      /\ v \in Seq(Msg \cup {Junk}) /\ phase \in {"sent", "open"} /\ u \in {"none", "suspended", "ok", "refused"}
      /\ IsOpen(d)
  BY DEF ConnectionOK, Connection, MayGoOn
<1>2. /\ c.kind = d.kind /\ c.request = d.request /\ c.transport = d.transport /\ c.data = d.data
      /\ c.phase = phase /\ c.answer = u /\ c.text = v /\ c.read = n /\ c.timer = d.timer /\ c.told = d.told
  BY DEF Going
<1>3. IsConnection(c)
  BY <1>2 DEF Going, IsConnection
<1>4. c \in Connection
  BY <1>1 DEF Connection, Going
<1>5. Alike(c, d) /\ IsOpen(c)
  BY <1>1, <1>2, <1>3 DEF Alike, IsOpen
<1>6. Told(d, r) \in Nat /\ Told(c, r) \in Nat /\ Told(d, r) <= Told(c, r)
  BY <1>1, <1>2 DEF Told
<1>7. TellsOnce(c, Told(c, r))
  <2>1. PICK k, h : k = Told(d, r) /\ h = Told(c, r)
    OBVIOUS
  <2>2. TellsOnce(d, k) /\ k \in Nat /\ h \in Nat /\ k <= h
    BY <2>1, <1>6 DEF ConnectionOK
  <2>3. CASE d.told = Nothing
    BY <2>3, <2>1, <1>2 DEF TellsOnce, Nothing
  <2>4. CASE Grows(d.text, v)
    <3>1. \A i \in DOMAIN d.text : i \in Nat
      BY <1>1 DEF Connection
    <3>2. SUFFICES ASSUME c.transport # "long-polling", NEW m \in Msg, c.told[m] # 0
                   PROVE  c.told[m] = 1 /\ \E i \in DOMAIN c.text : i <= h /\ c.text[i] = m
      BY <2>1 DEF TellsOnce
    <3>3. d.told[m] = 1 /\ \E i \in DOMAIN d.text : i <= k /\ d.text[i] = m
      BY <1>2, <2>2, <3>2 DEF TellsOnce
    <3>4. PICK i \in DOMAIN d.text : i <= k /\ d.text[i] = m
      BY <3>3
    <3>5. i \in DOMAIN c.text /\ c.text[i] = m /\ i <= h
      BY <1>2, <2>2, <2>4, <3>1, <3>4 DEF Grows
    <3> QED BY <1>2, <3>3, <3>5
  <2> QED BY <2>3, <2>4 DEF MayGoOn
<1>8. ConnectionOK(c, r, b)
  BY <1>2, <1>4, <1>5, <1>7, <1>1 DEF ConnectionOK, MayGoOn
<1> QED BY <1>2, <1>5, <1>8

Went(p, x, c, q, X, b, l) == Proper(q, X, b, l) /\ Touched(p, x, c, q)

LEMMA GoesOnProper ==
  ASSUME NEW p, Sound(p), NEW X, NEW b, NEW l, Proper(p, X, b, l), NEW x \in DOMAIN p.conns,
         NEW phase, NEW u, NEW v, NEW n, MayGoOn(p.conns[x], phase, u, v, n), TextOK(v, l),
         NEW c, c = Going(p.conns[x], phase, u, v, n), NEW q, q = [p EXCEPT !.conns[x] = c]
  PROVE  Went(p, x, c, q, X, b, l)
<1>1. PICK d, r : d = p.conns[x] /\ r = p.reqs[d.request]
  OBVIOUS
<1>2. ConnectionOK(d, r, b) /\ r.lastIndex \in Nat /\ d.request \in DOMAIN p.reqs
  BY <1>1 DEF Proper, Contents, Sound, Wired, RequestOK, Request
<1>3. MayGoOn(d, phase, u, v, n) /\ c = Going(d, phase, u, v, n)
  BY <1>1
<1>4. /\ ConnectionOK(c, r, b) /\ Alike(c, d) /\ IsOpen(c) /\ c.data = d.data /\ c.text = v
  BY <1>2, <1>3, GoesOnOK
<1>5. /\ ConnectionOK(c, p.reqs[p.conns[x].request], b) /\ TextOK(c.text, l)
      /\ c.request = p.conns[x].request /\ c.kind = p.conns[x].kind /\ c.data = p.conns[x].data
      /\ (c.timer => p.conns[x].timer) /\ (IsOpen(c) => IsOpen(p.conns[x]))
  BY <1>1, <1>3, <1>4 DEF Alike, MayGoOn
<1>6. Proper(q, X, b, l)
  BY <1>5, ConnectionProper
<1>7. Touched(p, x, c, q)
  BY <1>1, <1>4, AlikeKeeps
<1> QED BY <1>6, <1>7 DEF Went

LEMMA GoingIs ==
  ASSUME NEW d, IsConnection(d), NEW u, NEW v
  PROVE  /\ [d EXCEPT !.answer = u] = Going(d, d.phase, u, d.text, d.read)
         /\ [d EXCEPT !.answer = u, !.text = v] = Going(d, d.phase, u, v, d.read)
         /\ [d EXCEPT !.text = v, !.answer = u] = Going(d, d.phase, u, v, d.read)
         /\ [d EXCEPT !.phase = v] = Going(d, v, d.answer, d.text, d.read)
         /\ [d EXCEPT !.read = u] = Going(d, d.phase, d.answer, d.text, u)
<1>1. [d EXCEPT !.answer = u] = Going(d, d.phase, u, d.text, d.read)
  BY DEF IsConnection, Going
<1>2. [d EXCEPT !.answer = u, !.text = v] = Going(d, d.phase, u, v, d.read)
  <2>1. PICK c : c = [d EXCEPT !.answer = u, !.text = v]
    OBVIOUS
  <2>2. c = [kind |-> d.kind, request |-> d.request, transport |-> d.transport, data |-> d.data,
             phase |-> d.phase, answer |-> u, text |-> v, read |-> d.read, timer |-> d.timer, told |-> d.told]
    BY <2>1 DEF IsConnection
  <2> QED BY <2>1, <2>2 DEF Going
<1>3. [d EXCEPT !.text = v, !.answer = u] = Going(d, d.phase, u, v, d.read)
  <2>1. PICK c : c = [d EXCEPT !.text = v, !.answer = u]
    OBVIOUS
  <2>2. c = [kind |-> d.kind, request |-> d.request, transport |-> d.transport, data |-> d.data,
             phase |-> d.phase, answer |-> u, text |-> v, read |-> d.read, timer |-> d.timer, told |-> d.told]
    BY <2>1 DEF IsConnection
  <2> QED BY <2>1, <2>2 DEF Going
<1>4. [d EXCEPT !.phase = v] = Going(d, v, d.answer, d.text, d.read)
  BY DEF IsConnection, Going
<1>5. [d EXCEPT !.read = u] = Going(d, d.phase, d.answer, d.text, u)
  BY DEF IsConnection, Going
<1> QED BY <1>1, <1>2, <1>3, <1>4, <1>5

LEMMA NextProper ==
  ASSUME NEW p, Proper(p, {}, browser, log), Page' = p, browser' = browser, log' = log, LogOK(log, pending)'
  PROVE  ClientSound'
  BY DEF ClientSound

LEMMA ServeSound ==
  ASSUME ClientInv, ClientSound, NEW x \in DOMAIN conns,
         Suspend(x) \/ TakePost(x) \/ EndPoll(x) \/ Refuse(x) \/ OnOpen(x)
  PROVE  ClientSound'
<1>1. PICK p, d : p = Page /\ d = conns[x]
  OBVIOUS
<1>2. Sound(p) /\ Proper(p, {}, browser, log) /\ LogOK(log, pending) /\ p.conns = conns
  BY <1>1 DEF ClientInv, ClientSound, Page
<1>3. IsConnection(d) /\ ConnectionOK(d, p.reqs[d.request], browser) /\ TextOK(d.text, log)
  BY <1>1, <1>2 DEF Sound, IsPage, Proper, Contents
<1>4. d \in Connection /\ d.read \in Nat /\ d.read <= d.read /\ d.text \in Seq(Msg \cup {Junk})
  BY <1>3 DEF ConnectionOK, Connection
<1>5. Grows(d.text, d.text)
  BY DEF Grows
<1>6. \E phase, u, v : /\ MayGoOn(d, phase, u, v, d.read) /\ TextOK(v, log)
                       /\ conns' = [conns EXCEPT ![x] = Going(d, phase, u, v, d.read)]
  <2>1. CASE Suspend(x)
    <3>1. PICK v : v = IF d.kind = "xhr" /\ d.transport = "streaming" THEN <<Junk>> ELSE <<>>
      OBVIOUS
    <3>2. v \in Seq(Msg \cup {Junk}) /\ TextOK(v, log)
      <4>1. CASE v = <<>>
        BY <4>1 DEF TextOK
      <4>2. CASE v = <<Junk>>
        BY <4>2 DEF TextOK
      <4> QED BY <3>1, <4>1, <4>2
    <3>3. IsOpen(d) /\ d.answer = "none" /\ d.data = Absent
      BY <2>1, <1>1 DEF Suspend, Untaken, Alive, IsOpen
    <3>4. d.told = Nothing
      BY <1>3, <3>3 DEF ConnectionOK
    <3>5. MayGoOn(d, d.phase, "suspended", v, d.read)
      BY <1>4, <3>2, <3>3, <3>4 DEF MayGoOn, IsOpen
    <3>6. conns' = [conns EXCEPT ![x] = Going(d, d.phase, "suspended", v, d.read)]
      <4>1. conns' = [conns EXCEPT ![x].answer = "suspended", ![x].text = v]
        BY <2>1, <1>1, <3>1 DEF Suspend
      <4>2. [d EXCEPT !.answer = "suspended", !.text = v] = Going(d, d.phase, "suspended", v, d.read)
        BY <1>3, GoingIs
      <4> QED BY <4>1, <4>2, <1>1
    <3> QED BY <3>2, <3>5, <3>6
  <2>2. CASE TakePost(x) \/ EndPoll(x) \/ Refuse(x)
    <3>1. PICK u \in {"ok", "refused"} : conns' = [conns EXCEPT ![x].answer = u]
      BY <2>2 DEF TakePost, EndPoll, Refuse
    <3>2. IsOpen(d)
      BY <2>2, <1>1 DEF TakePost, EndPoll, Refuse, Untaken, Alive, IsOpen
    <3>3. d.kind = "xhr" /\ d.data # Absent => d.text = <<>>
      BY <1>3 DEF ConnectionOK
    <3>4. MayGoOn(d, d.phase, u, d.text, d.read)
      BY <1>4, <1>5, <3>1, <3>2, <3>3 DEF MayGoOn, IsOpen
    <3>5. conns' = [conns EXCEPT ![x] = Going(d, d.phase, u, d.text, d.read)]
      <4>1. [d EXCEPT !.answer = u] = Going(d, d.phase, u, d.text, d.read)
        BY <1>3, GoingIs
      <4> QED BY <3>1, <4>1, <1>1
    <3> QED BY <1>3, <3>4, <3>5
  <2>3. CASE OnOpen(x)
    <3>1. IsOpen(d) /\ d.kind = "socket"
      BY <2>3, <1>1 DEF OnOpen, IsOpen
    <3>2. MayGoOn(d, "open", "suspended", d.text, d.read)
      BY <1>4, <1>5, <3>1 DEF MayGoOn
    <3>3. conns' = [conns EXCEPT ![x] = Going(d, "open", "suspended", d.text, d.read)]
      <4>1. PICK c, ph, an : ph = "open" /\ an = "suspended" /\ c = [d EXCEPT !.phase = ph, !.answer = an]
        OBVIOUS
      <4>2. conns' = [conns EXCEPT ![x] = c]
        BY <1>1, <2>3, <4>1 DEF OnOpen
      <4>3. c = [d EXCEPT !.phase = ph, !.answer = an]
        BY <4>1
      <4>4. c = Going(d, ph, an, d.text, d.read)
        <5>1. c = [kind |-> d.kind, request |-> d.request, transport |-> d.transport, data |-> d.data,
                   phase |-> ph, answer |-> an, text |-> d.text, read |-> d.read, timer |-> d.timer, told |-> d.told]
          BY <1>3, <4>3 DEF IsConnection
        <5> QED BY <5>1 DEF Going
      <4> QED BY <4>1, <4>2, <4>4, Zenon
    <3> QED BY <1>3, <3>2, <3>3
  <2> QED BY <2>1, <2>2, <2>3
<1>7. PICK phase, u, v : /\ MayGoOn(d, phase, u, v, d.read) /\ TextOK(v, log)
                         /\ conns' = [conns EXCEPT ![x] = Going(d, phase, u, v, d.read)]
  BY <1>6
<1>8. PICK c, n, q : c = Going(d, phase, u, v, d.read) /\ n = d.read /\ q = [p EXCEPT !.conns[x] = c]
  OBVIOUS
<1>9. /\ x \in DOMAIN p.conns /\ MayGoOn(p.conns[x], phase, u, v, n) /\ c = Going(p.conns[x], phase, u, v, n)
  BY <1>1, <1>2, <1>7, <1>8
<1>10. Proper(q, {}, browser, log)
  BY <1>2, <1>7, <1>8, <1>9, GoesOnProper DEF Went
<1>11. Page' = q
  <2>1. conns' = [conns EXCEPT ![x] = c] /\ UNCHANGED <<am, reqs, failed>>
    BY <1>7, <1>8 DEF Suspend, TakePost, EndPoll, Refuse, OnOpen
  <2> QED BY <2>1, <1>1, <1>8 DEF Page
<1>12. LogOK(log, pending)' /\ log' = log /\ browser' = browser
  <2>1. CASE TakePost(x)
    <3>1. d.data \in Msg \cup {Absent} /\ d.data # Absent
      BY <2>1, <1>1, <1>4 DEF Connection, TakePost
    <3>2. UNCHANGED endpoint \/ Endpoint!Accept(d.data)
      BY <2>1, <1>1 DEF TakePost
    <3> QED BY <3>1, <3>2, <2>1, <1>2, Accepted DEF endpoint, TakePost
  <2>2. CASE Suspend(x) \/ EndPoll(x) \/ Refuse(x) \/ OnOpen(x)
    BY <2>2, <1>2 DEF Suspend, EndPoll, Refuse, OnOpen, endpoint
  <2> QED BY <2>1, <2>2
<1> QED BY <1>10, <1>11, <1>12, NextProper

LEMMA ReadsOn ==
  ASSUME NEW d, NEW r, NEW b, ConnectionOK(d, r, b), IsOpen(d), NEW phase \in {d.phase, "open"},
         NEW n \in Nat, d.read <= n
  PROVE  MayGoOn(d, phase, d.answer, d.text, n)
<1>1. d \in Connection
  BY DEF ConnectionOK
<1>2. /\ d.answer \in {"none", "suspended", "ok", "refused"} /\ d.text \in Seq(Msg \cup {Junk})
      /\ phase \in {"sent", "open"}
  BY <1>1 DEF Connection, IsOpen
<1>3. d.answer = "none" => d.text = <<>> /\ d.told = Nothing
  BY DEF ConnectionOK
<1>4. d.kind = "xhr" /\ d.data # Absent => d.answer # "suspended" /\ d.text = <<>>
  BY DEF ConnectionOK
<1>5. Grows(d.text, d.text)
  BY DEF Grows
<1> QED BY <1>2, <1>3, <1>4, <1>5 DEF MayGoOn

LEMMA OnHeadersSound ==
  ASSUME ClientInv, ClientSound, NEW x \in DOMAIN conns, OnHeaders(x)
  PROVE  ClientSound'
<1>1. PICK now, d, ph, c, p : /\ now = Page /\ d = now.conns[x] /\ ph = "open" /\ c = [d EXCEPT !.phase = ph]
                              /\ p = [now EXCEPT !.conns[x].phase = "open"]
  OBVIOUS
<1>2. Sound(now) /\ Proper(now, {}, browser, log) /\ LogOK(log, pending) /\ now.conns = conns
  BY <1>1 DEF ClientInv, ClientSound, Page
<1>3. IsConnection(d) /\ ConnectionOK(d, now.reqs[d.request], browser) /\ TextOK(d.text, log) /\ IsOpen(d)
  BY <1>1, <1>2 DEF Sound, IsPage, Proper, Contents, OnHeaders, IsOpen
<1>4. d.read \in Nat /\ d.read <= d.read
  BY <1>3 DEF ConnectionOK, Connection
<1>5. c = Going(d, ph, d.answer, d.text, d.read) /\ MayGoOn(d, ph, d.answer, d.text, d.read)
  <2>1. c = [d EXCEPT !.phase = ph]
    BY <1>1
  <2>2. c = Going(d, ph, d.answer, d.text, d.read)
    BY <2>1, <1>3, GoingIs
  <2>3. ph \in {d.phase, "open"}
    BY <1>1
  <2> QED BY <2>2, <2>3, <1>3, <1>4, ReadsOn
<1>6. PICK u, v, n : u = d.answer /\ v = d.text /\ n = d.read
  OBVIOUS
<1>7. /\ MayGoOn(now.conns[x], ph, u, v, n) /\ c = Going(now.conns[x], ph, u, v, n) /\ TextOK(v, log)
      /\ x \in DOMAIN now.conns /\ p = [now EXCEPT !.conns[x] = c]
  BY <1>1, <1>2, <1>3, <1>5, <1>6
<1>8. Went(now, x, c, p, {}, browser, log)
  BY <1>2, <1>7, GoesOnProper
<1>9. Sound(p) /\ Proper(p, {}, browser, log) /\ x \in DOMAIN p.conns
  BY <1>7, <1>8 DEF Went, Touched
<1>10. PICK id, q : id = RequestOf(p, x).id /\ q = clearTimeout(p, RequestOf(p, x).id)
  OBVIOUS
<1>11. Proper(q, {}, browser, log)
  <2>1. id \in {0} \cup DOMAIN p.conns /\ q = clearTimeout(p, id)
    BY <1>9, <1>10 DEF RequestOf, Sound, Wired
  <2> QED BY <2>1, <1>9, ClearProper
<1>12. Becomes(p) \/ Becomes(q)
  BY <1>1, <1>10 DEF OnHeaders
<1>13. UNCHANGED <<browser, log, pending>>
  BY DEF OnHeaders, endpoint
<1> QED BY <1>2, <1>9, <1>11, <1>12, <1>13, BecomesProper

LEMMA OnTextSound ==
  ASSUME ClientInv, ClientSound, NEW x \in DOMAIN conns, OnText(x)
  PROVE  ClientSound'
<1>0. PICK now : now = Page
  OBVIOUS
<1>1. PICK n \in conns[x].read + 1 .. Len(conns[x].text) :
        LET p == [now EXCEPT !.conns[x].read = n] IN
        Becomes(IF ~Handled(p) THEN p
                ELSE IF browser = "ie" THEN clearTimeout(p, RequestOf(p, x).id)
                ELSE Update(p, x))
  BY <1>0 DEF OnText
<1>2. PICK d, c, p : d = now.conns[x] /\ c = [d EXCEPT !.read = n] /\ p = [now EXCEPT !.conns[x].read = n]
  OBVIOUS
<1>3. Sound(now) /\ Proper(now, {}, browser, log) /\ LogOK(log, pending) /\ now.conns = conns
  BY <1>0 DEF ClientInv, ClientSound, Page
<1>4. /\ IsConnection(d) /\ ConnectionOK(d, now.reqs[d.request], browser) /\ TextOK(d.text, log) /\ OpenPoll(d)
  BY <1>2, <1>3 DEF Sound, IsPage, Proper, Contents, OnText, OpenPoll, IsOpen
<1>5. n \in Nat /\ d.read <= n /\ n <= Len(d.text)
  <2>1. d.read \in Nat /\ Len(d.text) \in Nat
    BY <1>4 DEF ConnectionOK, Connection
  <2>2. n \in d.read + 1 .. Len(d.text)
    BY <1>1, <1>2, <1>3
  <2> QED BY <2>1, <2>2
<1>6. c = Going(d, d.phase, d.answer, d.text, n) /\ MayGoOn(d, d.phase, d.answer, d.text, n)
  <2>1. c = [d EXCEPT !.read = n]
    BY <1>2
  <2>2. c = Going(d, d.phase, d.answer, d.text, n)
    BY <2>1, <1>4, GoingIs
  <2>3. IsOpen(d)
    BY <1>4 DEF OpenPoll
  <2> QED BY <2>2, <2>3, <1>4, <1>5, ReadsOn
<1>7. PICK ph, u, v : ph = d.phase /\ u = d.answer /\ v = d.text
  OBVIOUS
<1>8. /\ MayGoOn(now.conns[x], ph, u, v, n) /\ c = Going(now.conns[x], ph, u, v, n) /\ TextOK(v, log)
      /\ x \in DOMAIN now.conns /\ p = [now EXCEPT !.conns[x] = c]
  BY <1>2, <1>3, <1>4, <1>6, <1>7
<1>9. Went(now, x, c, p, {}, browser, log)
  BY <1>3, <1>8, GoesOnProper
<1>10. Sound(p) /\ Proper(p, {}, browser, log) /\ x \in DOMAIN p.conns /\ p.conns[x] = c
  BY <1>8, <1>9 DEF Went, Touched
<1>11. PICK id, q, r : id = RequestOf(p, x).id /\ q = clearTimeout(p, RequestOf(p, x).id) /\ r = Update(p, x)
  OBVIOUS
<1>12. Proper(q, {}, browser, log)
  <2>1. id \in {0} \cup DOMAIN p.conns /\ q = clearTimeout(p, id)
    BY <1>10, <1>11 DEF RequestOf, Sound, Wired
  <2> QED BY <2>1, <1>10, ClearProper
<1>13. Proper(r, {}, browser, log)
  <2>1. OpenPoll(p.conns[x]) /\ p.conns[x].read <= Len(p.conns[x].text)
    BY <1>4, <1>5, <1>6, <1>10 DEF Going, OpenPoll, IsOpen
  <2>2. UpdateMay(p, x)
    BY <2>1, <1>10 DEF UpdateMay, Proper, Alone
  <2> QED BY <2>2, <1>10, <1>11, UpdateProper
<1>14. Becomes(p) \/ Becomes(q) \/ Becomes(r)
  BY <1>1, <1>2, <1>11
<1>15. UNCHANGED <<browser, log, pending>>
  BY DEF OnText, endpoint
<1> QED BY <1>3, <1>10, <1>12, <1>13, <1>14, <1>15, BecomesProper

LEMMA OnCloseSound ==
  ASSUME ClientInv, ClientSound, NEW x \in DOMAIN conns, OnClose(x)
  PROVE  ClientSound'
<1>1. PICK now, phase, p, q : /\ now = Page /\ phase = "done" /\ p = FinishConnection(now, x, phase)
                              /\ q = Fail(p, "socket")
  OBVIOUS
<1>2. Sound(now) /\ Proper(now, {}, browser, log) /\ LogOK(log, pending) /\ now.conns = conns
  BY <1>1 DEF ClientInv, ClientSound, Page
<1>3. phase \in {"done", "aborted"} /\ x \in DOMAIN now.conns /\ p = FinishConnection(now, x, phase)
  BY <1>1, <1>2
<1>4. Sound(p) /\ Proper(p, {}, browser, log)
  BY <1>2, <1>3, FinishDrops, FinishProper DEF Dropped
<1>5. q.am = p.am /\ q.reqs = p.reqs /\ q.conns = p.conns /\ q.failed = p.failed \cup {"socket"}
  BY <1>1, <1>4 DEF Fail, Sound, IsPage
<1>6. q.failed \subseteq {"budget", "refused", "lost", "socket", "downgrade"}
  BY <1>4, <1>5 DEF Proper, Contents
<1>7. Proper(q, {}, browser, log)
  BY <1>4, <1>5, <1>6, FailProper
<1>8. Becomes(q)
  BY <1>1 DEF OnClose
<1>9. UNCHANGED <<browser, log, pending>>
  BY DEF OnClose, endpoint
<1> QED BY <1>2, <1>7, <1>8, <1>9, BecomesProper

LEMMA OthersSendSound ==
  ASSUME ClientInv, ClientSound, NEW m \in Msg, OthersSend(m)
  PROVE  ClientSound'
<1>1. PICK p : p = Page
  OBVIOUS
<1>2. Proper(p, {}, browser, log) /\ Page' = p
  BY <1>1 DEF ClientSound, OthersSend, Page
<1>3. LogOK(log, pending)' /\ log' = log /\ browser' = browser
  BY Accepted DEF ClientSound, OthersSend
<1> QED BY <1>2, <1>3, NextProper

LEMMA OnMessageSound ==
  ASSUME ClientInv, ClientSound, NEW x \in DOMAIN conns, OnMessage(x)
  PROVE  ClientSound'
<1>1. PICK now, d, n, c, p : /\ now = Page /\ d = now.conns[x] /\ n = d.read + 1 /\ c = [d EXCEPT !.read = n]
                             /\ p = [now EXCEPT !.conns[x].read = @ + 1]
  OBVIOUS
<1>2. Sound(now) /\ Proper(now, {}, browser, log) /\ LogOK(log, pending) /\ now.conns = conns
  BY <1>1 DEF ClientInv, ClientSound, Page
<1>3. PICK r : r = now.reqs[d.request]
  OBVIOUS
<1>4. /\ IsConnection(d) /\ ConnectionOK(d, r, browser) /\ TextOK(d.text, log) /\ IsOpen(d) /\ d.kind # "xhr"
      /\ d \in Connection /\ d.read < Len(d.text)
  BY <1>1, <1>2, <1>3 DEF Sound, IsPage, Proper, Contents, OnMessage, IsOpen, ConnectionOK
<1>5. /\ d.read \in Nat /\ n \in Nat /\ d.read <= n /\ n = d.read + 1 /\ d.text \in Seq(Msg \cup {Junk})
      /\ n \in DOMAIN d.text /\ d.text # <<>>
  <2>1. d.read \in Nat /\ d.text \in Seq(Msg \cup {Junk})
    BY <1>4 DEF Connection
  <2> QED BY <2>1, <1>1, <1>4
<1>6. c = Going(d, d.phase, d.answer, d.text, n) /\ MayGoOn(d, d.phase, d.answer, d.text, n)
  <2>1. c = [d EXCEPT !.read = n]
    BY <1>1
  <2>2. c = Going(d, d.phase, d.answer, d.text, n)
    BY <2>1, <1>4, GoingIs
  <2> QED BY <2>2, <1>4, <1>5, ReadsOn
<1>7. PICK ph, u, v : ph = d.phase /\ u = d.answer /\ v = d.text
  OBVIOUS
<1>8. /\ MayGoOn(now.conns[x], ph, u, v, n) /\ c = Going(now.conns[x], ph, u, v, n) /\ TextOK(v, log)
      /\ x \in DOMAIN now.conns /\ p = [now EXCEPT !.conns[x] = c]
  BY <1>1, <1>2, <1>4, <1>6, <1>7
<1>9. Went(now, x, c, p, {}, browser, log)
  BY <1>2, <1>8, GoesOnProper
<1>10. /\ Sound(p) /\ Proper(p, {}, browser, log) /\ x \in DOMAIN p.conns /\ p.conns[x] = c
       /\ p.reqs = now.reqs /\ p.am = now.am
  BY <1>8, <1>9 DEF Went, Touched
<1>11. /\ c.kind = d.kind /\ c.request = d.request /\ c.transport = d.transport /\ c.data = d.data
       /\ c.phase = d.phase /\ c.answer = d.answer /\ c.text = d.text /\ c.read = n /\ c.timer = d.timer /\ c.told = d.told
  BY <1>6 DEF Going
<1>12. IsConnection(c) /\ ConnectionOK(c, r, browser) /\ c \in Connection
  <2>1. IsConnection(c) /\ ConnectionOK(c, r, browser)
    BY <1>3, <1>10, <1>11 DEF Sound, IsPage, Proper, Contents
  <2> QED BY <2>1 DEF ConnectionOK
<1>13. PICK body, t, e, q :
         /\ body = <<d.text[n]>> /\ t = Telling(d.told, body, p.am.callbacks)
         /\ e = [c EXCEPT !.told = t] /\ q = invokeCallback(p, x, body)
  OBVIOUS
<1>14. e = [kind |-> c.kind, request |-> c.request, transport |-> c.transport, data |-> c.data, phase |-> c.phase,
            answer |-> c.answer, text |-> c.text, read |-> c.read, timer |-> c.timer, told |-> t]
  BY <1>12, <1>13 DEF IsConnection
<1>15. /\ e.kind = c.kind /\ e.request = c.request /\ e.transport = c.transport /\ e.data = c.data
       /\ e.phase = c.phase /\ e.answer = c.answer /\ e.text = c.text /\ e.read = c.read /\ e.timer = c.timer /\ e.told = t
  BY <1>14
<1>16. t \in [Msg -> 0 .. 2] /\ TellsOnce(e, n)
  <2>1. p.am.callbacks \in 0 .. 1
    BY <1>10 DEF Proper, Contents, AmOK
  <2>2. TellsOnce(d, d.read)
    BY <1>4 DEF ConnectionOK, Told
  <2>3. Piece(d.text, d.read, n, body)
    <3>1. DOMAIN body = {1} /\ body[1] = d.text[n]
      BY <1>13
    <3> QED BY <3>1, <1>5 DEF Piece
  <2>4. e.transport = d.transport /\ e.text = d.text /\ e.told = Telling(d.told, body, p.am.callbacks)
    BY <1>11, <1>13, <1>15
  <2>5. PICK k, callbacks : k = d.read /\ callbacks = p.am.callbacks
    OBVIOUS
  <2>6. /\ TellsOnce(d, k) /\ k \in Nat /\ n \in Nat /\ k <= n /\ callbacks \in 0 .. 1
        /\ (d.transport # "long-polling" => Piece(d.text, k, n, body))
        /\ e.transport = d.transport /\ e.text = d.text /\ e.told = Telling(d.told, body, callbacks)
    BY <1>5, <2>1, <2>2, <2>3, <2>4, <2>5
  <2>7. e.told \in [Msg -> 0 .. 2] /\ TellsOnce(e, n)
    BY <1>4, <2>6, ToldOnce
  <2> QED BY <2>7, <1>15
<1>17. ConnectionOK(e, r, browser)
  <2>1. e \in Connection
    BY <1>12, <1>14, <1>16 DEF Connection
  <2>2. e.kind # "xhr" /\ Told(e, r) = n
    BY <1>4, <1>11, <1>15 DEF Told
  <2>3. e.answer # "none"
    BY <1>4, <1>5, <1>11, <1>15 DEF ConnectionOK
  <2> QED BY <2>1, <2>2, <2>3, <1>12, <1>15, <1>16 DEF ConnectionOK, IsOpen
<1>18. q = [p EXCEPT !.conns[x] = e]
  <2>1. q = [p EXCEPT !.conns[x].told = Telling(p.conns[x].told, body, p.am.callbacks)]
    BY <1>13, InvokeIs
  <2>2. q = [p EXCEPT !.conns[x].told = t]
    BY <2>1, <1>10, <1>11, <1>13
  <2> QED BY <2>2, <1>10, <1>13
<1>19. Proper(q, {}, browser, log)
  <2>1. /\ ConnectionOK(e, p.reqs[p.conns[x].request], browser) /\ TextOK(e.text, log)
        /\ e.request = p.conns[x].request /\ e.kind = p.conns[x].kind /\ e.data = p.conns[x].data
        /\ (e.timer => p.conns[x].timer) /\ (IsOpen(e) => IsOpen(p.conns[x]))
    BY <1>3, <1>4, <1>10, <1>11, <1>15, <1>17 DEF IsOpen
  <2> QED BY <1>10, <1>18, <2>1, ConnectionProper
<1>20. Becomes(q)
  <2>1. Becomes(invokeCallback(p, x, <<conns[x].text[p.conns[x].read]>>))
    BY <1>1 DEF OnMessage
  <2>2. conns[x].text[p.conns[x].read] = d.text[n]
    BY <1>1, <1>2, <1>10, <1>11
  <2> QED BY <2>1, <2>2, <1>13
<1>21. UNCHANGED <<browser, log, pending>>
  BY DEF OnMessage, endpoint
<1> QED BY <1>2, <1>19, <1>20, <1>21, BecomesProper

\* w is t and then s.
Joined(t, s, w) ==
  /\ DOMAIN w = 1 .. Len(t) + Len(s) /\ Len(w) = Len(t) + Len(s)
  /\ \A i \in DOMAIN t : i \in DOMAIN w /\ w[i] = t[i]
  /\ \A j \in DOMAIN s : Len(t) + j \in DOMAIN w /\ w[Len(t) + j] = s[j]
  /\ \A i \in DOMAIN w : i \in DOMAIN t \/ \E j \in DOMAIN s : i = Len(t) + j

LEMMA Concatenated ==
  ASSUME NEW S, NEW t \in Seq(S), NEW s \in Seq(S), NEW w, w = t \o s
  PROVE  w \in Seq(S) /\ Joined(t, s, w)
<1>1. w \in Seq(S) /\ Len(w) = Len(t) + Len(s) /\ Len(t) \in Nat /\ Len(s) \in Nat
  OBVIOUS
<1>2. DOMAIN t = 1 .. Len(t) /\ DOMAIN s = 1 .. Len(s) /\ DOMAIN w = 1 .. Len(t) + Len(s)
  BY <1>1
<1>3. \A i \in DOMAIN t : i \in DOMAIN w /\ w[i] = t[i]
  BY <1>1, <1>2
<1>4. \A j \in DOMAIN s : Len(t) + j \in DOMAIN w /\ w[Len(t) + j] = s[j]
  BY <1>1, <1>2
<1>5. \A i \in DOMAIN w : i \in DOMAIN t \/ \E j \in DOMAIN s : i = Len(t) + j
  <2> TAKE i \in DOMAIN w
  <2>1. SUFFICES ASSUME i \notin DOMAIN t PROVE i - Len(t) \in DOMAIN s /\ i = Len(t) + (i - Len(t))
    OBVIOUS
  <2> QED BY <2>1, <1>1, <1>2
<1> QED BY <1>1, <1>2, <1>3, <1>4, <1>5 DEF Joined

\* What is new of the log.
LEMMA NewOfTheLog ==
  ASSUME NEW S, NEW t \in Seq(S), NEW s \in Seq(S), NEW w, w = t \o s
  PROVE  SubSeq(w, Len(t) + 1, Len(w)) = s
<1>1. w \in Seq(S) /\ Joined(t, s, w)
  BY Concatenated
<1>2. PICK k, n, u : k = Len(t) /\ n = Len(s) /\ u = SubSeq(w, Len(t) + 1, Len(w))
  OBVIOUS
<1>3. k \in Nat /\ n \in Nat /\ Len(w) = k + n /\ DOMAIN s = 1 .. n
  BY <1>1, <1>2 DEF Joined
<1>4. PICK h : h = k + n
  OBVIOUS
<1>5. h \in 0 .. Len(w) /\ u = SubSeq(w, k + 1, h)
  BY <1>2, <1>3, <1>4
<1>6. u = [i \in 1 .. (1 + h - (k + 1)) |-> w[i + (k + 1) - 1]]
  BY <1>1, <1>3, <1>5
<1>7. u = [i \in 1 .. n |-> w[k + i]]
  <2>1. 1 + h - (k + 1) = n /\ \A i \in 1 .. n : i + (k + 1) - 1 = k + i
    BY <1>3, <1>4
  <2> QED BY <1>6, <2>1
<1>8. \A i \in 1 .. n : w[k + i] = s[i]
  BY <1>1, <1>2, <1>3 DEF Joined
<1>9. s = [i \in 1 .. n |-> s[i]]
  BY <1>3
<1> QED BY <1>2, <1>7, <1>8, <1>9

\* A batch in some order, each message once, is added to the log.
Batch(l, w, s) ==
  /\ s \in Seq(Msg) /\ \A i \in DOMAIN s : s[i] \in w /\ s[i] \in Msg
  /\ \A i, j \in DOMAIN s : s[i] = s[j] => i = j

LEMMA BatchIsNew ==
  ASSUME LogOK(log, pending), NEW batch \in SUBSET pending, Endpoint!Broadcast(batch)
  PROVE  LogOK(log, pending)' /\ \E s : Batch(log, pending, s) /\ log' = log \o s
<1>1. /\ log \in Seq(Msg) /\ IsFiniteSet(pending) /\ pending \subseteq Msg
      /\ \A i, j \in DOMAIN log : log[i] = log[j] => i = j
      /\ \A i \in DOMAIN log : log[i] \notin pending
  BY DEF LogOK
<1>2. PICK s \in Endpoint!Orderings(batch) : log' = log \o s
  BY DEF Endpoint!Broadcast
<1>3. pending' = pending \ batch /\ batch \subseteq pending
  BY DEF Endpoint!Broadcast
<1>4. IsFiniteSet(batch) /\ IsFiniteSet(pending')
  BY <1>1, <1>3, FS_Subset
<1>5. PICK n : n = Cardinality(batch)
  OBVIOUS
<1>6. n \in Nat /\ Endpoint!Cardinality(batch) = n
  <2>1. Endpoint!Cardinality(batch) = Cardinality(batch)
    BY DEF Cardinality, Endpoint!Cardinality
  <2> QED BY <2>1, <1>4, <1>5, FS_CardinalityType
<1>7. s \in [1 .. n -> batch] /\ \A i, j \in 1 .. n : s[i] = s[j] => i = j
  BY <1>2, <1>6 DEF Endpoint!Orderings
<1>8. s \in [1 .. n -> Msg]
  BY <1>1, <1>3, <1>7
<1>9. s \in Seq(Msg) /\ DOMAIN s = 1 .. n
  BY <1>6, <1>8
<1>10. Batch(log, pending, s)
  BY <1>1, <1>3, <1>7, <1>9 DEF Batch
<1>11. PICK w : w = log'
  OBVIOUS
<1>12. w \in Seq(Msg) /\ Joined(log, s, w)
  BY <1>1, <1>2, <1>9, <1>11, Concatenated
<1>13. \A i \in DOMAIN w : w[i] \notin pending \ batch
  BY <1>1, <1>7, <1>9, <1>12 DEF Joined
<1>14. \A i, j \in DOMAIN w : w[i] = w[j] => i = j
  <2> TAKE i, j \in DOMAIN w
  <2>1. CASE i \in DOMAIN log /\ j \in DOMAIN log
    BY <2>1, <1>1, <1>12 DEF Joined
  <2>2. CASE i \notin DOMAIN log /\ j \notin DOMAIN log
    BY <2>2, <1>7, <1>9, <1>12 DEF Joined
  <2>3. ASSUME NEW a \in DOMAIN w, NEW e \in DOMAIN w, a \in DOMAIN log, e \notin DOMAIN log
        PROVE  w[a] # w[e]
    BY <2>3, <1>1, <1>3, <1>7, <1>9, <1>12 DEF Joined
  <2> QED BY <2>1, <2>2, <2>3
<1>15. LogOK(w, pending \ batch)
  BY <1>1, <1>3, <1>4, <1>12, <1>13, <1>14 DEF LogOK
<1> QED BY <1>2, <1>3, <1>10, <1>11, <1>15

LEMMA TextGrows ==
  ASSUME NEW l, NEW w, LogOK(l, w), NEW s, Batch(l, w, s), NEW k, k = l \o s, NEW t, TextOK(t, l), NEW u, u = t \o s
  PROVE  TextOK(t, k) /\ TextOK(u, k) /\ Grows(t, u)
<1>1. l \in Seq(Msg) /\ s \in Seq(Msg) /\ t \in Seq(Msg \cup {Junk})
  BY DEF LogOK, Batch, TextOK
<1>2. PICK S : S = Msg \cup {Junk}
  OBVIOUS
<1>3. s \in Seq(S) /\ t \in Seq(S)
  BY <1>1, <1>2
<1>4. Joined(l, s, k)
  BY <1>1, Concatenated
<1>5. u \in Seq(S) /\ Joined(t, s, u)
  BY <1>3, Concatenated
<1>6. \A i \in DOMAIN t : t[i] = Junk \/ \E j \in DOMAIN k : k[j] = t[i]
  BY <1>4 DEF TextOK, Joined
<1>7. TextOK(t, k)
  BY <1>6 DEF TextOK
<1>8. Grows(t, u)
  BY <1>5 DEF Grows, Joined
<1>9. \A i \in DOMAIN u : u[i] = Junk \/ \E j \in DOMAIN k : k[j] = u[i]
  <2> TAKE i \in DOMAIN u
  <2>1. CASE i \in DOMAIN t
    BY <2>1, <1>5, <1>6, SMTT(40) DEF Joined
  <2>2. CASE i \notin DOMAIN t
    <3>1. PICK j \in DOMAIN s : i = Len(t) + j
      BY <2>2, <1>5 DEF Joined
    <3>2. u[i] = s[j]
      BY <3>1, <1>5 DEF Joined
    <3>3. Len(l) + j \in DOMAIN k /\ k[Len(l) + j] = s[j]
      BY <3>1, <1>4 DEF Joined
    <3> QED BY <3>2, <3>3
  <2> QED BY <2>1, <2>2
<1>10. ASSUME NEW i \in DOMAIN u, NEW j \in DOMAIN u, u[i] = u[j], u[i] # Junk
       PROVE  i = j
  <2>1. CASE i \in DOMAIN t /\ j \in DOMAIN t
    BY <2>1, <1>5, <1>10 DEF Joined, TextOK
  <2>2. CASE i \notin DOMAIN t /\ j \notin DOMAIN t
    BY <2>2, <1>5, <1>10 DEF Joined, Batch
  <2>3. ASSUME NEW a \in DOMAIN u, NEW e \in DOMAIN u, a \in DOMAIN t, e \notin DOMAIN t, u[a] # Junk
        PROVE  u[a] # u[e]
    <3>1. PICK h \in DOMAIN l : l[h] = u[a]
      BY <2>3, <1>5 DEF TextOK, Joined
    <3>2. u[e] \in w
      BY <2>3, <1>5 DEF Joined, Batch
    <3> QED BY <3>1, <3>2 DEF LogOK
  <2> QED BY <2>1, <2>2, <2>3, <1>10
<1>11. TextOK(u, k)
  BY <1>2, <1>5, <1>9, <1>10 DEF TextOK
<1> QED BY <1>7, <1>8, <1>11

LEMMA BroadcastSound ==
  ASSUME ClientInv, ClientSound, NEW batch \in SUBSET pending, Broadcast(batch)
  PROVE  ClientSound'
<1>1. PICK p, cs, k : p = Page /\ cs = conns' /\ k = log'
  OBVIOUS
<1>2. /\ Sound(p) /\ Proper(p, {}, browser, log) /\ LogOK(log, pending)
      /\ p.conns = conns /\ p.am = am /\ p.reqs = reqs /\ p.failed = failed
  BY <1>1 DEF ClientInv, ClientSound, Page
<1>3. PICK s : Batch(log, pending, s) /\ k = log \o s
  BY <1>1, <1>2, BatchIsNew DEF Broadcast
<1>4. LogOK(log, pending)'
  BY <1>2, BatchIsNew DEF Broadcast
<1>5. SubSeq(log', Len(log) + 1, Len(log')) = s
  <2>1. log \in Seq(Msg) /\ s \in Seq(Msg)
    BY <1>2, <1>3 DEF LogOK, Batch
  <2> QED BY <2>1, <1>1, <1>3, NewOfTheLog
<1>6. DOMAIN cs = DOMAIN p.conns
  BY <1>1, <1>2 DEF Broadcast
<1>7. ASSUME NEW x \in DOMAIN p.conns
      PROVE  /\ ConnectionOK(cs[x], p.reqs[p.conns[x].request], browser) /\ TextOK(cs[x].text, k)
             /\ cs[x].request = p.conns[x].request /\ cs[x].kind = p.conns[x].kind
             /\ cs[x].timer = p.conns[x].timer /\ cs[x].data = p.conns[x].data
             /\ (OpenPoll(cs[x]) => OpenPoll(p.conns[x]))
  <2>1. PICK d, r, c : d = p.conns[x] /\ r = p.reqs[d.request] /\ c = cs[x]
    OBVIOUS
  <2>2. IsConnection(d) /\ ConnectionOK(d, r, browser) /\ TextOK(d.text, log) /\ r.lastIndex \in Nat
    BY <1>2, <2>1 DEF Sound, IsPage, Proper, Contents, Wired, RequestOK, Request
  <2>3. PICK u, v : u = d.text \o s /\ v = IF d.transport = "long-polling" THEN "ok" ELSE d.answer
    OBVIOUS
  <2>4. TextOK(d.text, k) /\ TextOK(u, k) /\ Grows(d.text, u)
    BY <1>2, <1>3, <2>2, <2>3, TextGrows
  <2>5. c = IF d.answer # "suspended" THEN d
            ELSE [d EXCEPT !.text = @ \o SubSeq(log', Len(log) + 1, Len(log')),
                           !.answer = IF d.transport = "long-polling" THEN "ok" ELSE @]
    BY <1>1, <1>2, <2>1 DEF Broadcast
  <2>a. CASE d.answer # "suspended"
    BY <2>a, <2>1, <2>2, <2>4, <2>5
  <2>b. CASE d.answer = "suspended"
    <3>1. c = [d EXCEPT !.text = u, !.answer = v]
      BY <2>b, <2>3, <2>5, <1>5
    <3>2. c = Going(d, d.phase, v, u, d.read)
      BY <3>1, <2>2, GoingIs
    <3>3. IsOpen(d) /\ d.phase \in {"sent", "open"}
      BY <2>b, <2>2 DEF ConnectionOK, IsOpen
    <3>4. d.read \in Nat /\ d.read <= d.read /\ ~(d.kind = "xhr" /\ d.data # Absent)
      BY <2>b, <2>2 DEF ConnectionOK, Connection
    <3>5. MayGoOn(d, d.phase, v, u, d.read)
      BY <2>3, <2>4, <2>b, <3>3, <3>4 DEF MayGoOn, TextOK
    <3>6. PICK ph, n : ph = d.phase /\ n = d.read
      OBVIOUS
    <3>7. MayGoOn(d, ph, v, u, n) /\ c = Going(d, ph, v, u, n)
      BY <3>2, <3>5, <3>6
    <3>8. ConnectionOK(c, r, browser) /\ Alike(c, d) /\ IsOpen(c) /\ c.data = d.data /\ c.text = u
      BY <2>2, <3>7, GoesOnOK
    <3> QED BY <2>1, <2>4, <3>3, <3>8 DEF Alike, OpenPoll
  <2> QED BY <2>a, <2>b
<1>8. PICK q : q = [am |-> p.am, reqs |-> p.reqs, conns |-> cs, failed |-> p.failed]
  OBVIOUS
<1>9. q.am = p.am /\ q.reqs = p.reqs /\ q.conns = cs /\ q.failed = p.failed
  BY <1>8
<1>10. Contents(q, browser, k)
  BY <1>2, <1>6, <1>7, <1>9 DEF Proper, Contents
<1>11. Alone(q, {}) /\ SocketAlone(q)
  BY <1>2, <1>6, <1>7, <1>9 DEF Proper, Alone, SocketAlone
<1>12. Posts(q)
  BY <1>2, <1>6, <1>7, <1>9 DEF Proper, Posts, PostedOf
<1>13. Page' = q /\ browser' = browser
  BY <1>1, <1>2, <1>8 DEF Page, Broadcast
<1> QED BY <1>1, <1>4, <1>10, <1>11, <1>12, <1>13 DEF ClientSound, Proper

LEMMA OnDoneSound ==
  ASSUME ClientInv, ClientSound, NEW x \in DOMAIN conns, OnDone(x)
  PROVE  ClientSound'
<1>1. PICK now, next, late, phase, q :
        /\ now = Page /\ next = Reconnect(now, x) /\ late = UpdateLate(next, x) /\ phase = "done"
        /\ q = FinishConnection(IF Handled(now) THEN late ELSE now, x, phase)
  OBVIOUS
<1>2. Sound(now) /\ Proper(now, {}, browser, log) /\ LogOK(log, pending) /\ now.conns = conns /\ x \in DOMAIN now.conns
  BY <1>1 DEF ClientInv, ClientSound, Page
<1>3. phase \in {"done", "aborted"}
  BY <1>1
<1>4. Proper(q, {}, browser, log)
  <2>1. CASE ~Handled(now)
    <3>1. q = FinishConnection(now, x, phase)
      BY <1>1, <2>1
    <3> QED BY <3>1, <1>2, <1>3, FinishProper
  <2>2. CASE Handled(now)
    <3>1. q = FinishConnection(late, x, phase)
      BY <1>1, <2>2
    <3>2. OpenPoll(now.conns[x]) /\ now.conns[x].read = Len(now.conns[x].text)
      BY <1>2 DEF OnDone, OpenPoll, IsOpen
    <3>3. Reconnected(now, x, next)
      BY <1>1, <1>2, ReconnectKeeps
    <3>4. Sound(next) /\ x \in DOMAIN next.conns
      BY <3>3, <1>2 DEF Reconnected, Keeps, Extends
    <3>5. Proper(next, {x}, browser, log) /\ \A y \in DOMAIN now.conns : next.conns[y] = now.conns[y]
      BY <1>1, <1>2, <3>2, ReconnectProper
    <3>6. Sound(late) /\ Keeps(next, late)
      BY <1>1, <3>4, UpdateKeeps
    <3>7. x \in DOMAIN late.conns
      BY <3>4, <3>6 DEF Keeps, Extends
    <3>8. Proper(late, {x}, browser, log)
      <4>1. CASE browser = "ie"
        <5>1. late = Update(next, x)
          BY <4>1, <1>1 DEF UpdateLate
        <5>2. next.conns[x] = now.conns[x]
          BY <1>2, <3>5
        <5>3. Len(next.conns[x].text) \in Nat /\ next.conns[x].read <= Len(next.conns[x].text)
          <6>1. next.conns[x] \in Connection
            BY <3>4, <3>5 DEF Proper, Contents, ConnectionOK
          <6>2. Len(next.conns[x].text) \in Nat
            BY <6>1 DEF Connection
          <6> QED BY <6>2, <5>2, <3>2
        <5>4. \A y \in DOMAIN next.conns : OpenPoll(next.conns[y]) => next.conns[y].transport # "streaming"
          BY <4>1, <3>5 DEF Proper, Contents, ConnectionOK, OpenPoll
        <5>5. UpdateMay(next, x)
          BY <3>2, <5>2, <5>3, <5>4 DEF UpdateMay
        <5> QED BY <3>4, <3>5, <5>1, <5>5, UpdateProper
      <4>2. CASE browser # "ie"
        BY <4>2, <1>1, <3>5 DEF UpdateLate
      <4> QED BY <4>1, <4>2
    <3>9. Proper(q, {x} \ {x}, browser, log)
      BY <1>3, <3>1, <3>6, <3>7, <3>8, FinishProper
    <3>10. {x} \ {x} = {}
      OBVIOUS
    <3> QED BY <3>9, <3>10
  <2> QED BY <2>1, <2>2
<1>5. Becomes(q)
  BY <1>1 DEF OnDone
<1>6. UNCHANGED <<browser, log, pending>>
  BY DEF OnDone, endpoint
<1> QED BY <1>2, <1>4, <1>5, <1>6, BecomesProper

LEMMA OnErrorSound ==
  ASSUME ClientInv, ClientSound, NEW x \in DOMAIN conns, OnError(x)
  PROVE  ClientSound'
<1>1. PICK now, phase, p, act, back, lost :
        /\ now = Page /\ phase = "aborted" /\ p = FinishConnection(now, x, phase)
        /\ act = (IF browser = "ie" THEN p.am.activeRequest ELSE 0)
        /\ back = [p EXCEPT !.am.request = p.conns[x].request, !.am.activeRequest = IF browser = "ie" THEN @ ELSE 0]
        /\ lost = Fail(back, "lost")
  OBVIOUS
<1>2. Sound(now) /\ Proper(now, {}, browser, log) /\ LogOK(log, pending) /\ now.conns = conns /\ x \in DOMAIN now.conns
  BY <1>1 DEF ClientInv, ClientSound, Page
<1>3. phase \in {"done", "aborted"} /\ p = FinishConnection(now, x, phase)
  BY <1>1
<1>4. Sound(p) /\ Proper(p, {}, browser, log)
  BY <1>2, <1>3, FinishDrops, FinishProper DEF Dropped
<1>5. PICK a : a = [p.am EXCEPT !.request = p.conns[x].request, !.activeRequest = act]
  OBVIOUS
<1>6. back = [am |-> a, reqs |-> p.reqs, conns |-> p.conns, failed |-> p.failed]
  BY <1>1, <1>4, <1>5 DEF Sound, IsPage
<1>7. back.am = a /\ back.reqs = p.reqs /\ back.conns = p.conns /\ back.failed = p.failed
  BY <1>6
<1>8. /\ a.push = p.am.push /\ a.socketRequest = p.am.socketRequest /\ a.callbacks = p.am.callbacks
      /\ a.activeTransport = p.am.activeTransport /\ a.subscribed = p.am.subscribed
  BY <1>4, <1>5 DEF Sound, IsPage, IsAm
<1>9. AmOK(back.am)
  BY <1>4, <1>7, <1>8 DEF Proper, Contents, AmOK
<1>10. Proper(back, {}, browser, log)
  BY <1>4, <1>7, <1>8, <1>9, AmProper
<1>11. lost.am = back.am /\ lost.reqs = back.reqs /\ lost.conns = back.conns /\ lost.failed = back.failed \cup {"lost"}
  BY <1>1, <1>6 DEF Fail
<1>12. lost.failed \subseteq {"budget", "refused", "lost", "socket", "downgrade"}
  BY <1>10, <1>11 DEF Proper, Contents
<1>13. Proper(lost, {}, browser, log)
  BY <1>10, <1>11, <1>12, FailProper
<1>14. Becomes(IF ~Handled(p) THEN p
               ELSE IF p.conns[x].timer \/ ~RequestOf(p, x).suspend THEN back
               ELSE lost)
  BY <1>1 DEF OnError
<1>15. Becomes(p) \/ Becomes(back) \/ Becomes(lost)
  BY <1>14
<1>16. UNCHANGED <<browser, log, pending>>
  BY DEF OnError, endpoint
<1> QED BY <1>2, <1>4, <1>10, <1>13, <1>15, <1>16, BecomesProper

LEMMA OnPollTimeoutSound ==
  ASSUME ClientInv, ClientSound, NEW x \in DOMAIN conns, OnPollTimeout(x)
  PROVE  ClientSound'
<1>1. PICK now, p, gone, r, q :
        /\ now = Page /\ p = clearTimeout(now, x) /\ gone = Abort(p, x) /\ r = RequestOf(p, x)
        /\ q = subscribe(gone, r)
  OBVIOUS
<1>2. Sound(now) /\ Proper(now, {}, browser, log) /\ LogOK(log, pending) /\ now.conns = conns /\ x \in DOMAIN now.conns
      /\ now.conns[x].timer
  BY <1>1 DEF ClientInv, ClientSound, Page, OnPollTimeout
<1>3. Dropped(now, x, p) /\ Proper(p, {}, browser, log) /\ SameWays(now, p)
  BY <1>1, <1>2, ClearDrops, ClearProper
<1>4. Sound(p) /\ x \in DOMAIN p.conns
  BY <1>2, <1>3 DEF Dropped
<1>5. Dropped(p, x, gone) /\ Proper(gone, {}, browser, log) /\ SameWays(p, gone)
  BY <1>1, <1>3, <1>4, AbortDrops, AbortProper
<1>6. Sound(gone) /\ gone.failed = now.failed /\ gone.reqs = now.reqs /\ DOMAIN gone.conns = DOMAIN p.conns
      /\ p.reqs = now.reqs
  BY <1>3, <1>5 DEF Dropped
<1>7. PICK i : i = now.conns[x].request
  OBVIOUS
<1>8. i \in DOMAIN now.reqs /\ r = now.reqs[i] /\ IsRequest(r) /\ r.id \in {0} \cup DOMAIN gone.conns /\ RequestOK(r)
  <2>1. p.conns[x].request = i
    BY <1>2, <1>3, <1>7 DEF SameWays
  <2>2. i \in DOMAIN p.reqs /\ r = p.reqs[i]
    BY <2>1, <1>1, <1>4 DEF RequestOf, Sound, Wired
  <2> QED BY <2>2, <1>3, <1>4, <1>6 DEF Sound, IsPage, Wired, Proper, Contents
<1>9. gone.failed = {} => r.suspend
  BY <1>2, <1>6, <1>7, <1>8 DEF Sound, Wired
<1>10. "downgrade" \notin gone.failed => r.data = Absent
  BY <1>2, <1>6, <1>7, <1>8 DEF Proper, Posts, PostedOf
<1>11. Proper(q, {}, browser, log)
  <2>1. q = subscribe(gone, r)
    BY <1>1
  <2> QED BY <2>1, <1>5, <1>6, <1>8, <1>9, <1>10, SubscribeProper
<1>12. Becomes(q)
  BY <1>1 DEF OnPollTimeout, Resubscribe
<1>13. UNCHANGED <<browser, log, pending>>
  BY DEF OnPollTimeout, endpoint
<1> QED BY <1>2, <1>11, <1>12, <1>13, BecomesProper

LEMMA ClientSoundInit ==
  ASSUME ClientInit
  PROVE  ClientSound
<1>1. PICK p, none : p = Page /\ none = <<>>
  OBVIOUS
<1>2. DOMAIN none = {} /\ none \in Seq(Msg)
  BY <1>1
<1>3. p.am = am /\ p.reqs = none /\ p.conns = none /\ p.failed = {} /\ log = none /\ pending = {}
  BY <1>1 DEF Page, ClientInit, Endpoint!Init
<1>4. /\ am.activeTransport = Absent /\ am.push = "none" /\ am.socketRequest = 0
      /\ am.callbacks = 0 /\ am.subscribed = 0
  BY DEF ClientInit
<1>5. AmOK(p.am) /\ p.am.socketRequest = 0 /\ p.am.push = "none"
  <2>1. 0 \in 0 .. MaxSubs
    BY ClientBoundsAreCounts
  <2> QED BY <2>1, <1>3, <1>4 DEF AmOK
<1>6. Contents(p, browser, log)
  BY <1>2, <1>3, <1>5 DEF Contents
<1>7. Alone(p, {}) /\ SocketAlone(p) /\ Posts(p)
  BY <1>2, <1>3, <1>5 DEF Alone, SocketAlone, Posts
<1>8. LogOK(log, pending)
  <2>1. IsFiniteSet({})
    BY FS_EmptySet
  <2> QED BY <2>1, <1>2, <1>3 DEF LogOK
<1> QED BY <1>1, <1>6, <1>7, <1>8 DEF ClientSound, Proper

LEMMA ClientSoundStep ==
  ASSUME ClientInv, ClientSound, [ClientNext]_clientVars
  PROVE  ClientSound'
<1>1. CASE UNCHANGED clientVars
  <2>1. PICK p : p = Page
    OBVIOUS
  <2>2. Proper(p, {}, browser, log) /\ Page' = p /\ LogOK(log, pending)
    BY <1>1, <2>1 DEF ClientSound, clientVars, Page
  <2>3. browser' = browser /\ log' = log /\ pending' = pending
    BY <1>1 DEF clientVars, endpoint
  <2> QED BY <2>2, <2>3, NextProper
<1>2. ASSUME NEW t \in Transports, Subscribe(t)
      PROVE  ClientSound'
  BY <1>2, SubscribeSound
<1>3. ASSUME NEW m \in Msg, Publish(m) \/ PushSocket(m) \/ PushSocketThrows(m)
      PROVE  ClientSound'
  BY <1>3, PublishSound, PushSocketSound, PushSocketThrowsSound
<1>4. ASSUME NEW x \in DOMAIN conns, Suspend(x) \/ TakePost(x) \/ EndPoll(x) \/ Refuse(x)
      PROVE  ClientSound'
  BY <1>4, ServeSound
<1>5. ASSUME NEW m \in Msg, OthersSend(m)
      PROVE  ClientSound'
  BY <1>5, OthersSendSound
<1>6. ASSUME NEW batch \in SUBSET pending, Broadcast(batch)
      PROVE  ClientSound'
  BY <1>6, BroadcastSound
<1>7. ASSUME NEW x \in DOMAIN conns, Event(x) \/ OnError(x) \/ OnPollTimeout(x) \/ OnClose(x)
      PROVE  ClientSound'
  BY <1>7, OnHeadersSound, OnTextSound, OnDoneSound, OnMessageSound, ServeSound, OnErrorSound,
     OnPollTimeoutSound, OnCloseSound DEF Event
<1> QED BY <1>1, <1>2, <1>3, <1>4, <1>5, <1>6, <1>7 DEF ClientNext, ClientCalls, Serves, Events

FewFaults == browser \in Browsers /\ faults \in 0 .. MaxFaults

LEMMA FaultsAreCounted ==
  ASSUME FewFaults, [ClientNext]_clientVars
  PROVE  FewFaults'
<1>1. UNCHANGED <<browser, faults>> \/ (browser' = browser /\ faults < MaxFaults /\ faults' = faults + 1)
  <2>1. CASE UNCHANGED clientVars
    BY <2>1 DEF clientVars
  <2>2. CASE ClientCalls
    BY <2>2 DEF ClientCalls, Subscribe, Publish, PushSocket, PushSocketThrows
  <2>3. CASE Serves
    BY <2>3 DEF Serves, Suspend, TakePost, EndPoll, Refuse, OthersSend, Broadcast
  <2>4. CASE Events
    BY <2>4 DEF Events, Event, OnHeaders, OnText, OnDone, OnMessage, OnOpen, OnError, OnPollTimeout, OnClose
  <2> QED BY <2>1, <2>2, <2>3, <2>4 DEF ClientNext
<1>2. faults < MaxFaults => faults + 1 \in 0 .. MaxFaults
  BY ClientBoundsAreCounts DEF FewFaults
<1> QED BY <1>1, <1>2 DEF FewFaults

LEMMA SoundIsSound ==
  ASSUME ClientInv, ClientSound, FewFaults
  PROVE  ClientIsSound
<1>1. PICK p : p = Page
  OBVIOUS
<1>2. /\ Sound(p) /\ Proper(p, {}, browser, log)
      /\ p.am = am /\ p.reqs = reqs /\ p.conns = conns /\ p.failed = failed
  BY <1>1 DEF ClientInv, ClientSound, Page
<1>3. ASSUME NEW S, NEW q, IsSeq(q), \A i \in DOMAIN q : q[i] \in S
      PROVE  q \in Seq(S) /\ {0} \cup DOMAIN q = 0 .. Len(q)
  <2>1. PICK T : q \in Seq(T)
    BY <1>3 DEF IsSeq
  <2>2. Len(q) \in Nat /\ DOMAIN q = 1 .. Len(q) /\ q = [i \in 1 .. Len(q) |-> q[i]]
    BY <2>1
  <2>3. q \in [1 .. Len(q) -> S]
    BY <1>3, <2>2
  <2> QED BY <2>2, <2>3
<1>4. reqs \in Seq(Request) /\ {0} \cup DOMAIN reqs = 0 .. Len(reqs)
  <2>1. IsSeq(reqs) /\ \A r \in DOMAIN reqs : reqs[r] \in Request
    BY <1>2 DEF Sound, IsPage, Proper, Contents, RequestOK
  <2> QED BY <2>1, <1>3
<1>5. conns \in Seq(Connection) /\ {0} \cup DOMAIN conns = 0 .. Len(conns)
  <2>1. IsSeq(conns) /\ \A x \in DOMAIN conns : conns[x] \in Connection
    BY <1>2 DEF Sound, IsPage, Proper, Contents, ConnectionOK
  <2> QED BY <2>1, <1>3
<1>6. am \in [request : 0 .. Len(reqs), activeRequest : 0 .. Len(conns),
              activeTransport : Transport \cup {Absent}, websocket : 0 .. Len(conns),
              push : {"none", "publish", "socket"}, socketRequest : 0 .. Len(reqs),
              callbacks : 0 .. 1, subscribed : 0 .. MaxSubs]
  <2>1. /\ am.request \in 0 .. Len(reqs) /\ am.activeRequest \in 0 .. Len(conns)
        /\ am.websocket \in 0 .. Len(conns) /\ am.socketRequest \in 0 .. Len(reqs)
    BY <1>2, <1>4, <1>5 DEF Sound, Wired, Proper, Contents
  <2>2. /\ am.activeTransport \in Transport \cup {Absent} /\ am.push \in {"none", "publish", "socket"}
        /\ am.callbacks \in 0 .. 1 /\ am.subscribed \in 0 .. MaxSubs
    BY <1>2 DEF Proper, Contents, AmOK
  <2>3. IsAm(am)
    BY <1>2 DEF Sound, IsPage
  <2>4. PICK a, one, none, ways, pushes : /\ a = am /\ one = 0 .. Len(reqs) /\ none = 0 .. Len(conns)
                                          /\ ways = Transport \cup {Absent} /\ pushes = {"none", "publish", "socket"}
    OBVIOUS
  <2>5. /\ a.request \in one /\ a.activeRequest \in none /\ a.websocket \in none /\ a.socketRequest \in one
        /\ a.activeTransport \in ways /\ a.push \in pushes /\ a.callbacks \in 0 .. 1 /\ a.subscribed \in 0 .. MaxSubs
        /\ IsAm(a)
    BY <2>1, <2>2, <2>3, <2>4
  <2>6. a \in [request : one, activeRequest : none, activeTransport : ways, websocket : none, push : pushes,
               socketRequest : one, callbacks : 0 .. 1, subscribed : 0 .. MaxSubs]
    BY <2>5 DEF IsAm
  <2> QED BY <2>4, <2>6
<1>7. ClientTypeOK
  <2>1. failed \subseteq {"budget", "refused", "lost", "socket", "downgrade"}
    BY <1>2 DEF Proper, Contents
  <2> QED BY <2>1, <1>4, <1>5, <1>6 DEF ClientTypeOK, FewFaults
<1>8. PublishedOnce
  <2>1. SUFFICES ASSUME "downgrade" \notin failed, NEW x \in DOMAIN conns, NEW y \in DOMAIN conns,
                        conns[x].data # Absent, conns[x].data = conns[y].data
                 PROVE  x = y
    BY DEF PublishedOnce
  <2>2. PICK r, s : r = conns[x].request /\ s = conns[y].request
    OBVIOUS
  <2>3. r \in DOMAIN reqs /\ s \in DOMAIN reqs
    BY <1>2, <2>2 DEF Sound, Wired
  <2>4. conns[x].data = reqs[r].data /\ conns[y].data = reqs[s].data
    BY <1>2, <2>1, <2>2 DEF Proper, Posts
  <2>5. r = s /\ ~reqs[r].suspend
    BY <1>2, <2>1, <2>3, <2>4, ZenonT(40) DEF Proper, Posts, PostedOf
  <2> QED BY <1>2, <2>1, <2>2, <2>5 DEF Proper, Posts
<1>9. StreamToldOnce
  <2>1. SUFFICES ASSUME NEW x \in DOMAIN conns, conns[x].transport # "long-polling", NEW m \in Msg
                 PROVE  conns[x].told[m] <= 1
    BY DEF StreamToldOnce
  <2>2. PICK c : c = conns[x]
    OBVIOUS
  <2>3. \E n : TellsOnce(c, n)
    BY <1>2, <2>2 DEF Proper, Contents, ConnectionOK
  <2>4. c.told[m] # 0 => c.told[m] = 1
    BY <2>1, <2>2, <2>3 DEF TellsOnce
  <2> QED BY <2>2, <2>4
<1> QED BY <1>7, <1>8, <1>9 DEF ClientIsSound

\* The page is well formed; a message is posted once, whatever polls come to an
\* end meanwhile and call executeRequest, until a downgraded socket's request
\* has become a post's; and a stream, a frame or a socket tells a message once,
\* into whatever pieces its text is cut, as lastIndex has all that was told
\* behind it (executeRequest, onreadystatechange, publish, response.push).
THEOREM ClientStaysSound == ClientSpec => []ClientIsSound
<1>1. ClientInit => ClientInv /\ ClientSound /\ FewFaults
  <2>1. ClientInit => FewFaults
    BY ClientBoundsAreCounts DEF ClientInit, FewFaults
  <2> QED BY <2>1, ClientInvInit, ClientSoundInit
<1>2. ClientInv /\ ClientSound /\ FewFaults /\ [ClientNext]_clientVars => (ClientInv /\ ClientSound /\ FewFaults)'
  BY ClientInvStep, ClientSoundStep, FaultsAreCounted
<1>3. ClientInv /\ ClientSound /\ FewFaults => ClientIsSound
  BY SoundIsSound
<1> QED BY <1>1, <1>2, <1>3, PTL DEF ClientSpec
=============================================================================
