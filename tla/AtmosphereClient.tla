-------------------------- MODULE AtmosphereClient --------------------------
(***************************************************************************)
(* jQuery.atmosphere, the client of the comet endpoint: one page that      *)
(* subscribes, publishes and pushes, its XMLHttpRequests, its WebSocket    *)
(* and the timers that renew its subscriptions.                            *)
(*                                                                         *)
(* The library keeps one object per page, jQuery.atmosphere, and a request *)
(* object per call of subscribe and publish, which the handlers of an      *)
(* XMLHttpRequest hold on to.  A call of the page, an event of a           *)
(* connection and a timer are one task each.  The endpoint is replaced by  *)
(* what it promises, BroadcastChannel: what it broadcasts is written to    *)
(* every suspended connection.                                             *)
(***************************************************************************)
EXTENDS Integers, Sequences, FiniteSets

CONSTANTS
  Msg,         \* messages, each published by the page or sent by others
  Browsers,    \* the browsers a page may run in
  Transports,  \* the transports a page may ask subscribe for
  Fallback,    \* fallbackTransport
  WebSockets,  \* window.WebSocket exists
  MaxRequest,  \* maxRequest of a subscription
  MaxSubs,     \* bound: calls of subscribe
  MaxFaults,   \* bound: refused answers, lost requests, closed sockets, timeouts
  Junk,        \* the comment that opens a stream, "<!--"
  Absent

ASSUME BrowsersAreKnown == Browsers \subseteq {"standard", "ie", "opera"}
ASSUME TransportsAreKnown ==
  /\ Transports \subseteq {"long-polling", "streaming", "websocket"}
  /\ Fallback \in {"long-polling", "streaming"}
ASSUME ClientBoundsAreCounts ==
  /\ MaxRequest \in Nat \ {0} /\ MaxSubs \in Nat /\ MaxFaults \in Nat
  /\ WebSockets \in BOOLEAN
ASSUME NoMessageIsJunk == Junk \notin Msg /\ Absent \notin Msg

VARIABLES
  browser,  \* what $.browser says
  am,       \* jQuery.atmosphere
  reqs,     \* the request objects, in the order in which they were made
  conns,    \* the connections, in the order in which they were opened
  failed,   \* ghost: why the page may be left without a connection
  faults,   \* faults so far
  pending, log, restarts  \* the endpoint, as BroadcastChannel has it

endpoint == <<pending, log, restarts>>
clientVars == <<browser, am, reqs, conns, failed, faults, endpoint>>

Endpoint == INSTANCE BroadcastChannel

\* What a request may ask for: publish makes polls of what it is given.
Transport == Transports \cup {Fallback, "polling"}

Request ==
  [transport : Transport, suspend : BOOLEAN,
   requestCount : 0 .. MaxRequest + 1, lastIndex : Nat,
   id : Nat, data : Msg \cup {Absent}]

\* phase: readyState 1, 2 or 3, 4, and aborted.  answer: what the server has
\* done with it.  text: responseText, of which read has been seen.  timer: the
\* timeout set after send.  told: how often callbacks were given a message.
Connection ==
  [kind : {"xhr", "frame", "socket"}, request : Nat, transport : Transport,
   data : Msg \cup {Absent}, phase : {"sent", "open", "done", "aborted"},
   answer : {"none", "suspended", "ok", "refused"},
   text : Seq(Msg \cup {Junk}), read : Nat, timer : BOOLEAN,
   told : [Msg -> 0 .. 2]]

ClientTypeOK ==
  /\ browser \in Browsers
  /\ am \in [request : 0 .. Len(reqs), activeRequest : 0 .. Len(conns),
             activeTransport : Transport \cup {Absent}, websocket : 0 .. Len(conns),
             push : {"none", "publish", "socket"}, socketRequest : 0 .. Len(reqs),
             callbacks : 0 .. 1, subscribed : 0 .. MaxSubs]
  /\ reqs \in Seq(Request)
  /\ conns \in Seq(Connection)
  /\ failed \subseteq {"budget", "refused", "lost", "socket", "downgrade"}
  /\ faults \in 0 .. MaxFaults

ClientInit ==
  /\ browser \in Browsers
  /\ am = [request |-> 0, activeRequest |-> 0, activeTransport |-> Absent, websocket |-> 0,
           push |-> "none", socketRequest |-> 0, callbacks |-> 0, subscribed |-> 0]
  /\ reqs = <<>> /\ conns = <<>> /\ failed = {} /\ faults = 0
  /\ Endpoint!Init

-----------------------------------------------------------------------------
(***************************************************************************)
(* The library, as functions of the state it changes: a page p is am, reqs,*)
(* conns and failed.                                                       *)
(***************************************************************************)
Page == [am |-> am, reqs |-> reqs, conns |-> conns, failed |-> failed]
Becomes(p) == am' = p.am /\ reqs' = p.reqs /\ conns' = p.conns /\ failed' = p.failed

Fail(p, why) == [p EXCEPT !.failed = @ \cup {why}]
Current(p) == p.reqs[p.am.request]

Open(p, kind, r) ==
  Append(p.conns,
    [kind |-> kind, request |-> p.am.request, transport |-> r.transport,
     data |-> r.data, phase |-> IF kind = "frame" THEN "open" ELSE "sent",
     answer |-> "none", text |-> <<>>, read |-> 0,
     timer |-> kind = "xhr" /\ r.suspend, told |-> [m \in Msg |-> 0]])

\* A connection that is over.
Over(c, phase) ==
  [c EXCEPT !.phase = phase, !.answer = "none", !.read = 0, !.text = <<>>,
            !.told = [m \in Msg |-> 0]]

Abort(p, x) ==
  IF x = 0 \/ p.conns[x].phase \in {"done", "aborted"} THEN p
  ELSE [p EXCEPT !.conns[x] = Over(@, "aborted")]

\* ieStreaming and operaStreaming: a stream the library keeps no handle of
frameStreaming(p) ==
  [p EXCEPT !.am.push = "publish", !.conns = Open(p, "frame", Current(p))]

\* requestCount++ < maxRequest
WithinBudget(r) == r.requestCount < MaxRequest

executeRequest(p) ==
  LET r == Current(p)
      x == Len(p.conns) + 1
      counted == [p EXCEPT !.reqs[p.am.request].requestCount =
                    IF @ > MaxRequest THEN @ ELSE @ + 1]
  IN IF r.transport = "streaming" /\ browser # "standard" THEN frameStreaming(p)
     ELSE IF ~WithinBudget(r) THEN Fail(counted, "budget")
     ELSE [counted EXCEPT
             !.am.push = "publish",
             !.am.activeRequest = IF r.suspend THEN x ELSE @,
             !.reqs[p.am.request].id = IF r.suspend THEN x ELSE @,
             !.conns = Open(p, "xhr", r)]

\* a new socket; the one it replaces is closed by closeSuspendedConnection or
\* goes on without a handle
executeWebSocket(p) ==
  [p EXCEPT !.am.push = "socket", !.am.socketRequest = p.am.request,
            !.am.websocket = Len(p.conns) + 1,
            !.conns = Open(p, "socket", Current(p))]

closeSuspendedConnection(p) ==
  [Abort(Abort(p, p.am.activeRequest), p.am.websocket) EXCEPT !.am.websocket = 0]

NewRequest(p, r) ==
  [p EXCEPT !.reqs = Append(@, r), !.am.request = Len(p.reqs) + 1]

subscribe(p, r) ==
  LET q == NewRequest(p, r)
      one == IF r.transport # p.am.activeTransport THEN closeSuspendedConnection(q) ELSE q
      on == [one EXCEPT !.am.activeTransport = r.transport]
  IN IF r.transport # "websocket" THEN executeRequest(on)
     ELSE IF WebSockets THEN executeWebSocket(on)
     ELSE executeRequest([on EXCEPT !.reqs[on.am.request].transport = Fallback])

publish(p, r) == executeRequest(NewRequest(p, [r EXCEPT !.transport = "polling"]))

clearTimeout(p, x) == IF x = 0 THEN p ELSE [p EXCEPT !.conns[x].timer = FALSE]

\* the page gives subscribe one function, always the same
addCallback(p) == IF p.am.callbacks = 0 THEN [p EXCEPT !.am.callbacks = 1] ELSE p

Count(n) == IF n > 2 THEN 2 ELSE n
invokeCallback(p, x, body) ==
  [p EXCEPT !.conns[x].told =
     [m \in Msg |-> IF \E i \in DOMAIN body : body[i] = m
                    THEN Count(@[m] + p.am.callbacks) ELSE @[m]]]

-----------------------------------------------------------------------------
(* What the page calls. *)

FreshRequest(transport, suspend, m) ==
  [transport |-> transport, suspend |-> suspend, requestCount |-> 0,
   lastIndex |-> 0, id |-> 0, data |-> m]

Subscribe(t) ==
  /\ am.subscribed < MaxSubs
  /\ Becomes([subscribe(addCallback(Page), FreshRequest(t, TRUE, Absent))
               EXCEPT !.am.subscribed = @ + 1])
  /\ UNCHANGED <<browser, faults, endpoint>>

\* Messages nobody has published, sent or broadcast.
Unsent ==
  {m \in Msg : m \notin pending /\ ~Endpoint!Occurs(m)
               /\ \A r \in DOMAIN reqs : reqs[r].data # m}

\* publish, and response.push(url, null, jQuery.atmosphere.request = {data: m})
\* which comes to the same
Publish(m) ==
  /\ m \in Unsent
  /\ Becomes(publish(Page, FreshRequest("polling", FALSE, m)))
  /\ UNCHANGED <<browser, faults, endpoint>>

\* ws.send, on a socket that is open
PushSocket(m) ==
  /\ m \in Unsent /\ am.push = "socket" /\ am.websocket # 0
  /\ conns[am.websocket].phase = "open"
  /\ Becomes(NewRequest(Page, FreshRequest("polling", FALSE, m)))
  /\ Endpoint!Accept(m)
  /\ UNCHANGED <<browser, faults>>

\* "Websocket failed. Downgrading to Comet and resending": the poll is opened
\* with the request object of the socket, which then becomes the post's.
Downgrade(p, m) ==
  LET r == p.am.socketRequest
      down == executeRequest([Fail(p, "downgrade") EXCEPT
                               !.am.request = r, !.reqs[r].transport = Fallback])
      post == [down EXCEPT !.reqs[r].suspend = FALSE, !.reqs[r].data = m]
  IN Abort(publish(post, Current(post)), p.am.websocket)

PushSocketThrows(m) ==
  /\ m \in Unsent /\ am.push = "socket"
  /\ am.websocket # 0 => conns[am.websocket].phase # "open"
  /\ Becomes(Downgrade(Page, m))
  /\ UNCHANGED <<browser, faults, endpoint>>

-----------------------------------------------------------------------------
(* The endpoint, and the network between. *)

Alive(x) == conns[x].phase \in {"sent", "open"}
Untaken(x) == Alive(x) /\ conns[x].answer = "none"

\* A GET is suspended; a stream is opened with a comment.
Suspend(x) ==
  /\ Untaken(x) /\ conns[x].kind # "socket" /\ conns[x].data = Absent
  /\ conns' = [conns EXCEPT
       ![x].answer = "suspended",
       ![x].text = IF conns[x].kind = "xhr" /\ conns[x].transport = "streaming"
                   THEN <<Junk>> ELSE <<>>]
  /\ UNCHANGED <<browser, faults, am, reqs, failed, endpoint>>

\* A POST is sent to the channel, and answered with an empty body.
TakePost(x) ==
  /\ Untaken(x) /\ conns[x].kind = "xhr" /\ conns[x].data # Absent
  /\ LET m == conns[x].data IN
     IF m \in pending \/ Endpoint!Occurs(m) THEN UNCHANGED endpoint ELSE Endpoint!Accept(m)
  /\ conns' = [conns EXCEPT ![x].answer = "ok"]
  /\ UNCHANGED <<browser, faults, am, reqs, failed>>

OthersSend(m) ==
  /\ m \in Unsent
  /\ Endpoint!Accept(m)
  /\ UNCHANGED <<browser, faults, am, reqs, conns, failed>>

\* A batch is written to the suspended connections; a long poll is answered
\* with it.
Broadcast(batch) ==
  /\ Endpoint!Broadcast(batch)
  /\ conns' = [x \in DOMAIN conns |->
       IF conns[x].answer # "suspended" THEN conns[x]
       ELSE [conns[x] EXCEPT
               !.text = @ \o SubSeq(log', Len(log) + 1, Len(log')),
               !.answer = IF conns[x].transport = "long-polling" THEN "ok" ELSE @]]
  /\ UNCHANGED <<browser, faults, am, reqs, failed>>

\* The endpoint ends a suspended request, or answers one with an error.
EndPoll(x) ==
  /\ Alive(x) /\ conns[x].kind = "xhr" /\ conns[x].answer = "suspended"
  /\ conns' = [conns EXCEPT ![x].answer = "ok"]
  /\ UNCHANGED <<browser, faults, am, reqs, failed, endpoint>>

Refuse(x) ==
  /\ faults < MaxFaults /\ faults' = faults + 1
  /\ Untaken(x) /\ conns[x].kind = "xhr"
  /\ conns' = [conns EXCEPT ![x].answer = "refused"]
  /\ UNCHANGED <<browser, am, reqs, failed, endpoint>>

-----------------------------------------------------------------------------
(***************************************************************************)
(* onreadystatechange and its like.  On a page that has only published,    *)
(* the variable abordingConnection does not exist: the handlers throw at   *)
(* once.                                                                   *)
(***************************************************************************)
Handled(p) == p.am.subscribed > 0
RequestOf(p, x) == p.reqs[p.conns[x].request]

\* lastIndex = responseText.length
Streamed(p, x) ==
  [p EXCEPT !.reqs[p.conns[x].request].lastIndex = p.conns[x].read]

\* responseText, or of a stream what has come since; substring of an index past
\* the end is empty
Body(p, x) ==
  LET r == RequestOf(p, x) IN
  SubSeq(p.conns[x].text, IF r.transport = "streaming" THEN r.lastIndex + 1 ELSE 1,
         p.conns[x].read)

\* What is told of a response; a piece with the comment in it is dropped.
Update(p, x) ==
  LET body == Body(p, x)
      q == IF RequestOf(p, x).transport = "streaming" THEN Streamed(p, x) ELSE p
  IN IF \E i \in DOMAIN body : body[i] = Junk THEN q ELSE invokeCallback(q, x, body)

\* readyState 2
OnHeaders(x) ==
  /\ conns[x].kind = "xhr" /\ conns[x].phase = "sent"
  /\ conns[x].answer \in {"ok", "refused"} \/ conns[x].text # <<>>
  /\ LET p == [Page EXCEPT !.conns[x].phase = "open"] IN
     Becomes(IF Handled(p) THEN clearTimeout(p, RequestOf(p, x).id) ELSE p)
  /\ UNCHANGED <<browser, faults, endpoint>>

\* readyState 3
OnText(x) ==
  /\ conns[x].kind = "xhr" /\ conns[x].phase = "open"
  /\ \E n \in conns[x].read + 1 .. Len(conns[x].text) :
       LET p == [Page EXCEPT !.conns[x].read = n] IN
       Becomes(IF ~Handled(p) THEN p
               ELSE IF browser = "ie" THEN clearTimeout(p, RequestOf(p, x).id)
               ELSE Update(p, x))
  /\ UNCHANGED <<browser, faults, endpoint>>

\* mutant: jQuery.atmosphere.request is left to the latest call
ReconnectMutant(p, x) ==
  IF ~RequestOf(p, x).suspend THEN p
  ELSE IF p.conns[x].answer = "ok" THEN executeRequest(p) ELSE Fail(p, "refused")

\* jQuery.atmosphere.request = request, and the next poll
Reconnect(p, x) ==
  LET q == [p EXCEPT !.am.request = p.conns[x].request] IN
  IF ~RequestOf(p, x).suspend THEN q
  ELSE IF p.conns[x].answer = "ok" THEN executeRequest(q) ELSE Fail(q, "refused")

FinishConnection(p, x, phase) == [p EXCEPT !.conns[x] = Over(@, phase)]

\* Internet Explorer has no responseText before readyState 4.
UpdateLate(p, x) == IF browser = "ie" THEN Update(p, x) ELSE p

\* readyState 4 of an answer
OnDone(x) ==
  /\ conns[x].kind = "xhr" /\ conns[x].phase = "open"
  /\ conns[x].answer \in {"ok", "refused"} /\ conns[x].read = Len(conns[x].text)
  /\ LET p == IF Handled(Page) THEN UpdateLate(Reconnect(Page, x), x) ELSE Page IN
     Becomes(FinishConnection(p, x, "done"))
  /\ UNCHANGED <<browser, faults, endpoint>>

\* readyState 4 with status 0, and onerror, whose request need not be the
\* activeRequest it forgets
OnError(x) ==
  /\ faults < MaxFaults /\ faults' = faults + 1
  /\ conns[x].kind = "xhr" /\ Alive(x)
  /\ LET p == FinishConnection(Page, x, "aborted")
         q == [p EXCEPT !.am.request = p.conns[x].request,
                        !.am.activeRequest = IF browser = "ie" THEN @ ELSE 0]
     IN Becomes(IF ~Handled(p) THEN p
                ELSE IF p.conns[x].timer \/ ~RequestOf(p, x).suspend THEN q
                ELSE Fail(q, "lost"))
  /\ UNCHANGED <<browser, endpoint>>

\* mutant: the timer aborts and leaves it at that
ResubscribeMutant(p, r) == p

\* subscribe(request.url, null, request): extend copies the request
Resubscribe(p, r) == subscribe(p, r)

\* The timer: abort, whose readyState 4 finds status 0, and subscribe anew.
OnPollTimeout(x) ==
  /\ faults < MaxFaults /\ faults' = faults + 1
  /\ conns[x].timer
  /\ LET p == clearTimeout(Page, x) IN
     Becomes(Resubscribe(Abort(p, x), RequestOf(p, x)))
  /\ UNCHANGED <<browser, endpoint>>

-----------------------------------------------------------------------------
(* Sockets and frames. *)

OnOpen(x) ==
  /\ conns[x].kind = "socket" /\ conns[x].phase = "sent"
  /\ conns' = [conns EXCEPT ![x].phase = "open", ![x].answer = "suspended"]
  /\ UNCHANGED <<browser, faults, am, reqs, failed, endpoint>>

\* onmessage, streamingCallback and the listener of an event source
OnMessage(x) ==
  /\ conns[x].kind # "xhr" /\ conns[x].phase = "open"
  /\ conns[x].read < Len(conns[x].text)
  /\ LET p == [Page EXCEPT !.conns[x].read = @ + 1] IN
     Becomes(invokeCallback(p, x, <<conns[x].text[p.conns[x].read]>>))
  /\ UNCHANGED <<browser, faults, endpoint>>

\* onerror and onclose tell the callbacks; nothing connects again
OnClose(x) ==
  /\ faults < MaxFaults /\ faults' = faults + 1
  /\ conns[x].kind # "xhr" /\ Alive(x)
  /\ Becomes(Fail(FinishConnection(Page, x, "done"), "socket"))
  /\ UNCHANGED <<browser, endpoint>>

-----------------------------------------------------------------------------
ClientCalls ==
  \/ \E t \in Transports : Subscribe(t)
  \/ \E m \in Msg : Publish(m) \/ PushSocket(m) \/ PushSocketThrows(m)

Serves ==
  \/ \E x \in DOMAIN conns : Suspend(x) \/ TakePost(x) \/ EndPoll(x) \/ Refuse(x)
  \/ \E m \in Msg : OthersSend(m)
  \/ \E batch \in SUBSET pending : Broadcast(batch)

Event(x) ==
  \/ OnHeaders(x) \/ OnText(x) \/ OnDone(x) \/ OnMessage(x) \/ OnOpen(x)

Events ==
  \E x \in DOMAIN conns : Event(x) \/ OnError(x) \/ OnPollTimeout(x) \/ OnClose(x)

ClientNext == ClientCalls \/ Serves \/ Events

ClientSpec == ClientInit /\ [][ClientNext]_clientVars

-----------------------------------------------------------------------------
(* Properties. *)

Subscribed(x) ==
  Alive(x) /\ (conns[x].kind = "xhr" => reqs[conns[x].request].suspend)

\* A page that has subscribed is never left without a connection and without a
\* timer that makes one, whatever it publishes, subscribes to again and gets
\* for answers, as long as no answer was an error, no socket was lost and
\* maxRequest was not reached (onreadystatechange, setTimeout, subscribe).
SubscriptionLives ==
  am.subscribed > 0 /\ failed = {} =>
    \E x \in DOMAIN conns : Subscribed(x) \/ conns[x].timer

\* A message the page publishes or pushes is posted once: polls that come to
\* an end meanwhile do not post it again.  A downgrade may, when its timer fires.
PublishedOnce ==
  "downgrade" \notin failed =>
    \A x, y \in DOMAIN conns :
      conns[x].data # Absent /\ conns[x].data = conns[y].data => x = y

\* A stream tells each message at most once, however its text is cut into
\* pieces, and so do frames and sockets.
StreamToldOnce ==
  \A x \in DOMAIN conns : conns[x].transport # "long-polling" =>
    \A m \in Msg : conns[x].told[m] <= 1

\* The page is well formed, and a message is posted once and told once by a
\* stream, a frame or a socket (executeRequest, onreadystatechange).
ClientIsSound == ClientTypeOK /\ PublishedOnce /\ StreamToldOnce

\* What the comment on closeSuspendedConnection says: "Always make sure one
\* transport is used, not two at the same time except for Websocket."
OneTransport ==
  \A x, y \in DOMAIN conns :
    /\ Subscribed(x) /\ conns[x].kind = "xhr"
    /\ Subscribed(y) /\ conns[y].kind = "xhr"
    => conns[x].transport = conns[y].transport
=============================================================================
