---------------------------- MODULE CometAdapter ----------------------------
(***************************************************************************)
(* The comet endpoint of the Atmosphere sample                             *)
(* (org.springframework.integration.comet): threads that send messages to  *)
(* its channel, its queue with the broadcast threshold, the broadcaster it *)
(* looks up lazily, and the browsers that subscribe over HTTP.             *)
(*                                                                         *)
(* The channel "out" is a direct channel: handleMessage runs on the thread *)
(* that sends, a poller thread or the servlet thread of a POST.  One       *)
(* action is one access to state that other threads share.  The Atmosphere *)
(* broadcaster is external: it takes the batches in the order in which     *)
(* they are submitted and writes each to the suspended resources.          *)
(***************************************************************************)
EXTENDS Naturals, Sequences, FiniteSets

CONSTANTS
  Thread,       \* threads that send to the channel
  Msg,          \* messages; each is sent at most once
  Streaming,    \* browsers with the streaming transport
  LongPolling,  \* browsers with the long-polling transport
  Threshold,    \* messageThreshold of the endpoint
  MaxRestarts,  \* bound: restarts of the endpoint
  NoMsg

Browser == Streaming \cup LongPolling

ASSUME CometAssumption ==
  /\ Streaming \cap LongPolling = {}
  /\ Threshold \in Nat /\ MaxRestarts \in Nat
  /\ NoMsg \notin Msg

VARIABLES
  running,    \* the endpoint is subscribed to its channel
  queue,      \* messageQueue: the LinkedBlockingQueue of the current start
  named,      \* the factory knows a broadcaster under the component's name
  cached,     \* the field broadcaster of the adapter is set
  pc,         \* label of every sending thread
  msg,        \* message of every sending thread
  batch,      \* broadcastMessages of every sending thread
  outbox,     \* external: batches submitted to the broadcaster, with owner
  request,    \* state of the GET request of every browser
  received,   \* messages written to every browser
  accepted,   \* ghost: messages added to the queue, in order
  drained,    \* ghost: messages taken from the queue, in order
  log,        \* ghost: messages broadcast, in order
  restarts    \* ghost: number of restarts

httpVars  == <<named, request, received>>
ghostVars == <<accepted, drained, log, restarts>>
vars == <<running, queue, cached, pc, msg, batch, outbox, httpVars, ghostVars>>

Batch == [owner : Thread, messages : Seq(Msg)]
Label == {"idle", "add", "check", "lookup", "drain", "submit", "await"}

TypeOK ==
  /\ running \in BOOLEAN /\ named \in BOOLEAN /\ cached \in BOOLEAN
  /\ queue \in Seq(Msg)
  /\ pc \in [Thread -> Label]
  /\ msg \in [Thread -> Msg \cup {NoMsg}]
  /\ batch \in [Thread -> Seq(Msg)]
  /\ outbox \in Seq(Batch)
  /\ request \in [Browser -> {"none", "named", "suspended"}]
  /\ received \in [Browser -> Seq(Msg)]
  /\ accepted \in Seq(Msg) /\ drained \in Seq(Msg) /\ log \in Seq(Msg)
  /\ restarts \in Nat
  /\ \A t \in Thread : pc[t] = "add" => msg[t] \in Msg

Init ==
  /\ running = TRUE /\ named = FALSE /\ cached = FALSE
  /\ queue = <<>>
  /\ pc = [t \in Thread |-> "idle"]
  /\ msg = [t \in Thread |-> NoMsg]
  /\ batch = [t \in Thread |-> <<>>]
  /\ outbox = <<>>
  /\ request = [b \in Browser |-> "none"]
  /\ received = [b \in Browser |-> <<>>]
  /\ accepted = <<>> /\ drained = <<>> /\ log = <<>>
  /\ restarts = 0

Elements(s) == {s[i] : i \in 1..Len(s)}
Goto(t, label) == pc' = [pc EXCEPT ![t] = label]

-----------------------------------------------------------------------------
(***************************************************************************)
(* Sending.  A POST first gives its broadcaster the component's name, then *)
(* publishes; a poller just sends.  A stopped endpoint has no subscriber   *)
(* on the channel, so the send is refused there.                           *)
(***************************************************************************)
Unsent == Msg \ (Elements(accepted) \cup {msg[t] : t \in Thread})

Dispatch(t) == \E m \in Unsent :
  /\ running
  /\ pc[t] = "idle"
  /\ Goto(t, "add")
  /\ msg' = [msg EXCEPT ![t] = m]
  /\ UNCHANGED <<running, queue, cached, batch, outbox, request, received,
                 ghostVars>>

Poll(t) == Dispatch(t) /\ UNCHANGED named

Post(t) == Dispatch(t) /\ named' = TRUE

\* a POST whose body cannot be read, or that finds the endpoint stopped, ends in
\* an exception after it has given the broadcaster its name
PostFails ==
  /\ named' = TRUE
  /\ UNCHANGED <<running, queue, cached, pc, msg, batch, outbox, request,
                 received, ghostVars>>

\* messageQueue.add(httpMessage)
Add(t) ==
  /\ pc[t] = "add"
  /\ queue' = Append(queue, msg[t])
  /\ accepted' = Append(accepted, msg[t])
  /\ msg' = [msg EXCEPT ![t] = NoMsg]
  /\ Goto(t, "check")
  /\ UNCHANGED <<running, cached, batch, outbox, httpVars, drained, log,
                 restarts>>

\* messageQueue.size() >= messageThreshold
Check(t) ==
  /\ pc[t] = "check"
  /\ Goto(t, IF Len(queue) >= Threshold THEN "lookup" ELSE "idle")
  /\ UNCHANGED <<running, queue, cached, msg, batch, outbox, httpVars,
                 ghostVars>>

\* ensureBroadcasterSetup, and the early return when there is no broadcaster
Lookup(t) ==
  /\ pc[t] = "lookup"
  /\ cached' = (cached \/ named)
  /\ Goto(t, IF cached' THEN "drain" ELSE "idle")
  /\ UNCHANGED <<running, queue, msg, batch, outbox, httpVars, ghostVars>>

\* mutant: the drained messages stay in the queue
DrainMutant(t) ==
  /\ pc[t] = "drain"
  /\ batch' = [batch EXCEPT ![t] = queue]
  /\ drained' = drained \o queue
  /\ Goto(t, IF queue = <<>> THEN "idle" ELSE "submit")
  /\ UNCHANGED <<running, queue, cached, msg, outbox, httpVars, accepted, log,
                 restarts>>

\* mutant: only the newest message is taken
DrainNewestMutant(t) ==
  /\ pc[t] = "drain"
  /\ IF queue = <<>>
     THEN Goto(t, "idle") /\ UNCHANGED <<queue, batch, drained>>
     ELSE LET n == Len(queue) IN
          /\ Goto(t, "submit")
          /\ batch' = [batch EXCEPT ![t] = <<queue[n]>>]
          /\ queue' = SubSeq(queue, 1, n - 1)
          /\ drained' = Append(drained, queue[n])
  /\ UNCHANGED <<running, cached, msg, outbox, httpVars, accepted, log,
                 restarts>>

\* messageQueue.drainTo(broadcastMessages); nothing to do when it is empty
Drain(t) ==
  /\ pc[t] = "drain"
  /\ batch' = [batch EXCEPT ![t] = queue]
  /\ queue' = <<>>
  /\ drained' = drained \o queue
  /\ Goto(t, IF queue = <<>> THEN "idle" ELSE "submit")
  /\ UNCHANGED <<running, cached, msg, outbox, httpVars, accepted, log,
                 restarts>>

\* b.broadcast(broadcastMessages)
Submit(t) ==
  /\ pc[t] = "submit"
  /\ outbox' = Append(outbox, [owner |-> t, messages |-> batch[t]])
  /\ batch' = [batch EXCEPT ![t] = <<>>]
  /\ Goto(t, "await")
  /\ UNCHANGED <<running, queue, cached, msg, httpVars, ghostVars>>

\* future.get() returns once the broadcaster has written the batch
Await(t) ==
  /\ pc[t] = "await"
  /\ \A i \in 1..Len(outbox) : outbox[i].owner # t
  /\ Goto(t, "idle")
  /\ UNCHANGED <<running, queue, cached, msg, batch, outbox, httpVars,
                 ghostVars>>

-----------------------------------------------------------------------------
(***************************************************************************)
(* The broadcaster writes the oldest batch to every suspended resource     *)
(* (HttpMessageBroadcaster.broadcast: the merged payloads of the batch)    *)
(* and resumes those that asked for it, the long-polling ones.  For the    *)
(* resources in failed the payload could not be converted or written: they *)
(* get nothing and are not resumed.                                        *)
(***************************************************************************)
Suspended == {b \in Browser : request[b] = "suspended"}

\* mutant: a batch is kept until some resource is suspended
WriteWaitsMutant ==
  /\ outbox # <<>>
  /\ Suspended # {}
  /\ log' = log \o Head(outbox).messages
  /\ outbox' = Tail(outbox)
  /\ UNCHANGED <<running, queue, cached, pc, msg, batch, httpVars, accepted,
                 drained, restarts>>

Write == \E failed \in SUBSET Suspended :
  /\ outbox # <<>>
  /\ LET messages == Head(outbox).messages IN
     /\ log' = log \o messages
     /\ received' = [b \in Browser |-> IF b \in Suspended \ failed
                                       THEN received[b] \o messages
                                       ELSE received[b]]
  /\ request' = [b \in Browser |-> IF b \in (Suspended \ failed) \cap LongPolling
                                   THEN "none" ELSE request[b]]
  /\ outbox' = Tail(outbox)
  /\ UNCHANGED <<running, queue, named, cached, pc, msg, batch, accepted,
                 drained, restarts>>

(***************************************************************************)
(* handleRequest for a GET: give the broadcaster the component's name,     *)
(* then suspend the resource.  A browser can go away at any time.          *)
(***************************************************************************)
Name(b) ==
  /\ request[b] = "none"
  /\ named' = TRUE
  /\ request' = [request EXCEPT ![b] = "named"]
  /\ UNCHANGED <<running, queue, cached, pc, msg, batch, outbox, received,
                 ghostVars>>

Suspend(b) ==
  /\ request[b] = "named"
  /\ request' = [request EXCEPT ![b] = "suspended"]
  /\ UNCHANGED <<running, queue, named, cached, pc, msg, batch, outbox,
                 received, ghostVars>>

Leave(b) ==
  /\ request[b] = "suspended"
  /\ request' = [request EXCEPT ![b] = "none"]
  /\ UNCHANGED <<running, queue, named, cached, pc, msg, batch, outbox,
                 received, ghostVars>>

(***************************************************************************)
(* doStop unsubscribes the endpoint; doStart gives it a new queue.  Calls  *)
(* of handleMessage that are under way go on, and read the field again.    *)
(***************************************************************************)
Stop ==
  /\ running /\ restarts < MaxRestarts
  /\ running' = FALSE
  /\ UNCHANGED <<queue, cached, pc, msg, batch, outbox, httpVars, ghostVars>>

Start ==
  /\ ~running
  /\ running' = TRUE
  /\ queue' = <<>>
  /\ restarts' = restarts + 1
  /\ UNCHANGED <<cached, pc, msg, batch, outbox, httpVars, accepted, drained,
                 log>>

-----------------------------------------------------------------------------
Handle(t) == \/ Add(t) \/ Check(t) \/ Lookup(t) \/ Drain(t) \/ Submit(t)
             \/ Await(t)

Next ==
  \/ \E t \in Thread : Poll(t) \/ Post(t) \/ Handle(t)
  \/ \E b \in Browser : Name(b) \/ Suspend(b) \/ Leave(b)
  \/ PostFails \/ Write \/ Stop \/ Start

\* threads and the broadcaster run when they can; a request that has given
\* the broadcaster its name goes on to suspend
Fairness ==
  /\ \A t \in Thread : WF_vars(Handle(t))
  /\ \A b \in Browser : WF_vars(Suspend(b))
  /\ WF_vars(Write)

Spec == Init /\ [][Next]_vars
FairSpec == Spec /\ Fairness

-----------------------------------------------------------------------------
(***************************************************************************)
(* Properties.                                                             *)
(***************************************************************************)
\* While the endpoint is not restarted, what was drained followed by what is
\* queued is what was accepted: no message is lost, none is drained twice,
\* and draining keeps the order (handleMessage, add and drainTo).
QueueAccounts == restarts = 0 => accepted = drained \o queue

\* A queue that has reached the threshold (or, with a threshold of 0, is not
\* empty) does not lie idle once the adapter has found its broadcaster: some
\* thread in handleMessage is about to drain it.  The message "Message
\* received but no Broadcaster available" delays messages, it does not
\* strand them for good.
Ripe == Len(queue) >= Threshold /\ queue # <<>>
RipeQueueIsServed ==
  cached /\ Ripe => \E t \in Thread : pc[t] \in {"check", "lookup", "drain"}

\* handleMessage waits for its own batch only: a batch that is with the
\* broadcaster has its owner waiting, and an owner has one batch at most.
OwnerWaits ==
  \A i \in 1..Len(outbox) :
    /\ pc[outbox[i].owner] = "await"
    /\ \A j \in 1..Len(outbox) : outbox[j].owner = outbox[i].owner => i = j

\* A message overtakes an older one only if the older one is already in the
\* hands of another thread: what is still in the queue is never overtaken, and
\* with one sending thread the broadcasts keep the order of acceptance
\* (handleMessage, drainTo and broadcast).
InFlight == UNION ({Elements(outbox[i].messages) : i \in 1..Len(outbox)}
                   \cup {Elements(batch[t]) : t \in Thread})
NoOvertaking ==
  restarts = 0 => \A i, j \in 1..Len(accepted) :
    i < j /\ accepted[j] \in Elements(log) /\ accepted[i] \notin Elements(log)
      => accepted[i] \in InFlight /\ Cardinality(Thread) > 1

\* A message is held in one place and once: in the queue, in the batch of one
\* thread or in one batch at the broadcaster; a message being sent is in none,
\* and no batch at the broadcaster is empty (handleMessage: add, drainTo and
\* broadcast of concurrent threads).
Held == Elements(queue) \cup InFlight
NoRepeat(s) == \A i, j \in 1..Len(s) : s[i] = s[j] => i = j
Sent(i) == outbox[i].messages
QueueHeldOnce ==
  /\ NoRepeat(queue) /\ Elements(queue) \subseteq Elements(accepted)
  /\ \A t \in Thread : Elements(batch[t]) \cap Elements(queue) = {}
  /\ \A i \in 1..Len(outbox) : Elements(Sent(i)) \cap Elements(queue) = {}
BatchHeldOnce ==
  \A t \in Thread :
    /\ NoRepeat(batch[t]) /\ Elements(batch[t]) \subseteq Elements(accepted)
    /\ pc[t] = "submit" <=> batch[t] # <<>>
    /\ \A r \in Thread \ {t} : Elements(batch[r]) \cap Elements(batch[t]) = {}
    /\ \A i \in 1..Len(outbox) : Elements(Sent(i)) \cap Elements(batch[t]) = {}
SentHeldOnce ==
  \A i \in 1..Len(outbox) :
    /\ NoRepeat(Sent(i)) /\ Elements(Sent(i)) \subseteq Elements(accepted)
    /\ Sent(i) # <<>>
    /\ \A j \in 1..Len(outbox) :
         i # j => Elements(Sent(j)) \cap Elements(Sent(i)) = {}
MessageIsNew ==
  /\ Elements(log) \subseteq Elements(accepted)
  /\ \A t \in Thread : pc[t] = "add" =>
       /\ msg[t] \notin Elements(accepted)
       /\ \A r \in Thread \ {t} : pc[r] = "add" => msg[r] # msg[t]
HeldOnce == QueueHeldOnce /\ BatchHeldOnce /\ SentHeldOnce /\ MessageIsNew

\* Every message is broadcast at most once, after it was accepted, and is
\* forgotten only by a restart.
Channel == INSTANCE BroadcastChannel WITH pending <- Held
ImplementsChannel == Channel!Spec

\* What is in the queue when it is ripe, and the broadcaster known, is broadcast,
\* whichever of the sending threads drains it and whatever they drain meanwhile,
\* unless the endpoint is stopped (handleMessage, ensureBroadcasterSetup).
SentIsBroadcast ==
  \A m \in Msg :
    cached /\ Len(queue) >= Threshold /\ m \in Elements(queue)
      ~> m \in Elements(log) \/ restarts > 0

\* Every call of handleMessage returns.
HandleReturns == \A t \in Thread : pc[t] # "idle" ~> pc[t] = "idle"
=============================================================================
