---------------------------- MODULE CometProofs -----------------------------
(***************************************************************************)
(* Proofs about the comet endpoint, for any threads, messages, browsers    *)
(* and thresholds: type correctness, the invariants of the queue, that it  *)
(* is never overtaken, and that the endpoint is a broadcast channel.       *)
(***************************************************************************)
EXTENDS CometAdapter, SequenceTheorems, FiniteSetTheorems, TLAPS

LEMMA InitTypeOK == Init => TypeOK
<1> SUFFICES ASSUME Init PROVE TypeOK
  OBVIOUS
<1>1. <<>> \in Seq(Msg) /\ <<>> \in Seq(Batch)
  BY EmptySeq
<1>2. pc \in [Thread -> Label] /\ \A t \in Thread : pc[t] # "add"
  BY DEF Init, Label
<1>3. /\ msg \in [Thread -> Msg \cup {NoMsg}]
      /\ batch \in [Thread -> Seq(Msg)]
      /\ received \in [Browser -> Seq(Msg)]
      /\ request \in [Browser -> {"none", "named", "suspended"}]
  BY <1>1 DEF Init
<1> QED
  BY <1>1, <1>2, <1>3 DEF Init, TypeOK

LEMMA WriteTypeOK == TypeOK /\ Write => TypeOK'
<1> SUFFICES ASSUME TypeOK, Write PROVE TypeOK'
  OBVIOUS
<1> USE DEF Write, TypeOK, httpVars, ghostVars
<1>1. Head(outbox) \in Batch /\ Tail(outbox) \in Seq(Batch)
  BY HeadTailProperties
<1> DEFINE messages == Head(outbox).messages
<1>2. messages \in Seq(Msg)
  BY <1>1 DEF Batch
<1> HIDE DEF messages
<1>3. log' = log \o messages
  BY DEF messages
<1>4. log' \in Seq(Msg)
  <2>1. log \in Seq(Msg)
    OBVIOUS
  <2> HIDE DEF Write, TypeOK
  <2> QED
    BY <1>2, <1>3, <2>1, ConcatProperties
<1>5. PICK failed \in SUBSET Suspended :
        /\ received' = [b \in Browser |-> IF b \in Suspended \ failed
                                          THEN received[b] \o messages
                                          ELSE received[b]]
        /\ request' = [b \in Browser |-> IF b \in (Suspended \ failed) \cap LongPolling
                                         THEN "none" ELSE request[b]]
  BY DEF messages
<1>6. received' \in [Browser -> Seq(Msg)]
  <2>1. \A b \in Browser : received[b] \o messages \in Seq(Msg)
    BY <1>2, ConcatProperties
  <2> QED
    BY <1>5, <2>1
<1>7. request' \in [Browser -> {"none", "named", "suspended"}]
  BY <1>5
<1> QED
  BY <1>1, <1>4, <1>6, <1>7 DEF Batch

LEMMA StepTypeOK == TypeOK /\ [Next]_vars => TypeOK'
<1> SUFFICES ASSUME TypeOK, [Next]_vars PROVE TypeOK'
  OBVIOUS
<1> USE DEF vars, httpVars, ghostVars
<1>1. ASSUME NEW t \in Thread, Poll(t) \/ Post(t) PROVE TypeOK'
  <2> PICK m \in Unsent : /\ pc[t] = "idle" /\ Goto(t, "add")
                          /\ msg' = [msg EXCEPT ![t] = m]
                          /\ UNCHANGED <<running, queue, cached, batch, outbox,
                                         request, received, ghostVars>>
    BY <1>1 DEF Poll, Post, Dispatch
  <2>1. m \in Msg /\ named' \in BOOLEAN
    BY <1>1 DEF Unsent, Poll, Post, TypeOK
  <2> QED
    BY <2>1 DEF Goto, Label, TypeOK
<1>2. ASSUME NEW t \in Thread, Handle(t) PROVE TypeOK'
  <2> USE DEF Goto, Label, TypeOK
  <2>1. CASE Add(t)
    BY <2>1, AppendProperties DEF Add
  <2>2. CASE Check(t)
    BY <2>2 DEF Check
  <2>3. CASE Lookup(t)
    BY <2>3 DEF Lookup
  <2>4. CASE Drain(t)
    <3>1. drained' \in Seq(Msg)
      BY <2>4, ConcatProperties DEF Drain
    <3> QED
      BY <2>4, <3>1 DEF Drain
  <2>5. CASE Submit(t)
    <3>1. [owner |-> t, messages |-> batch[t]] \in Batch
      BY DEF Batch
    <3>2. outbox' \in Seq(Batch)
      BY <2>5, <3>1, AppendProperties DEF Submit, Batch
    <3> QED
      BY <2>5, <3>2 DEF Submit, Batch
  <2>6. CASE Await(t)
    BY <2>6 DEF Await
  <2> QED
    BY <1>2, <2>1, <2>2, <2>3, <2>4, <2>5, <2>6 DEF Handle
<1>3. ASSUME NEW b \in Browser, Name(b) \/ Suspend(b) \/ Leave(b) PROVE TypeOK'
  BY <1>3 DEF Name, Suspend, Leave, TypeOK
<1>4. CASE Write
  BY <1>4, WriteTypeOK
<1>5. CASE Stop
  BY <1>5 DEF Stop, TypeOK
<1>6. CASE Start
  BY <1>6 DEF Start, TypeOK
<1>7. CASE PostFails
  BY <1>7 DEF PostFails, TypeOK
<1>8. CASE UNCHANGED vars
  BY <1>8 DEF TypeOK
<1> QED
  BY <1>1, <1>2, <1>3, <1>4, <1>5, <1>6, <1>7, <1>8 DEF Next

\* Every reachable state of the endpoint is well typed; in particular a thread
\* never queues a missing message (AsyncHttpRequestHandlingMessageAdapter).
THEOREM CometTypeOK == Spec => []TypeOK
<1>1. Init => TypeOK
  BY InitTypeOK
<1>2. TypeOK /\ [Next]_vars => TypeOK'
  BY StepTypeOK
<1> QED
  BY <1>1, <1>2, PTL DEF Spec

-----------------------------------------------------------------------------
LEMMA StepQueueAccounts ==
  TypeOK /\ QueueAccounts /\ [Next]_vars => QueueAccounts'
<1> SUFFICES ASSUME TypeOK, QueueAccounts, [Next]_vars, restarts' = 0
             PROVE  accepted' = drained' \o queue'
  BY DEF QueueAccounts
<1> USE DEF vars, httpVars, ghostVars, QueueAccounts
<1>1. ASSUME NEW t \in Thread, Add(t) PROVE accepted' = drained' \o queue'
  <2>1. accepted = drained \o queue
    BY <1>1 DEF Add
  <2>2. msg[t] \in Msg /\ queue \in Seq(Msg) /\ drained \in Seq(Msg)
    BY <1>1 DEF Add, TypeOK
  <2>3. Append(drained \o queue, msg[t]) = drained \o Append(queue, msg[t])
    BY <2>2
  <2> QED
    BY <1>1, <2>1, <2>3 DEF Add
<1>2. ASSUME NEW t \in Thread, Drain(t) PROVE accepted' = drained' \o queue'
  <2>1. accepted = drained \o queue
    BY <1>2 DEF Drain
  <2>2. drained \o queue \in Seq(Msg)
    BY ConcatProperties DEF TypeOK
  <2>3. (drained \o queue) \o <<>> = drained \o queue
    BY <2>2, ConcatEmptySeq
  <2> QED
    BY <1>2, <2>1, <2>3 DEF Drain
<1>3. ASSUME UNCHANGED <<accepted, drained, queue, restarts>>
      PROVE accepted' = drained' \o queue'
  BY <1>3
<1>4. ~Start
  BY DEF Start, TypeOK
<1> QED
  BY <1>1, <1>2, <1>3, <1>4
     DEF Next, Poll, Post, Dispatch, Handle, Check, Lookup, Submit, Await,
         Name, Suspend, Leave, PostFails, Write, Stop

\* Until the endpoint is restarted, what was drained followed by what is queued
\* is what was accepted (handleMessage: add, drainTo).
THEOREM QueueIsAccountedFor == Spec => []QueueAccounts
<1>1. Init => QueueAccounts
  BY ConcatEmptySeq DEF Init, QueueAccounts
<1>2. TypeOK /\ QueueAccounts /\ [Next]_vars => QueueAccounts'
  BY StepQueueAccounts
<1> QED
  BY <1>1, <1>2, CometTypeOK, PTL DEF Spec

-----------------------------------------------------------------------------
LEMMA StepRipeQueueIsServed ==
  TypeOK /\ RipeQueueIsServed /\ [Next]_vars => RipeQueueIsServed'
<1> SUFFICES ASSUME TypeOK, RipeQueueIsServed, [Next]_vars, cached', Ripe'
             PROVE  \E t \in Thread : pc'[t] \in {"check", "lookup", "drain"}
  BY DEF RipeQueueIsServed
<1> DEFINE Served == \E t \in Thread : pc'[t] \in {"check", "lookup", "drain"}
<1> USE DEF vars, httpVars, ghostVars, Goto
<1>1. ASSUME NEW t \in Thread, Add(t) PROVE Served
  BY <1>1 DEF Add, TypeOK
<1>2. ASSUME NEW t \in Thread, Check(t) PROVE Served
  <2>1. Len(queue) >= Threshold
    BY <1>2 DEF Check, Ripe
  <2> QED
    BY <1>2, <2>1 DEF Check, TypeOK
<1>3. ASSUME NEW t \in Thread, Lookup(t) PROVE Served
  BY <1>3 DEF Lookup, TypeOK
<1>4. ASSUME NEW t \in Thread, Drain(t) PROVE Served
  BY <1>4 DEF Drain, Ripe
<1>5. CASE Start
  BY <1>5 DEF Start, Ripe
<1>6. ASSUME NEW t \in Thread, Poll(t) \/ Post(t) \/ Submit(t) \/ Await(t)
      PROVE  Served
  <2>1. cached /\ Ripe
    BY <1>6 DEF Poll, Post, Dispatch, Submit, Await, Ripe
  <2>2. PICK r \in Thread : pc[r] \in {"check", "lookup", "drain"}
    BY <2>1 DEF RipeQueueIsServed
  <2>3. pc'[r] = pc[r]
    BY <1>6, <2>2 DEF Poll, Post, Dispatch, Submit, Await, TypeOK
  <2> QED
    BY <2>2, <2>3
<1>7. CASE UNCHANGED <<queue, cached, pc>>
  BY <1>7 DEF RipeQueueIsServed, Ripe
<1> QED
  BY <1>1, <1>2, <1>3, <1>4, <1>5, <1>6, <1>7
     DEF Next, Handle, Name, Suspend, Leave, PostFails, Write, Stop

\* Once the broadcaster is found, a queue at its threshold always has a thread
\* in handleMessage that is about to drain it.
THEOREM RipeQueueHasAThread == Spec => []RipeQueueIsServed
<1>1. Init => RipeQueueIsServed
  BY DEF Init, RipeQueueIsServed
<1>2. TypeOK /\ RipeQueueIsServed /\ [Next]_vars => RipeQueueIsServed'
  BY StepRipeQueueIsServed
<1> QED
  BY <1>1, <1>2, CometTypeOK, PTL DEF Spec

-----------------------------------------------------------------------------
LEMMA StepOwnerWaits == TypeOK /\ OwnerWaits /\ [Next]_vars => OwnerWaits'
<1> SUFFICES ASSUME TypeOK, OwnerWaits, [Next]_vars PROVE OwnerWaits'
  OBVIOUS
<1> USE DEF vars, httpVars, ghostVars, Goto
<1>1. \A i \in 1..Len(outbox) : outbox[i] \in Batch
  BY ElementOfSeq DEF TypeOK, Batch
<1>2. ASSUME NEW t \in Thread, Submit(t) PROVE OwnerWaits'
  <2> DEFINE new == [owner |-> t, messages |-> batch[t]]
  <2>1. outbox' = Append(outbox, new)
    BY <1>2 DEF Submit
  <2>7. new \in Batch
    BY DEF TypeOK, Batch
  <2> HIDE DEF new
  <2>2. /\ Len(outbox') = Len(outbox) + 1
        /\ \A i \in 1..Len(outbox) : outbox'[i] = outbox[i]
        /\ outbox'[Len(outbox) + 1] = new
    BY <2>1, <2>7, AppendProperties DEF TypeOK
  <2>3. \A i \in 1..Len(outbox) : outbox[i].owner # t
    BY <1>2 DEF Submit, OwnerWaits
  <2>4. /\ pc'[t] = "await"
        /\ \A r \in Thread \ {t} : pc'[r] = pc[r]
    BY <1>2 DEF Submit, TypeOK
  <2>5. new.owner = t
    BY DEF new
  <2>8. Len(outbox) \in Nat
    BY LenProperties DEF TypeOK
  <2>6. \A i \in 1..Len(outbox') : pc'[outbox'[i].owner] = "await"
    <3>1. \A i \in 1..Len(outbox) : pc'[outbox[i].owner] = "await"
      BY <1>1, <2>3, <2>4 DEF OwnerWaits, Batch
    <3> QED
      BY <3>1, <2>2, <2>4, <2>5, <2>8
  <2>9. \A i, j \in 1..Len(outbox') :
          outbox'[j].owner = outbox'[i].owner => i = j
    <3>1. \A i, j \in 1..Len(outbox) :
            outbox'[j].owner = outbox'[i].owner => i = j
      BY <2>2 DEF OwnerWaits
    <3>2. \A i \in 1..Len(outbox) : outbox'[i].owner # outbox'[Len(outbox')].owner
      BY <2>2, <2>3, <2>5
    <3> QED
      BY <3>1, <3>2, <2>2, <2>8
  <2> QED
    BY <2>6, <2>9 DEF OwnerWaits
<1>3. ASSUME NEW t \in Thread,
             Poll(t) \/ Post(t) \/ Add(t) \/ Check(t) \/ Lookup(t) \/ Drain(t)
      PROVE  OwnerWaits'
  <2>1. outbox' = outbox /\ pc[t] # "await"
    BY <1>3 DEF Poll, Post, Dispatch, Add, Check, Lookup, Drain
  <2>2. \A r \in Thread \ {t} : pc'[r] = pc[r]
    BY <1>3 DEF Poll, Post, Dispatch, Add, Check, Lookup, Drain, TypeOK
  <2> QED
    BY <1>1, <2>1, <2>2 DEF OwnerWaits, Batch
<1>4. ASSUME NEW t \in Thread, Await(t) PROVE OwnerWaits'
  <2>1. outbox' = outbox /\ \A i \in 1..Len(outbox) : outbox[i].owner # t
    BY <1>4 DEF Await
  <2>2. \A r \in Thread \ {t} : pc'[r] = pc[r]
    BY <1>4 DEF Await, TypeOK
  <2> QED
    BY <1>1, <2>1, <2>2 DEF OwnerWaits, Batch
<1>5. CASE Write
  <2>1. /\ Len(outbox') = Len(outbox) - 1
        /\ \A i \in 1..Len(outbox') : outbox'[i] = outbox[i + 1]
        /\ pc' = pc
    BY <1>5 DEF Write, TypeOK
  <2>2. Len(outbox) \in Nat
    BY DEF TypeOK
  <2> QED
    BY <2>1, <2>2 DEF OwnerWaits
<1>6. CASE UNCHANGED <<outbox, pc>>
  BY <1>6 DEF OwnerWaits
<1> QED
  BY <1>2, <1>3, <1>4, <1>5, <1>6
     DEF Next, Handle, Name, Suspend, Leave, PostFails, Stop, Start

\* A batch that is with the broadcaster has the thread that submitted it
\* waiting for it, and no thread has two (handleMessage, future.get).
THEOREM SubmittedBatchHasItsOwner == Spec => []OwnerWaits
<1>1. Init => OwnerWaits
  BY DEF Init, OwnerWaits
<1>2. TypeOK /\ OwnerWaits /\ [Next]_vars => OwnerWaits'
  BY StepOwnerWaits
<1> QED
  BY <1>1, <1>2, CometTypeOK, PTL DEF Spec

-----------------------------------------------------------------------------
(***************************************************************************)
(* The endpoint implements the abstract broadcast channel.  What the step  *)
(* correspondence needs is that no message is held twice: then the whole   *)
(* of a batch, and nothing else, leaves the pending messages when it is    *)
(* written.                                                                *)
(***************************************************************************)
LEMMA EmptyElements == Elements(<<>>) = {} /\ NoRepeat(<<>>)
  BY DEF Elements, NoRepeat

LEMMA AppendElements ==
  ASSUME NEW s \in Seq(Msg), NEW m \in Msg
  PROVE  /\ Elements(Append(s, m)) = Elements(s) \cup {m}
         /\ NoRepeat(s) /\ m \notin Elements(s) => NoRepeat(Append(s, m))
<1>1. /\ Len(s) \in Nat
      /\ Len(Append(s, m)) = Len(s) + 1
      /\ Append(s, m)[Len(s) + 1] = m
      /\ \A i \in 1..Len(s) : Append(s, m)[i] = s[i]
  BY AppendProperties
<1> QED
  BY <1>1 DEF Elements, NoRepeat

LEMMA ConcatElements ==
  ASSUME NEW s \in Seq(Msg), NEW r \in Seq(Msg)
  PROVE  Elements(s \o r) = Elements(s) \cup Elements(r)
<1>1. /\ Len(s) \in Nat /\ Len(r) \in Nat
      /\ Len(s \o r) = Len(s) + Len(r)
      /\ \A i \in 1..Len(s) + Len(r) :
           (s \o r)[i] = IF i <= Len(s) THEN s[i] ELSE r[i - Len(s)]
  BY ConcatProperties
<1>2. \A x : x \in Elements(s \o r) => x \in Elements(s) \cup Elements(r)
  BY <1>1 DEF Elements
<1>3. \A x : x \in Elements(s) => x \in Elements(s \o r)
  BY <1>1 DEF Elements
<1>4. \A x : x \in Elements(r) => x \in Elements(s \o r)
  <2> SUFFICES ASSUME NEW i \in 1..Len(r) PROVE r[i] \in Elements(s \o r)
    BY DEF Elements
  <2>1. (s \o r)[Len(s) + i] = r[i] /\ Len(s) + i \in 1..Len(s \o r)
    BY <1>1
  <2> QED
    BY <2>1 DEF Elements
<1> QED
  BY <1>2, <1>3, <1>4

LEMMA InitHeldOnce == Init => HeldOnce
  BY EmptyElements
     DEF Init, HeldOnce, QueueHeldOnce, BatchHeldOnce, SentHeldOnce,
         MessageIsNew

LEMMA DispatchHeldOnce ==
  ASSUME TypeOK, HeldOnce, NEW t \in Thread, Dispatch(t) PROVE HeldOnce'
<1> USE DEF Sent, ghostVars
<1>1. PICK m \in Unsent :
        /\ pc[t] = "idle" /\ Goto(t, "add")
        /\ msg' = [msg EXCEPT ![t] = m]
        /\ UNCHANGED <<queue, batch, outbox, accepted, log>>
  BY DEF Dispatch
<1>2. /\ m \notin Elements(accepted) /\ \A r \in Thread : msg[r] # m
  BY DEF Unsent
<1>3. pc'[t] = "add" /\ \A r \in Thread \ {t} : pc'[r] = pc[r]
  BY <1>1 DEF Goto, TypeOK
<1>4. msg'[t] = m /\ \A r \in Thread \ {t} : msg'[r] = msg[r]
  BY <1>1 DEF TypeOK
<1>5. QueueHeldOnce' /\ SentHeldOnce'
  BY <1>1 DEF HeldOnce, QueueHeldOnce, SentHeldOnce
<1>6. BatchHeldOnce'
  BY <1>1, <1>3 DEF HeldOnce, BatchHeldOnce
<1>7. MessageIsNew'
  BY <1>1, <1>2, <1>3, <1>4 DEF HeldOnce, MessageIsNew
<1> QED
  BY <1>5, <1>6, <1>7 DEF HeldOnce

LEMMA AddHeldOnce ==
  ASSUME TypeOK, HeldOnce, NEW t \in Thread, Add(t) PROVE HeldOnce'
<1> USE DEF Sent
<1>1. /\ pc[t] = "add" /\ msg[t] \in Msg
      /\ queue' = Append(queue, msg[t]) /\ accepted' = Append(accepted, msg[t])
      /\ UNCHANGED <<batch, outbox, log>>
  BY DEF Add, TypeOK
<1>2. pc'[t] = "check" /\ \A r \in Thread \ {t} : pc'[r] = pc[r] /\ msg'[r] = msg[r]
  BY DEF Add, Goto, TypeOK
<1>3. queue \in Seq(Msg) /\ accepted \in Seq(Msg)
  BY DEF TypeOK
<1>4. /\ Elements(queue') = Elements(queue) \cup {msg[t]}
      /\ Elements(accepted') = Elements(accepted) \cup {msg[t]}
  BY <1>1, <1>3, AppendElements
<1>5. msg[t] \notin Elements(accepted)
  BY <1>1 DEF HeldOnce, MessageIsNew
<1>6. QueueHeldOnce'
  <2>1. NoRepeat(queue')
    BY <1>1, <1>3, <1>5, AppendElements DEF HeldOnce, QueueHeldOnce
  <2>2. \A r \in Thread : msg[t] \notin Elements(batch[r])
    BY <1>5 DEF HeldOnce, BatchHeldOnce
  <2>3. \A i \in 1..Len(outbox) : msg[t] \notin Elements(outbox[i].messages)
    BY <1>5 DEF HeldOnce, SentHeldOnce
  <2> QED
    BY <1>1, <1>4, <2>1, <2>2, <2>3 DEF HeldOnce, QueueHeldOnce
<1>7. BatchHeldOnce'
  BY <1>1, <1>2, <1>4 DEF HeldOnce, BatchHeldOnce
<1>8. SentHeldOnce'
  BY <1>1, <1>4 DEF HeldOnce, SentHeldOnce
<1>9. MessageIsNew'
  BY <1>1, <1>2, <1>4 DEF HeldOnce, MessageIsNew
<1> QED
  BY <1>6, <1>7, <1>8, <1>9 DEF HeldOnce

LEMMA DrainHeldOnce ==
  ASSUME TypeOK, HeldOnce, NEW t \in Thread, Drain(t) PROVE HeldOnce'
<1> USE DEF Sent
<1>1. /\ pc[t] = "drain" /\ queue' = <<>>
      /\ UNCHANGED <<outbox, log, accepted, msg>>
  BY DEF Drain
<1>2. batch'[t] = queue /\ \A r \in Thread \ {t} : batch'[r] = batch[r]
  BY DEF Drain, TypeOK
<1>3. /\ pc'[t] = IF queue = <<>> THEN "idle" ELSE "submit"
      /\ \A r \in Thread \ {t} : pc'[r] = pc[r]
  BY DEF Drain, Goto, TypeOK
<1>4. QueueHeldOnce'
  BY <1>1, EmptyElements DEF QueueHeldOnce
<1>5. BatchHeldOnce'
  <2> SUFFICES ASSUME NEW r \in Thread
               PROVE  /\ NoRepeat(batch'[r])
                      /\ Elements(batch'[r]) \subseteq Elements(accepted)
                      /\ pc'[r] = "submit" <=> batch'[r] # <<>>
                      /\ \A q \in Thread \ {r} :
                           Elements(batch'[q]) \cap Elements(batch'[r]) = {}
                      /\ \A i \in 1..Len(outbox) :
                           Elements(outbox[i].messages)
                             \cap Elements(batch'[r]) = {}
    BY <1>1 DEF BatchHeldOnce
  <2>1. CASE r = t
    BY <1>2, <1>3, <2>1 DEF HeldOnce, QueueHeldOnce
  <2>2. CASE r # t
    BY <1>2, <1>3, <2>2 DEF HeldOnce, QueueHeldOnce, BatchHeldOnce
  <2> QED
    BY <2>1, <2>2
<1>6. SentHeldOnce'
  BY <1>1 DEF HeldOnce, SentHeldOnce
<1>7. MessageIsNew'
  BY <1>1, <1>3 DEF HeldOnce, MessageIsNew
<1> QED
  BY <1>4, <1>5, <1>6, <1>7 DEF HeldOnce

LEMMA SubmitOutbox ==
  ASSUME TypeOK, NEW t \in Thread, Submit(t)
  PROVE  /\ Len(outbox) \in Nat /\ Len(outbox') = Len(outbox) + 1
         /\ \A i \in 1..Len(outbox) : outbox'[i] = outbox[i]
         /\ outbox'[Len(outbox')].messages = batch[t]
<1> DEFINE new == [owner |-> t, messages |-> batch[t]]
<1>1. new \in Batch /\ new.messages = batch[t]
  BY DEF Batch, TypeOK
<1>2. outbox' = Append(outbox, new)
  BY DEF Submit
<1> HIDE DEF new
<1>3. outbox \in Seq(Batch)
  BY DEF TypeOK
<1> QED
  BY <1>1, <1>2, <1>3, AppendProperties

LEMMA SubmitHeldOnce ==
  ASSUME TypeOK, HeldOnce, NEW t \in Thread, Submit(t) PROVE HeldOnce'
<1> USE DEF Sent
<1> DEFINE n == Len(outbox)
<1>1. /\ n \in Nat /\ Len(outbox') = n + 1
      /\ \A i \in 1..n : outbox'[i] = outbox[i]
      /\ outbox'[n + 1].messages = batch[t]
  BY SubmitOutbox
<1>2. pc[t] = "submit" /\ UNCHANGED <<queue, accepted, log, msg>>
  BY DEF Submit, ghostVars
<1>3. batch'[t] = <<>> /\ \A r \in Thread \ {t} : batch'[r] = batch[r]
  BY DEF Submit, TypeOK
<1>4. pc'[t] = "await" /\ \A r \in Thread \ {t} : pc'[r] = pc[r]
  BY DEF Submit, Goto, TypeOK
<1> HIDE DEF n
<1>5. \A i \in 1..Len(outbox') : i = n + 1 \/ i \in 1..n
  BY <1>1
<1>6. QueueHeldOnce'
  BY <1>1, <1>2, <1>3, <1>5, EmptyElements
     DEF HeldOnce, QueueHeldOnce, n
<1>7. BatchHeldOnce'
  <2> SUFFICES ASSUME NEW r \in Thread
               PROVE  /\ NoRepeat(batch'[r])
                      /\ Elements(batch'[r]) \subseteq Elements(accepted)
                      /\ pc'[r] = "submit" <=> batch'[r] # <<>>
                      /\ \A q \in Thread \ {r} :
                           Elements(batch'[q]) \cap Elements(batch'[r]) = {}
                      /\ \A i \in 1..Len(outbox') :
                           Elements(outbox'[i].messages)
                             \cap Elements(batch'[r]) = {}
    BY <1>2 DEF BatchHeldOnce
  <2>1. CASE r = t
    BY <1>3, <1>4, <2>1, EmptyElements
  <2>2. CASE r # t
    <3>1. \A i \in 1..Len(outbox') :
            Elements(outbox'[i].messages) \cap Elements(batch[r]) = {}
      BY <1>1, <1>5, <2>2 DEF HeldOnce, BatchHeldOnce, n
    <3> QED
      BY <1>3, <1>4, <2>2, <3>1, EmptyElements DEF HeldOnce, BatchHeldOnce
  <2> QED
    BY <2>1, <2>2
<1>8. SentHeldOnce'
  <2>1. /\ NoRepeat(batch[t]) /\ batch[t] # <<>>
        /\ Elements(batch[t]) \subseteq Elements(accepted)
        /\ \A i \in 1..n : Elements(outbox[i].messages) \cap Elements(batch[t]) = {}
    BY <1>2 DEF HeldOnce, BatchHeldOnce, n
  <2>2. \A i \in 1..n :
          /\ NoRepeat(outbox[i].messages)
          /\ Elements(outbox[i].messages) \subseteq Elements(accepted)
          /\ outbox[i].messages # <<>>
          /\ \A j \in 1..n : i # j => Elements(outbox[j].messages)
                                        \cap Elements(outbox[i].messages) = {}
    BY DEF HeldOnce, SentHeldOnce, n
  <2>3. \A i \in 1..Len(outbox') :
          /\ NoRepeat(outbox'[i].messages)
          /\ Elements(outbox'[i].messages) \subseteq Elements(accepted')
          /\ outbox'[i].messages # <<>>
    BY <1>1, <1>2, <1>5, <2>1, <2>2
  <2>4. \A i, j \in 1..Len(outbox') :
          i # j => Elements(outbox'[j].messages)
                     \cap Elements(outbox'[i].messages) = {}
    BY <1>1, <1>5, <2>1, <2>2
  <2> QED
    BY <2>3, <2>4 DEF SentHeldOnce
<1>9. MessageIsNew'
  BY <1>2, <1>4 DEF HeldOnce, MessageIsNew
<1> QED
  BY <1>6, <1>7, <1>8, <1>9 DEF HeldOnce

LEMMA WriteOutbox ==
  ASSUME TypeOK, Write
  PROVE  /\ Len(outbox) \in Nat \ {0}
         /\ Len(outbox') = Len(outbox) - 1
         /\ \A i \in 1..Len(outbox') : outbox'[i] = outbox[i + 1]
         /\ outbox[1].messages \in Seq(Msg)
         /\ log' = log \o outbox[1].messages
<1>1. outbox \in Seq(Batch) /\ outbox # <<>> /\ outbox' = Tail(outbox)
  BY DEF Write, TypeOK
<1>2. /\ Len(outbox) \in Nat \ {0}
      /\ Len(outbox') = Len(outbox) - 1
      /\ \A i \in 1..Len(outbox') : outbox'[i] = outbox[i + 1]
      /\ Head(outbox) = outbox[1] /\ Head(outbox) \in Batch
  BY <1>1, EmptySeq, HeadTailProperties
<1>3. log' = log \o Head(outbox).messages
  BY DEF Write
<1> QED
  BY <1>2, <1>3 DEF Batch

LEMMA WriteHeldOnce == ASSUME TypeOK, HeldOnce, Write PROVE HeldOnce'
<1> USE DEF Sent
<1> DEFINE n == Len(outbox)
<1>1. /\ n \in Nat \ {0} /\ Len(outbox') = n - 1
      /\ \A i \in 1..n - 1 : outbox'[i] = outbox[i + 1]
      /\ outbox[1].messages \in Seq(Msg)
      /\ log' = log \o outbox[1].messages
  BY WriteOutbox
<1>2. UNCHANGED <<queue, accepted, msg, batch, pc>>
  BY DEF Write
<1> HIDE DEF n
<1>3. \A i \in 1..n - 1 : i + 1 \in 1..n
  BY <1>1
<1>4. QueueHeldOnce'
  BY <1>1, <1>2, <1>3 DEF HeldOnce, QueueHeldOnce, n
<1>5. BatchHeldOnce'
  BY <1>1, <1>2, <1>3 DEF HeldOnce, BatchHeldOnce, n
<1>6. SentHeldOnce'
  <2> DEFINE m(i) == outbox[i].messages
  <2>1. \A i \in 1..n :
          /\ NoRepeat(m(i)) /\ Elements(m(i)) \subseteq Elements(accepted)
          /\ m(i) # <<>>
          /\ \A j \in 1..n : i # j => Elements(m(j)) \cap Elements(m(i)) = {}
    BY DEF HeldOnce, SentHeldOnce, n
  <2>2. \A i \in 1..n - 1 : outbox'[i].messages = m(i + 1)
    BY <1>1
  <2>3. \A i, j \in 1..n - 1 : i # j => i + 1 # j + 1
    BY <1>1
  <2> HIDE DEF m
  <2>4. \A i \in 1..n - 1 :
          /\ NoRepeat(outbox'[i].messages) /\ outbox'[i].messages # <<>>
          /\ Elements(outbox'[i].messages) \subseteq Elements(accepted)
    BY <1>3, <2>1, <2>2
  <2>5. \A i, j \in 1..n - 1 :
          i # j => Elements(outbox'[j].messages)
                     \cap Elements(outbox'[i].messages) = {}
    BY <1>3, <2>1, <2>2, <2>3
  <2> QED
    BY <1>1, <1>2, <2>4, <2>5 DEF SentHeldOnce
<1>7. MessageIsNew'
  <2>1. Elements(log') = Elements(log) \cup Elements(outbox[1].messages)
    BY <1>1, ConcatElements DEF TypeOK
  <2>2. Elements(outbox[1].messages) \subseteq Elements(accepted)
    BY <1>1 DEF HeldOnce, SentHeldOnce, n
  <2> QED
    BY <1>2, <2>1, <2>2 DEF HeldOnce, MessageIsNew
<1> QED
  BY <1>4, <1>5, <1>6, <1>7 DEF HeldOnce

LEMMA OtherHeldOnce ==
  ASSUME TypeOK, HeldOnce,
         UNCHANGED <<batch, outbox, accepted, log, msg>>,
         queue' \in {queue, <<>>},
         \A t \in Thread :
           \/ pc'[t] = pc[t]
           \/ pc[t] \notin {"submit", "add"} /\ pc'[t] \notin {"submit", "add"}
  PROVE  HeldOnce'
<1> USE DEF Sent
<1>1. QueueHeldOnce'
  BY EmptyElements DEF HeldOnce, QueueHeldOnce
<1>2. BatchHeldOnce'
  BY DEF HeldOnce, BatchHeldOnce
<1>3. SentHeldOnce'
  BY DEF HeldOnce, SentHeldOnce
<1>4. MessageIsNew'
  BY DEF HeldOnce, MessageIsNew
<1> QED
  BY <1>1, <1>2, <1>3, <1>4 DEF HeldOnce

LEMMA StepHeldOnce == TypeOK /\ HeldOnce /\ [Next]_vars => HeldOnce'
<1> SUFFICES ASSUME TypeOK, HeldOnce, [Next]_vars PROVE HeldOnce'
  OBVIOUS
<1> USE DEF vars, httpVars, ghostVars
<1>1. ASSUME NEW t \in Thread, Check(t) \/ Lookup(t) \/ Await(t)
      PROVE  HeldOnce'
  <2>1. UNCHANGED <<queue, batch, outbox, accepted, log, msg>>
    BY <1>1 DEF Check, Lookup, Await
  <2>2. /\ pc[t] \notin {"submit", "add"} /\ pc'[t] \notin {"submit", "add"}
        /\ \A r \in Thread \ {t} : pc'[r] = pc[r]
    BY <1>1 DEF Check, Lookup, Await, Goto, TypeOK
  <2> QED
    BY <2>1, <2>2, OtherHeldOnce
<1>2. CASE PostFails \/ \E b \in Browser : Name(b) \/ Suspend(b) \/ Leave(b)
  BY <1>2, OtherHeldOnce DEF PostFails, Name, Suspend, Leave
<1>3. CASE Stop \/ Start \/ UNCHANGED vars
  BY <1>3, OtherHeldOnce DEF Stop, Start
<1> QED
  BY <1>1, <1>2, <1>3, DispatchHeldOnce, AddHeldOnce, DrainHeldOnce,
     SubmitHeldOnce, WriteHeldOnce DEF Next, Handle, Poll, Post

\* A message is in one place at a time and there once, whatever threads send,
\* drain and restart (handleMessage).
THEOREM MessageHeldOnce == Spec => []HeldOnce
<1>1. Init => HeldOnce
  BY InitHeldOnce
<1>2. TypeOK /\ HeldOnce /\ [Next]_vars => HeldOnce'
  BY StepHeldOnce
<1> QED
  BY <1>1, <1>2, CometTypeOK, PTL DEF Spec

-----------------------------------------------------------------------------
LEMMA HeldMembers ==
  \A m : m \in Held <=> \/ m \in Elements(queue)
                        \/ \E i \in 1..Len(outbox) : m \in Elements(Sent(i))
                        \/ \E t \in Thread : m \in Elements(batch[t])
  BY DEF Held, InFlight, Sent

LEMMA HeldMembersPrime ==
  \A m : m \in Held' <=> \/ m \in Elements(queue')
                         \/ \E i \in 1..Len(outbox') :
                               m \in Elements(outbox'[i].messages)
                         \/ \E t \in Thread : m \in Elements(batch'[t])
  BY DEF Held, InFlight, Sent, Elements

LEMMA InitImplements == Init => Channel!Init
  BY EmptyElements DEF Init, Held, InFlight, Channel!Init

LEMMA AddImplements ==
  ASSUME TypeOK, HeldOnce, NEW t \in Thread, Add(t) PROVE Channel!Next
<1>1. /\ pc[t] = "add" /\ msg[t] \in Msg /\ queue' = Append(queue, msg[t])
      /\ UNCHANGED <<batch, outbox, log, restarts>>
  BY DEF Add, TypeOK
<1>2. Elements(queue') = Elements(queue) \cup {msg[t]}
  BY <1>1, AppendElements DEF TypeOK
<1>3. Held' = Held \cup {msg[t]}
  BY <1>1, <1>2, HeldMembers, HeldMembersPrime DEF Sent
<1>4. msg[t] \notin Elements(accepted) /\ Elements(log) \subseteq Elements(accepted)
  BY <1>1 DEF HeldOnce, MessageIsNew
<1>5. msg[t] \notin Held
  BY <1>4, HeldMembers
     DEF HeldOnce, QueueHeldOnce, BatchHeldOnce, SentHeldOnce
<1>6. ~Channel!Occurs(msg[t])
  BY <1>4 DEF Channel!Occurs, Elements
<1> QED
  BY <1>1, <1>3, <1>5, <1>6 DEF Channel!Next, Channel!Accept

LEMMA DrainImplements ==
  ASSUME TypeOK, HeldOnce, NEW t \in Thread, Drain(t)
  PROVE  UNCHANGED Channel!vars
<1>1. queue' = <<>> /\ UNCHANGED <<outbox, log, restarts>> /\ pc[t] = "drain"
  BY DEF Drain
<1>2. batch'[t] = queue /\ \A r \in Thread \ {t} : batch'[r] = batch[r]
  BY DEF Drain, TypeOK
<1>3. batch[t] = <<>>
  BY <1>1 DEF HeldOnce, BatchHeldOnce
<1>4. \A m : m \in Held <=> m \in Held'
  BY <1>1, <1>2, <1>3, EmptyElements, HeldMembers, HeldMembersPrime DEF Sent
<1>5. Held' = Held
  BY <1>4
<1> QED
  BY <1>1, <1>5 DEF Channel!vars

LEMMA SubmitImplements ==
  ASSUME TypeOK, HeldOnce, NEW t \in Thread, Submit(t)
  PROVE  UNCHANGED Channel!vars
<1>1. UNCHANGED <<queue, log, restarts>>
  BY DEF Submit, ghostVars
<1>2. batch'[t] = <<>> /\ \A r \in Thread \ {t} : batch'[r] = batch[r]
  BY DEF Submit, TypeOK
<1>3. /\ Len(outbox) \in Nat /\ Len(outbox') = Len(outbox) + 1
      /\ \A i \in 1..Len(outbox) : outbox'[i] = outbox[i]
      /\ outbox'[Len(outbox')].messages = batch[t]
  BY SubmitOutbox
<1>4. \A m : m \in Held => m \in Held'
  <2> SUFFICES ASSUME NEW m \in Held PROVE m \in Held'
    OBVIOUS
  <2>1. CASE m \in Elements(queue)
    BY <1>1, <2>1, HeldMembersPrime
  <2>2. ASSUME NEW i \in 1..Len(outbox), m \in Elements(Sent(i)) PROVE m \in Held'
    BY <1>3, <2>2, HeldMembersPrime DEF Sent
  <2>3. CASE m \in Elements(batch[t])
    BY <1>3, <2>3, HeldMembersPrime
  <2>4. ASSUME NEW r \in Thread \ {t}, m \in Elements(batch[r]) PROVE m \in Held'
    BY <1>2, <2>4, HeldMembersPrime
  <2> QED
    BY <2>1, <2>2, <2>3, <2>4, HeldMembers
<1>5. \A m : m \in Held' => m \in Held
  <2> SUFFICES ASSUME NEW m \in Held' PROVE m \in Held
    OBVIOUS
  <2>1. CASE m \in Elements(queue')
    BY <1>1, <2>1, HeldMembers
  <2>2. ASSUME NEW i \in 1..Len(outbox'), m \in Elements(outbox'[i].messages)
        PROVE  m \in Held
    <3>1. i \in 1..Len(outbox) \/ i = Len(outbox')
      BY <1>3
    <3> QED
      BY <1>3, <2>2, <3>1, HeldMembers DEF Sent
  <2>3. ASSUME NEW r \in Thread, m \in Elements(batch'[r]) PROVE m \in Held
    BY <1>2, <2>3, EmptyElements, HeldMembers
  <2> QED
    BY <2>1, <2>2, <2>3, HeldMembersPrime
<1>6. Held' = Held
  BY <1>4, <1>5
<1> QED
  BY <1>1, <1>6 DEF Channel!vars

\* a write takes the messages of the first batch, and no others, out of those
\* that are held
LEMMA WriteHeld ==
  ASSUME TypeOK, HeldOnce, Write
  PROVE  /\ Held' = Held \ Elements(outbox[1].messages)
         /\ Elements(outbox[1].messages) \subseteq Held
<1> DEFINE written == Elements(outbox[1].messages)
<1>1. /\ Len(outbox) \in Nat \ {0} /\ Len(outbox') = Len(outbox) - 1
      /\ \A i \in 1..Len(outbox') : outbox'[i] = outbox[i + 1]
  BY WriteOutbox
<1>2. UNCHANGED <<queue, batch>>
  BY DEF Write
<1>3. 1 \in 1..Len(outbox) /\ \A i \in 1..Len(outbox') : i + 1 \in 1..Len(outbox)
  BY <1>1
<1>4. /\ written \cap Elements(queue) = {}
      /\ \A t \in Thread : written \cap Elements(batch[t]) = {}
      /\ \A i \in 1..Len(outbox) : i # 1 => written \cap Elements(Sent(i)) = {}
  BY <1>3 DEF HeldOnce, QueueHeldOnce, BatchHeldOnce, SentHeldOnce, Sent
<1>5. \A m : m \in Held' => m \in Held /\ m \notin written
  <2> SUFFICES ASSUME NEW m \in Held' PROVE m \in Held /\ m \notin written
    OBVIOUS
  <2>1. CASE m \in Elements(queue) \/ \E t \in Thread : m \in Elements(batch[t])
    BY <1>4, <2>1, HeldMembers
  <2>2. ASSUME NEW i \in 1..Len(outbox'), m \in Elements(outbox'[i].messages)
        PROVE  m \in Held /\ m \notin written
    <3>1. i + 1 \in 1..Len(outbox) /\ i + 1 # 1 /\ m \in Elements(Sent(i + 1))
      BY <1>1, <1>3, <2>2 DEF Sent
    <3> QED
      BY <1>4, <3>1, HeldMembers
  <2> QED
    BY <1>2, <2>1, <2>2, HeldMembersPrime
<1>6. \A m : m \in Held /\ m \notin written => m \in Held'
  <2> SUFFICES ASSUME NEW m \in Held, m \notin written PROVE m \in Held'
    OBVIOUS
  <2>1. CASE m \in Elements(queue) \/ \E t \in Thread : m \in Elements(batch[t])
    BY <1>2, <2>1, HeldMembersPrime
  <2>2. ASSUME NEW i \in 1..Len(outbox), m \in Elements(Sent(i)) PROVE m \in Held'
    <3>1. i # 1
      BY <2>2 DEF Sent
    <3>2. i - 1 \in 1..Len(outbox') /\ outbox'[i - 1] = outbox[i]
      BY <1>1, <3>1
    <3> QED
      BY <2>2, <3>2, HeldMembersPrime DEF Sent
  <2> QED
    BY <2>1, <2>2, HeldMembers
<1>7. written \subseteq Held
  BY <1>3, HeldMembers DEF Sent
<1> QED
  BY <1>5, <1>6, <1>7

LEMMA WriteImplements ==
  ASSUME TypeOK, HeldOnce, Write PROVE Channel!Next
<1> DEFINE messages == outbox[1].messages
           written == Elements(messages)
           n == Len(messages)
<1>1. /\ Len(outbox) \in Nat \ {0}
      /\ messages \in Seq(Msg) /\ log' = log \o messages
  BY WriteOutbox
<1>2. UNCHANGED <<queue, batch, restarts>>
  BY DEF Write
<1>3. messages # <<>> /\ NoRepeat(messages)
  BY <1>1 DEF HeldOnce, SentHeldOnce, Sent
<1>4. Held' = Held \ written /\ written \subseteq Held
  BY WriteHeld
<1> HIDE DEF messages
<1>5. n \in Nat \ {0} /\ messages \in [1..n -> Msg]
  BY <1>1, <1>3, LenProperties, EmptySeq
<1>6. messages \in Bijection(1..n, written)
  BY <1>3, <1>5 DEF NoRepeat, Elements, Bijection, Injection, Surjection, IsInjective
<1>7. Cardinality(written) = n
  BY <1>5, <1>6, FS_CountingElements DEF ExistsBijection
<1>8. messages \in Channel!Orderings(written)
  <2>1. Channel!Cardinality(written) = n
    BY <1>7 DEF Cardinality, Channel!Cardinality
  <2> QED
    BY <1>3, <1>5, <2>1 DEF NoRepeat, Elements, Channel!Orderings
<1>9. written # {}
  BY <1>5 DEF Elements
<1> HIDE DEF written
<1> QED
  BY <1>1, <1>2, <1>4, <1>8, <1>9 DEF Channel!Next, Channel!Broadcast

LEMMA StartImplements == ASSUME TypeOK, Start PROVE Channel!Next
<1>1. queue' = <<>> /\ UNCHANGED <<outbox, batch, log>> /\ restarts' = restarts + 1
  BY DEF Start
<1>2. Held' \subseteq Held
  BY <1>1, EmptyElements, HeldMembers, HeldMembersPrime DEF Sent
<1> QED
  BY <1>1, <1>2 DEF Channel!Next, Channel!Restart

LEMMA OtherImplements ==
  ASSUME UNCHANGED <<queue, batch, outbox, log, restarts>>
  PROVE  UNCHANGED Channel!vars
  BY DEF Channel!vars, Held, InFlight, Elements

LEMMA StepImplements ==
  TypeOK /\ HeldOnce /\ [Next]_vars => [Channel!Next]_Channel!vars
<1> SUFFICES ASSUME TypeOK, HeldOnce, [Next]_vars
             PROVE  Channel!Next \/ UNCHANGED Channel!vars
  OBVIOUS
<1> USE DEF vars, httpVars, ghostVars
<1>1. CASE \E t \in Thread : Poll(t) \/ Post(t) \/ Check(t) \/ Lookup(t) \/ Await(t)
  BY <1>1, OtherImplements DEF Poll, Post, Dispatch, Check, Lookup, Await
<1>2. CASE PostFails \/ \E b \in Browser : Name(b) \/ Suspend(b) \/ Leave(b)
  BY <1>2, OtherImplements DEF PostFails, Name, Suspend, Leave
<1>3. CASE Stop \/ UNCHANGED vars
  BY <1>3, OtherImplements DEF Stop
<1> QED
  BY <1>1, <1>2, <1>3, AddImplements, DrainImplements, SubmitImplements,
     WriteImplements, StartImplements DEF Next, Handle

\* The endpoint, whatever its threads, threshold and restarts, implements the
\* abstract broadcast channel: a message is broadcast at most once, only after
\* it was accepted, and only a restart forgets one.
THEOREM EndpointImplementsChannel == Spec => ImplementsChannel
<1>1. Init => Channel!Init
  BY InitImplements
<1>2. TypeOK /\ HeldOnce /\ [Next]_vars => [Channel!Next]_Channel!vars
  BY StepImplements
<1> QED
  BY <1>1, <1>2, CometTypeOK, MessageHeldOnce, PTL
     DEF Spec, ImplementsChannel, Channel!Spec

-----------------------------------------------------------------------------
(***************************************************************************)
(* The order of the broadcasts.                                            *)
(***************************************************************************)
\* Nothing is accepted twice, nothing that was broadcast is still held, and
\* what was drained was broadcast or is in the hands of a thread.
OrderInv ==
  /\ NoRepeat(accepted)
  /\ Elements(log) \cap Held = {}
  /\ Elements(drained) \subseteq Elements(log) \cup InFlight

LEMMA HeldAccepted ==
  HeldOnce => /\ Held \subseteq Elements(accepted)
              /\ InFlight = Held \ Elements(queue)
<1> SUFFICES ASSUME HeldOnce
             PROVE  /\ Held \subseteq Elements(accepted)
                    /\ InFlight = Held \ Elements(queue)
  OBVIOUS
<1>1. \A m : m \in InFlight <=> \/ \E i \in 1..Len(outbox) : m \in Elements(Sent(i))
                                \/ \E t \in Thread : m \in Elements(batch[t])
  BY DEF InFlight, Sent
<1>2. \A m \in InFlight : m \in Elements(accepted) /\ m \notin Elements(queue)
  BY <1>1 DEF HeldOnce, QueueHeldOnce, BatchHeldOnce, SentHeldOnce
<1>3. Elements(queue) \subseteq Elements(accepted)
  BY DEF HeldOnce, QueueHeldOnce
<1>4. Held = Elements(queue) \cup InFlight
  BY DEF Held
<1> HIDE DEF Held, InFlight
<1> QED
  BY <1>2, <1>3, <1>4

LEMMA StepOrder ==
  TypeOK /\ HeldOnce /\ HeldOnce' /\ OrderInv /\ [Next]_vars => OrderInv'
<1> SUFFICES ASSUME TypeOK, HeldOnce, HeldOnce', OrderInv, [Next]_vars
             PROVE  OrderInv'
  OBVIOUS
<1> USE DEF vars, httpVars, ghostVars
<1>1. Held \subseteq Elements(accepted) /\ InFlight = Held \ Elements(queue)
  BY HeldAccepted
<1>2. InFlight' = Held' \ Elements(queue')
  <2>1. HeldOnce' => (/\ Held \subseteq Elements(accepted)
                      /\ InFlight = Held \ Elements(queue))'
    BY HeldAccepted, PTL
  <2> QED
    BY <2>1
<1>3. SUFFICES /\ NoRepeat(accepted')
               /\ Elements(log') \cap Held' = {}
               /\ Elements(drained') \subseteq
                    Elements(log') \cup (Held' \ Elements(queue'))
  BY <1>2 DEF OrderInv, NoRepeat, Elements
<1>4. /\ NoRepeat(accepted)
      /\ Elements(log) \cap Held = {}
      /\ Elements(drained) \subseteq Elements(log) \cup (Held \ Elements(queue))
  BY <1>1 DEF OrderInv
<1> HIDE DEF Held, InFlight
<1>5. ASSUME NEW t \in Thread, Add(t)
      PROVE  /\ NoRepeat(accepted')
             /\ Elements(log') \cap Held' = {}
             /\ Elements(drained') \subseteq
                  Elements(log') \cup (Held' \ Elements(queue'))
  <2>1. /\ pc[t] = "add" /\ msg[t] \in Msg /\ queue' = Append(queue, msg[t])
        /\ accepted' = Append(accepted, msg[t])
        /\ UNCHANGED <<batch, outbox, log, drained>>
    BY <1>5 DEF Add, TypeOK
  <2>2. Elements(queue') = Elements(queue) \cup {msg[t]}
    BY <2>1, AppendElements DEF TypeOK
  <2>3. Held' = Held \cup {msg[t]}
    BY <2>1, <2>2, HeldMembers, HeldMembersPrime DEF Sent
  <2>4. /\ msg[t] \notin Elements(accepted)
        /\ Elements(log) \subseteq Elements(accepted)
    BY <2>1 DEF HeldOnce, MessageIsNew
  <2>5. NoRepeat(accepted')
    BY <1>4, <2>1, <2>4, AppendElements DEF TypeOK
  <2>6. Elements(log') = Elements(log) /\ Elements(drained') = Elements(drained)
    BY <2>1
  <2>7. /\ Elements(log') \cap Held' = {}
        /\ Elements(drained') \subseteq Elements(log') \cup (Held' \ Elements(queue'))
    BY <1>1, <1>4, <2>2, <2>3, <2>4, <2>6
  <2> QED
    BY <2>5, <2>7
<1>6. ASSUME NEW t \in Thread, Drain(t)
      PROVE  /\ NoRepeat(accepted')
             /\ Elements(log') \cap Held' = {}
             /\ Elements(drained') \subseteq
                  Elements(log') \cup (Held' \ Elements(queue'))
  <2>1. /\ queue' = <<>> /\ drained' = drained \o queue
        /\ UNCHANGED <<accepted, log>>
    BY <1>6 DEF Drain
  <2>2. Held' = Held
    BY <1>6, DrainImplements DEF Channel!vars
  <2>3. Elements(drained') = Elements(drained) \cup Elements(queue)
    BY <2>1, ConcatElements DEF TypeOK
  <2>4. Elements(queue) \subseteq Held /\ Elements(queue') = {}
    BY <2>1, EmptyElements, HeldMembers
  <2>5. Elements(log') = Elements(log) /\ NoRepeat(accepted')
    BY <1>4, <2>1
  <2>6. /\ Elements(log') \cap Held' = {}
        /\ Elements(drained') \subseteq Elements(log') \cup (Held' \ Elements(queue'))
    BY <1>4, <2>2, <2>3, <2>4, <2>5
  <2> QED
    BY <2>5, <2>6
<1>7. ASSUME NEW t \in Thread, Submit(t)
      PROVE  /\ NoRepeat(accepted')
             /\ Elements(log') \cap Held' = {}
             /\ Elements(drained') \subseteq
                  Elements(log') \cup (Held' \ Elements(queue'))
  <2>1. UNCHANGED <<queue, accepted, log, drained>>
    BY <1>7 DEF Submit
  <2>2. Held' = Held
    BY <1>7, SubmitImplements DEF Channel!vars
  <2> QED
    BY <1>4, <2>1, <2>2
<1>8. ASSUME Write
      PROVE  /\ NoRepeat(accepted')
             /\ Elements(log') \cap Held' = {}
             /\ Elements(drained') \subseteq
                  Elements(log') \cup (Held' \ Elements(queue'))
  <2> DEFINE written == Elements(outbox[1].messages)
  <2>1. UNCHANGED <<queue, accepted, drained>>
    BY <1>8 DEF Write
  <2>2. Held' = Held \ written
    BY <1>8, WriteHeld
  <2>3. Elements(log') = Elements(log) \cup written
    BY <1>8, WriteOutbox, ConcatElements DEF TypeOK
  <2>4. /\ NoRepeat(accepted') /\ Elements(queue') = Elements(queue)
        /\ Elements(drained') = Elements(drained)
    BY <1>4, <2>1
  <2> HIDE DEF written
  <2>5. /\ Elements(log') \cap Held' = {}
        /\ Elements(drained') \subseteq Elements(log') \cup (Held' \ Elements(queue'))
    BY <1>4, <2>2, <2>3, <2>4
  <2> QED
    BY <2>4, <2>5
<1>9. ASSUME Start
      PROVE  /\ NoRepeat(accepted')
             /\ Elements(log') \cap Held' = {}
             /\ Elements(drained') \subseteq
                  Elements(log') \cup (Held' \ Elements(queue'))
  <2>1. queue' = <<>> /\ UNCHANGED <<outbox, batch, log, accepted, drained>>
    BY <1>9 DEF Start
  <2>2. Elements(queue') = {}
    BY <2>1, EmptyElements
  <2>3. \A m : m \in Held' <=> m \in InFlight
    BY <2>1, <2>2, HeldMembersPrime DEF InFlight, Sent
  <2>4. /\ NoRepeat(accepted') /\ Elements(log') = Elements(log)
        /\ Elements(drained') = Elements(drained)
    BY <1>4, <2>1
  <2>5. /\ Elements(log') \cap Held' = {}
        /\ Elements(drained') \subseteq Elements(log') \cup (Held' \ Elements(queue'))
    BY <1>1, <1>4, <2>2, <2>3, <2>4
  <2> QED
    BY <2>4, <2>5
<1>10. ASSUME UNCHANGED <<queue, batch, outbox, accepted, log, drained>>
       PROVE  /\ NoRepeat(accepted')
              /\ Elements(log') \cap Held' = {}
              /\ Elements(drained') \subseteq
                   Elements(log') \cup (Held' \ Elements(queue'))
  <2>1. Held' = Held
    BY <1>10 DEF Held, InFlight
  <2> QED
    BY <1>4, <1>10, <2>1
<1> QED
  BY <1>5, <1>6, <1>7, <1>8, <1>9, <1>10
     DEF Next, Handle, Poll, Post, Dispatch, Check, Lookup, Await, PostFails,
         Name, Suspend, Leave, Stop


\* With one sending thread, what was drained is what was broadcast, followed by
\* the batch that the thread has or waits for.
SoloInv(t) ==
  \/ Len(outbox) = 0 /\ drained = log \o batch[t]
  \/ /\ Len(outbox) = 1 /\ pc[t] = "await"
     /\ drained = log \o outbox[1].messages

LEMMA StepSolo ==
  ASSUME NEW t \in Thread, Thread = {t}, TypeOK, HeldOnce, SoloInv(t),
         [Next]_vars
  PROVE  SoloInv(t)'
<1> USE DEF vars, httpVars, ghostVars
<1>1. /\ pc[t] # "submit" => batch[t] = <<>>
      /\ pc \in [Thread -> Label] /\ batch \in [Thread -> Seq(Msg)]
      /\ queue \in Seq(Msg) /\ log \in Seq(Msg) /\ drained \in Seq(Msg)
  BY DEF HeldOnce, BatchHeldOnce, TypeOK
<1>2. CASE Drain(t)
  <2>1. /\ pc[t] = "drain" /\ drained' = drained \o queue /\ batch'[t] = queue
        /\ UNCHANGED <<outbox, log>>
    BY <1>1, <1>2 DEF Drain
  <2>2. Len(outbox) = 0 /\ drained = log \o <<>>
    BY <1>1, <2>1 DEF SoloInv
  <2>3. drained = log
    BY <1>1, <2>2, ConcatEmptySeq
  <2> QED
    BY <2>1, <2>2, <2>3 DEF SoloInv
<1>3. CASE Submit(t)
  <2>1. /\ pc[t] = "submit" /\ pc'[t] = "await" /\ UNCHANGED <<log, drained>>
    BY <1>1, <1>3 DEF Submit, Goto
  <2>2. Len(outbox) = 0 /\ drained = log \o batch[t]
    BY <2>1 DEF SoloInv
  <2>3. Len(outbox') = 1 /\ outbox'[1].messages = batch[t]
    <3>1. /\ Len(outbox') = Len(outbox) + 1
          /\ outbox'[Len(outbox')].messages = batch[t]
      BY <1>3, SubmitOutbox
    <3>2. Len(outbox') = 1
      BY <2>2, <3>1
    <3> QED
      BY <3>1, <3>2
  <2> QED
    BY <2>1, <2>2, <2>3 DEF SoloInv
<1>4. CASE Write
  <2>1. /\ Len(outbox) \in Nat \ {0} /\ Len(outbox') = Len(outbox) - 1
        /\ log' = log \o outbox[1].messages /\ outbox[1].messages \in Seq(Msg)
    BY <1>4, WriteOutbox
  <2>2. /\ Len(outbox) = 1 /\ pc[t] = "await"
        /\ drained = log \o outbox[1].messages
    BY <2>1 DEF SoloInv
  <2>3. batch'[t] = <<>> /\ drained' = drained
    BY <1>1, <1>4, <2>2 DEF Write
  <2>4. drained' = log' \o <<>>
    <3>1. log' \in Seq(Msg) /\ drained' = log'
      BY <1>1, <2>1, <2>2, <2>3
    <3> QED
      BY <3>1, ConcatEmptySeq
  <2> QED
    BY <2>1, <2>2, <2>3, <2>4 DEF SoloInv
<1>5. CASE Await(t)
  <2>1. /\ \A i \in 1..Len(outbox) : outbox[i].owner # t
        /\ UNCHANGED <<outbox, log, drained, batch>>
    BY <1>5 DEF Await
  <2>2. \A i \in 1..Len(outbox) : outbox[i] \in Batch
    BY ElementOfSeq DEF TypeOK
  <2>3. \A i \in 1..Len(outbox) : outbox[i].owner = t
    BY <2>2 DEF Batch
  <2>4. Len(outbox) = 0 /\ drained = log \o batch[t]
    BY <2>1, <2>3 DEF SoloInv
  <2> QED
    BY <2>1, <2>4 DEF SoloInv
<1>6. CASE Poll(t) \/ Post(t) \/ Add(t) \/ Check(t) \/ Lookup(t)
  <2>1. pc[t] # "await" /\ UNCHANGED <<outbox, log, drained, batch>>
    BY <1>6 DEF Poll, Post, Dispatch, Add, Check, Lookup
  <2> QED
    BY <2>1 DEF SoloInv
<1>7. CASE UNCHANGED <<outbox, log, drained, batch, pc>>
  BY <1>7 DEF SoloInv
<1>8. \A r \in Thread : r = t
  OBVIOUS
<1> QED
  BY <1>2, <1>3, <1>4, <1>5, <1>6, <1>7, <1>8
     DEF Next, Handle, PostFails, Name, Suspend, Leave, Stop, Start

\* positions: what comes before a broadcast message was drained before it, and
\* with one thread also broadcast
LEMMA DrainedFirst ==
  ASSUME NEW s \in Seq(Msg), NEW a \in Seq(Msg), NEW b \in Seq(Msg),
         s = a \o b, NEW j \in 1..Len(s), s[j] \notin Elements(b),
         NEW i \in 1..j
  PROVE  s[i] \in Elements(a)
<1>1. /\ Len(a) \in Nat /\ Len(b) \in Nat /\ Len(s) = Len(a) + Len(b)
      /\ \A k \in 1..Len(a) : s[k] = a[k]
      /\ \A k \in 1..Len(b) : s[Len(a) + k] = b[k]
  BY ConcatProperties
<1>2. j <= Len(a)
  <2>1. SUFFICES ASSUME j > Len(a) PROVE FALSE
    BY <1>1
  <2>2. j - Len(a) \in 1..Len(b) /\ Len(a) + (j - Len(a)) = j
    BY <1>1, <2>1
  <2>3. s[j] = b[j - Len(a)]
    BY <1>1, <2>2
  <2> QED
    BY <2>2, <2>3 DEF Elements
<1>3. i \in 1..Len(a) /\ s[i] = a[i]
  BY <1>1, <1>2
<1> QED
  BY <1>3 DEF Elements

LEMMA SoloKeepsOrder ==
  ASSUME TypeOK, NEW t \in Thread, SoloInv(t), NoRepeat(accepted),
         accepted = drained \o queue,
         NEW j \in 1..Len(accepted), accepted[j] \in Elements(log),
         NEW i \in 1..j
  PROVE  accepted[i] \in Elements(log)
<1>1. PICK b \in Seq(Msg) : drained = log \o b
  <2>1. batch[t] \in Seq(Msg)
    BY DEF TypeOK
  <2>2. Len(outbox) = 1 => outbox[1] \in Batch
    <3>1. outbox \in Seq(Batch)
      BY DEF TypeOK
    <3>2. \A k \in 1..Len(outbox) : outbox[k] \in Batch
      BY <3>1, ElementOfSeq
    <3> QED
      BY <3>2
  <2> QED
    BY <2>1, <2>2 DEF SoloInv, Batch
<1>2. /\ log \in Seq(Msg) /\ drained \in Seq(Msg) /\ queue \in Seq(Msg)
      /\ accepted \in Seq(Msg)
  BY DEF TypeOK
<1>3. /\ Len(log) \in Nat /\ Len(b) \in Nat /\ Len(queue) \in Nat
      /\ Len(accepted) = Len(log) + Len(b) + Len(queue)
      /\ \A k \in 1..Len(log) : drained[k] = log[k]
      /\ \A k \in 1..Len(drained) : accepted[k] = drained[k]
      /\ Len(drained) = Len(log) + Len(b)
  BY <1>1, <1>2, ConcatProperties
<1>4. \A k \in 1..Len(log) : k \in 1..Len(accepted) /\ accepted[k] = log[k]
  <2> SUFFICES ASSUME NEW k \in 1..Len(log)
               PROVE  k \in 1..Len(accepted) /\ accepted[k] = log[k]
    OBVIOUS
  <2>1. k \in 1..Len(drained) /\ k \in 1..Len(accepted)
    BY <1>3
  <2> QED
    BY <1>3, <2>1
<1>5. PICK k \in 1..Len(log) : accepted[j] = log[k]
  BY DEF Elements
<1>6. j = k
  BY <1>4, <1>5 DEF NoRepeat
<1>7. i \in 1..Len(log)
  BY <1>3, <1>6
<1> QED
  BY <1>4, <1>7 DEF Elements

LEMMA OrderInvariant == Spec => []OrderInv
<1>1. Init => OrderInv
  BY EmptyElements DEF Init, OrderInv
<1>2. TypeOK /\ HeldOnce /\ HeldOnce' /\ OrderInv /\ [Next]_vars => OrderInv'
  BY StepOrder
<1> QED
  BY <1>1, <1>2, CometTypeOK, MessageHeldOnce, PTL DEF Spec

LEMMA SoloInvariant ==
  Spec => [](\A t \in Thread : Thread = {t} => SoloInv(t))
<1> DEFINE Solo == \A t \in Thread : Thread = {t} => SoloInv(t)
<1>1. Init => Solo
  <2> SUFFICES ASSUME Init, NEW t \in Thread PROVE SoloInv(t)
    OBVIOUS
  <2>1. outbox = <<>> /\ drained = <<>> /\ log = <<>> /\ batch[t] = <<>>
    BY DEF Init
  <2>2. <<>> \in Seq(Msg) /\ <<>> \o <<>> = <<>>
    BY EmptySeq, ConcatEmptySeq
  <2> QED
    BY <2>1, <2>2, EmptySeq DEF SoloInv
<1>2. TypeOK /\ HeldOnce /\ Solo /\ [Next]_vars => Solo'
  BY StepSolo
<1> QED
  BY <1>1, <1>2, CometTypeOK, MessageHeldOnce, PTL DEF Spec

\* In an endpoint that is not restarted, whatever finite number of threads send
\* to it and whatever its threshold, a message is broadcast before an older one
\* only if the older one is in the hands of a thread, and of two threads at
\* least (handleMessage: drainTo and broadcast are two steps).
THEOREM NothingQueuedIsOvertaken ==
  ASSUME IsFiniteSet(Thread)
  PROVE  Spec => []NoOvertaking
<1> DEFINE Solo == \A t \in Thread : Thread = {t} => SoloInv(t)
<1>1. TypeOK /\ QueueAccounts /\ OrderInv /\ Solo => NoOvertaking
  <2> SUFFICES ASSUME TypeOK, QueueAccounts, OrderInv, Solo, restarts = 0,
                      NEW i \in 1..Len(accepted), NEW j \in 1..Len(accepted),
                      i < j, accepted[j] \in Elements(log),
                      accepted[i] \notin Elements(log)
               PROVE  accepted[i] \in InFlight /\ Cardinality(Thread) > 1
    BY DEF NoOvertaking
  <2>1. /\ accepted = drained \o queue /\ accepted \in Seq(Msg)
        /\ drained \in Seq(Msg) /\ queue \in Seq(Msg)
    BY DEF QueueAccounts, TypeOK
  <2>2. accepted[j] \notin Elements(queue) /\ i \in 1..j
    BY DEF OrderInv, Held
  <2>3. accepted[i] \in Elements(drained)
    BY <2>1, <2>2, DrainedFirst
  <2>4. accepted[i] \in InFlight
    BY <2>3 DEF OrderInv
  <2>5. Thread # {}
    <3>1. SUFFICES ASSUME Thread = {} PROVE FALSE
      OBVIOUS
    <3>2. \A k \in 1..Len(outbox) : outbox[k] \in Batch
      BY ElementOfSeq DEF TypeOK
    <3> QED
      BY <2>4, <3>1, <3>2 DEF InFlight, Batch
  <2>6. \A t \in Thread : Thread # {t}
    BY <2>1, <2>2, SoloKeepsOrder DEF OrderInv
  <2>7. Cardinality(Thread) \in Nat
    BY FS_CardinalityType
  <2>8. Cardinality(Thread) # 0 /\ Cardinality(Thread) # 1
    BY <2>5, <2>6, FS_EmptySet, FS_Singleton
  <2> QED
    BY <2>4, <2>7, <2>8
<1> QED
  BY <1>1, CometTypeOK, QueueIsAccountedFor, OrderInvariant, SoloInvariant, PTL

=============================================================================
