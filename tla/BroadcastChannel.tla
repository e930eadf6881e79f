-------------------------- MODULE BroadcastChannel --------------------------
(***************************************************************************)
(* What a comet endpoint promises to the channel it serves, whatever       *)
(* queues, batches and threads are inside: an accepted message is pending  *)
(* until it is broadcast; messages are broadcast in batches, each message  *)
(* at most once and only after it was accepted; while the endpoint is not  *)
(* restarted no pending message is forgotten.                              *)
(***************************************************************************)
EXTENDS Naturals, Sequences, FiniteSets

CONSTANT Msg

VARIABLES
  pending,   \* messages accepted and neither broadcast nor lost
  log,       \* messages in the order in which they were broadcast
  restarts   \* number of restarts so far

Occurs(m) == \E i \in 1..Len(log) : log[i] = m

Init == pending = {} /\ log = <<>> /\ restarts = 0

Accept(m) ==
  /\ m \notin pending /\ ~Occurs(m)
  /\ pending' = pending \cup {m}
  /\ UNCHANGED <<log, restarts>>

\* the members of S in some order, each once
Orderings(S) ==
  {s \in [1..Cardinality(S) -> S] :
     \A i, j \in 1..Cardinality(S) : s[i] = s[j] => i = j}

Broadcast(batch) ==
  /\ batch # {}
  /\ pending' = pending \ batch
  /\ \E s \in Orderings(batch) : log' = log \o s
  /\ UNCHANGED restarts

\* a restart forgets messages that wait to be broadcast
Restart ==
  /\ pending' \in SUBSET pending
  /\ restarts' = restarts + 1
  /\ UNCHANGED log

Next ==
  \/ \E m \in Msg : Accept(m)
  \/ \E batch \in SUBSET pending : Broadcast(batch)
  \/ Restart

vars == <<pending, log, restarts>>

Spec == Init /\ [][Next]_vars
=============================================================================
