-------------------------------- MODULE Hive --------------------------------
(***************************************************************************)
(* jQuery.Hive and Pollen: a page that keeps web workers under numbers, and*)
(* the library inside each worker.  All messages go between a worker and   *)
(* the page; a worker that wants to reach another names its number in      *)
(* SEND_TO, and the page passes the message on.                            *)
(***************************************************************************)
EXTENDS Naturals, Sequences, FiniteSets, SequencesExt, Functions

CONSTANTS
  Counts,     \* how many workers a call of create may ask for
  Numbers,    \* the numbers a worker may write to of its own accord
  MaxWorkers, \* bound: workers ever made
  MaxCalls,   \* bound: calls of create and destroy
  MaxPosts,   \* bound: messages that page and workers make
  MaxBoth     \* bound: the two together

ASSUME CountsAreCounts == Counts \subseteq Nat \ {0} /\ Numbers \subseteq 0 .. MaxWorkers
ASSUME HiveBounds ==
  MaxWorkers \in Nat \ {0} /\ MaxCalls \in Nat /\ MaxPosts \in Nat /\ MaxBoth \in Nat

Worker == 1 .. MaxWorkers   \* in the order of their making
WorkerId == 0 .. MaxWorkers
Absent == MaxWorkers + 1    \* undefined: a number a message does not carry
Page == 0                   \* who posts, in the log

VARIABLES
  hive,     \* threads: _threads;  byId: _threadsById;  fns: _fnCache;  last: _lastThreadInt
  worker,   \* id: WORKER_ID, Absent before it is made;  identity: Pollen.identity
  toWorker, \* what the page has posted to each worker
  toPage,   \* and each worker to the page
  log,      \* what has been posted: [by, as, for, re, got]
  hiveCalls \* calls of create and destroy so far

hiveVars == <<hive, worker, toWorker, toPage, log, hiveCalls>>

\* n: its place in the log, for the message itself
Message == [n : 1 .. MaxPosts, to : WorkerId \cup {Absent}, from : WorkerId \cup {Absent},
            id : WorkerId \cup {Absent}]

HiveTypeOK ==
  /\ hive.threads \in Seq(Worker)
  /\ hive.byId \in [WorkerId -> Worker \cup {Absent}]
  /\ hive.fns \subseteq WorkerId
  /\ hive.last \in WorkerId
  /\ worker \in [Worker -> [id : WorkerId \cup {Absent}, identity : WorkerId]]
  /\ toWorker \in [Worker -> Seq(Message)] /\ toPage \in [Worker -> Seq(Message)]
  /\ Len(log) <= MaxPosts
  /\ hiveCalls \in 0 .. MaxCalls

HiveInit ==
  /\ hive = [threads |-> <<>>, byId |-> [i \in WorkerId |-> Absent], fns |-> {}, last |-> 0]
  /\ worker = [w \in Worker |-> [id |-> Absent, identity |-> 0]]
  /\ toWorker = [w \in Worker |-> <<>>] /\ toPage = [w \in Worker |-> <<>>]
  /\ log = <<>>
  /\ hiveCalls = 0

Made == {w \in Worker : worker[w].id # Absent}
IsSet(x) == x \notin {0, Absent}

MayPost == Len(log) < MaxPosts /\ Len(log) + hiveCalls < MaxBoth
MayCall == hiveCalls < MaxCalls /\ Len(log) + hiveCalls < MaxBoth

\* by, as: who posted and what it took itself for;  for: the worker SEND_TO is
\* the number of;  re: the message whose sender it answers, or 0;  got: who it has come to, workers or the page
Entry(by, as, to, re) ==
  [by |-> by, as |-> as, for |-> IF IsSet(to) THEN hive.byId[to] ELSE Absent, re |-> re, got |-> {}]
Post(by, as, to, re) == MayPost /\ log' = Append(log, Entry(by, as, to, re))
Posted == Len(log) + 1

(***************************************************************************)
(* jQuery.Hive, in the page.                                               *)
(***************************************************************************)
\* where the numbers of new workers begin: workers that are left keep theirs
FirstId == IF hive.threads = <<>> THEN 0 ELSE hive.last + 1

create(count) ==
  /\ MayCall
  /\ Cardinality(Made) + count <= MaxWorkers /\ FirstId + count - 1 \in WorkerId
  /\ LET new == [k \in 1 .. count |-> Cardinality(Made) + k]
         IdOf(w) == FirstId + w - new[1]
         ids == FirstId .. FirstId + count - 1
     IN  /\ worker' = [w \in Worker |-> IF w \in Range(new) THEN [worker[w] EXCEPT !.id = IdOf(w)] ELSE worker[w]]
         /\ hive' = [threads |-> hive.threads \o new,
                     byId |-> [i \in WorkerId |-> IF i \in ids THEN new[1] + i - FirstId ELSE hive.byId[i]],
                     fns |-> hive.fns \cup ids,
                     last |-> FirstId + count - 1]
  /\ hiveCalls' = hiveCalls + 1
  /\ UNCHANGED <<toWorker, toPage, log>>

\* jQuery.map of _threads: those that have another number
Without(id) ==
  LET kept[k \in 0 .. Len(hive.threads)] ==
        IF k = 0 THEN <<>>
        ELSE IF worker[hive.threads[k]].id = id THEN kept[k - 1]
        ELSE Append(kept[k - 1], hive.threads[k])
  IN  kept[Len(hive.threads)]

\* destroy( id ): the worker is not told, and goes on
destroyOne(id) ==
  /\ MayCall /\ id # 0
  /\ hive' = [hive EXCEPT !.threads = Without(id), !.byId[id] = Absent, !.fns = @ \ {id}]
  /\ hiveCalls' = hiveCalls + 1
  /\ UNCHANGED <<worker, toWorker, toPage, log>>

\* destroy(), and destroy( 0 )
destroyAll ==
  /\ MayCall
  /\ hive' = [hive EXCEPT !.threads = <<>>, !.byId = [i \in WorkerId |-> Absent], !.fns = {}]
  /\ hiveCalls' = hiveCalls + 1
  /\ UNCHANGED <<worker, toWorker, toPage, log>>

\* mutant: a message is stamped once
StampOnce(m, w) ==
  [m EXCEPT !.from = IF IsSet(@) THEN @ ELSE worker[w].id,
            !.id = IF IsSet(@) THEN @ ELSE worker[w].id]

\* what send of worker w makes of a message
Stamp(m, w) ==
  [m EXCEPT !.from = IF IsSet(@) THEN @ ELSE worker[w].id, !.id = worker[w].id]

PageMessage == [n |-> Posted, to |-> Absent, from |-> Absent, id |-> Absent]

\* jQuery.Hive.get( id ).send( message )
send(id) ==
  /\ hive.byId[id] # Absent
  /\ Post(Page, 0, Absent, 0)
  /\ toWorker' = [toWorker EXCEPT ![hive.byId[id]] = Append(@, Stamp(PageMessage, hive.byId[id]))]
  /\ UNCHANGED <<hive, worker, toPage, hiveCalls>>

\* one object, sent by one worker after the other: what the first has put into
\* it the others find
Stamped[k \in 0 .. Len(hive.threads)] ==
  IF k = 0 THEN PageMessage ELSE Stamp(Stamped[k - 1], hive.threads[k])

\* jQuery( jQuery.Hive.get() ).send( message )
sendAll ==
  /\ hive.threads # <<>>
  /\ Post(Page, 0, Absent, 0)
  /\ LET For(w) == IF \E k \in DOMAIN hive.threads : hive.threads[k] = w
                   THEN <<Stamped[CHOOSE k \in DOMAIN hive.threads : hive.threads[k] = w]>> ELSE <<>>
     IN  toWorker' = [w \in Worker |-> toWorker[w] \o For(w)]
  /\ UNCHANGED <<hive, worker, toPage, hiveCalls>>

\* mutant: the number is taken for a place in the list
AddresseeByPlace(id) == IF id + 1 \in DOMAIN hive.threads THEN hive.threads[id + 1] ELSE Absent

\* jQuery.Hive.get( SEND_TO )
Addressee(id) == hive.byId[id]

\* The listener of a worker's messages: a message for another worker is passed
\* on, and lost with an exception if there is none; any other is told to the
\* receive callback.
PageReceives(w) ==
  /\ toPage[w] # <<>>
  /\ LET m == Head(toPage[w])
         to == IF IsSet(m.to) THEN Addressee(m.to) ELSE Absent
     IN  IF to # Absent
           THEN /\ toWorker' = [toWorker EXCEPT ![to] = Append(@, Stamp([m EXCEPT !.id = Absent], to))]
                /\ UNCHANGED log
           ELSE /\ log' = [log EXCEPT ![m.n].got = IF IsSet(m.to) THEN @ ELSE @ \cup {Page}]
                /\ UNCHANGED toWorker
  /\ toPage' = [toPage EXCEPT ![w] = Tail(@)]
  /\ UNCHANGED <<hive, worker, hiveCalls>>

(***************************************************************************)
(* Pollen, in a worker.                                                    *)
(***************************************************************************)
\* Pollen.worker.send of message m
Sent(w, m) ==
  toPage' = [toPage EXCEPT ![w] =
    Append(@, [m EXCEPT !.n = Posted, !.id = worker'[w].identity,
                        !.from = IF IsSet(m.to) THEN worker'[w].identity ELSE @])]

New(to) == [n |-> 0, to |-> to, from |-> Absent, id |-> Absent]

\* a worker takes itself for the one of the first message, as long as that is
\* not 0
Learned(w, m) ==
  [worker[w] EXCEPT !.identity = IF @ = 0 THEN m.id ELSE @]

\* Pollen.worker.receive: the function of the worker answers not at all, to
\* the page, to the sender, or with the very message it was given
WorkerReceives(w) ==
  /\ toWorker[w] # <<>>
  /\ LET m == Head(toWorker[w])
         got == [log EXCEPT ![m.n].got = @ \cup {w}]
         Answer(a, re) == /\ MayPost
                          /\ log' = Append(got, Entry(w, worker'[w].identity, a.to, re))
                          /\ Sent(w, a)
     IN  /\ worker' = [worker EXCEPT ![w] = Learned(w, m)]
         /\ \/ log' = got /\ UNCHANGED toPage
            \/ Answer(New(Absent), 0)
            \/ Answer(New(m.from), m.n)
            \/ Answer(m, 0)
  /\ toWorker' = [toWorker EXCEPT ![w] = Tail(@)]
  /\ UNCHANGED <<hive, hiveCalls>>

\* A worker posts of its own accord, perhaps before it has heard of the page.
WorkerPosts(w, to) ==
  /\ w \in Made
  /\ Post(w, worker[w].identity, to, 0)
  /\ worker' = worker
  /\ Sent(w, New(to))
  /\ UNCHANGED <<hive, toWorker, hiveCalls>>

HiveNext ==
  \/ \E count \in Counts : create(count)
  \/ \E id \in WorkerId : destroyOne(id) \/ send(id)
  \/ destroyAll
  \/ sendAll
  \/ \E w \in Worker : PageReceives(w) \/ WorkerReceives(w)
  \/ \E w \in Worker, to \in Numbers : WorkerPosts(w, to)

HiveSpec == HiveInit /\ [][HiveNext]_hiveVars

\* The browser delivers what was posted; neither page nor worker has to post.
HiveFair == \A w \in Worker : WF_hiveVars(PageReceives(w)) /\ WF_hiveVars(WorkerReceives(w))

(***************************************************************************)
(* Properties.                                                             *)
(***************************************************************************)
Registered(w) == w \in Range(hive.threads)

\* Under every number there is one worker, the one that has it, in the list
\* and the two tables alike, whatever was made and destroyed before
\* (jQuery.Hive.create, destroy).
NumbersAreUnique ==
  /\ IsInjective(hive.threads)
  /\ hive.fns = {i \in WorkerId : hive.byId[i] # Absent}
  /\ \A w \in Worker : Registered(w) <=> \E i \in WorkerId : hive.byId[i] = w
  /\ \A i \in WorkerId : hive.byId[i] # Absent => worker[hive.byId[i]].id = i

\* A worker that answers the sender of a message reaches the one that posted it, as
\* long as the page has not destroyed it; a worker that took itself for number
\* 0, which SEND_TO and SEND_FROM cannot name, is the exception
\* (Pollen.worker.send, receive, jQuery.Hive.send and the listener).
AnswerReachesAsker ==
  \A w \in Worker : \A i \in DOMAIN toWorker[w] :
    LET m == log[toWorker[w][i].n] IN
    m.re # 0 /\ log[m.re].by # Page /\ log[m.re].as # 0 =>
      w = log[m.re].by \/ ~Registered(log[m.re].by)

PostedTo(n, w) == n \in DOMAIN log /\ log[n].for = w
CameTo(n, w) == n \in DOMAIN log /\ w \in log[n].got

\* What one worker posts to the number of another gets there, unless the page
\* destroys the other before.
DirectMessageArrives ==
  \A n \in 1 .. MaxPosts, w \in Worker :
    PostedTo(n, w) ~> CameTo(n, w) \/ ~Registered(w)
=============================================================================
