---------------------------- MODULE WorkerProofs ----------------------------
(***************************************************************************)
(* Proofs about the workers of a page: jQuery.Hive and the worker side of  *)
(* Pollen (Hive), and the requests of a worker (Pollen).                   *)
(*                                                                         *)
(* An answer travels worker, page, worker, while the page makes and        *)
(* destroys workers.  HiveInv says what is true of every message on its    *)
(* way, next to what is true of the numbers and of the log; two recursive  *)
(* functions of the model need to be known to be defined, which            *)
(* RecursionIsDefined shows by the least number for which one is not.      *)
(***************************************************************************)
EXTENDS Hive, Pollen, FiniteSetTheorems, WellFoundedInduction, TLAPS

LogEntry ==
  [by : WorkerId, as : WorkerId, for : Worker \cup {Absent}, re : 0 .. MaxPosts, got : SUBSET WorkerId]
HiveRecord ==
  [threads : Seq(Worker), byId : [WorkerId -> Worker \cup {Absent}], fns : SUBSET WorkerId, last : WorkerId]
WorkerRecord == [id : WorkerId \cup {Absent}, identity : WorkerId]

HiveType ==
  /\ hive \in HiveRecord
  /\ worker \in [Worker -> WorkerRecord]
  /\ toWorker \in [Worker -> Seq(Message)] /\ toPage \in [Worker -> Seq(Message)]
  /\ log \in Seq(LogEntry) /\ Len(log) <= MaxPosts
  /\ hiveCalls \in 0 .. MaxCalls

\* A worker knows its own number or none.
IdentityInv == \A w \in Worker : worker[w].identity \in {0, worker[w].id}

\* Workers are made in their order.
MadeInv == Made = 1 .. Cardinality(Made)

\* No number in use is above the last one given.
TableInv == NumbersAreUnique /\ \A i \in WorkerId : hive.byId[i] # Absent => i <= hive.last

\* What the log says of a post: by whom it was, and which post it answers.
LogInv ==
  \A n \in DOMAIN log :
    /\ log[n].re \in {0} \cup DOMAIN log
    /\ log[n].by # Page => log[n].by \in Made /\ log[n].as \in {0, worker[log[n].by].id}

\* A post of a worker that knew its number.
Named(n) == log[n].by # Page /\ log[n].as # 0

\* A message to worker w: it names w, and the worker that posted it; an answer
\* is on its way to the worker that asked, or that is gone.
ToWorkerOK(w, m) ==
  /\ m.n \in DOMAIN log /\ w \in Made /\ m.id = worker[w].id
  /\ Named(m.n) => m.from = log[m.n].as
  /\ log[m.n].re # 0 /\ Named(log[m.n].re) =>
       w = log[log[m.n].re].by \/ ~Registered(log[log[m.n].re].by)

\* A message to the page: if it is for a worker it names the one that posted
\* it, and an answer has the number of the one that asked.
ToPageOK(w, m) ==
  /\ m.n \in DOMAIN log /\ w \in Made /\ log[m.n].by # Page
  /\ IsSet(m.to) => m.from = log[m.n].as
  /\ log[m.n].re # 0 /\ Named(log[m.n].re) => m.to = log[log[m.n].re].as

MailInv ==
  \A w \in Worker :
    /\ \A m \in Range(toWorker[w]) : ToWorkerOK(w, m)
    /\ \A m \in Range(toPage[w]) : ToPageOK(w, m)

HiveInv == HiveType /\ IdentityInv /\ MadeInv /\ TableInv /\ LogInv /\ MailInv
-----------------------------------------------------------------------------
LEMMA LeastNatural ==
  ASSUME NEW T \in SUBSET Nat, T # {}
  PROVE  \E m \in T : \A k \in T : m <= k
<1>1. IsWellFoundedOn(OpToRel(<, Nat), Nat)
  BY NatLessThanWellFounded
<1>2. PICK m \in T : \A k \in T : ~ (<<k, m>> \in OpToRel(<, Nat))
  BY <1>1, WFMin, Zenon
<1>3. \A k \in T : ~ (k < m)
  BY <1>2 DEF OpToRel
<1> QED BY <1>3

\* A step that leads from the one before it to each of 0 .. n: all of it is good
LEMMA UpTo ==
  ASSUME NEW n \in Nat, NEW G \in SUBSET Nat, 0 \in G,
         \A k \in 1 .. n : k - 1 \in G => k \in G
  PROVE  \A k \in 0 .. n : k \in G
<1> DEFINE T == {j \in 0 .. n : j \notin G}
<1>1. SUFFICES ASSUME T # {} PROVE FALSE
  OBVIOUS
<1>2. T \in SUBSET Nat
  OBVIOUS
<1>3. PICK m \in T : \A k \in T : m <= k
  <2> HIDE DEF T
  <2> QED BY <1>1, <1>2, LeastNatural
<1>4. m \in 1 .. n /\ m - 1 \in 0 .. n /\ ~(m <= m - 1)
  BY <1>3
<1>5. m - 1 \notin T
  <2> HIDE DEF T
  <2> QED BY <1>3, <1>4
<1> QED BY <1>3, <1>4, <1>5

LEMMA RecursionIsDefined ==
  ASSUME NEW S, NEW b \in S, NEW n \in Nat, NEW F \in [1 .. n -> [S -> S]]
  PROVE  \E g \in [0 .. n -> S] :
           g[0] = b /\ \A k \in 1 .. n : g[k] = F[k][g[k - 1]]
<1> DEFINE G == {j \in Nat : j <= n => \E h \in [0 .. j -> S] :
                               h[0] = b /\ \A k \in 1 .. j : h[k] = F[k][h[k - 1]]}
<1>1. 0 \in G
  <2> DEFINE h == [k \in 0 .. 0 |-> b]
  <2>1. h \in [0 .. 0 -> S] /\ h[0] = b /\ 1 .. 0 = {}
    OBVIOUS
  <2> HIDE DEF h
  <2>2. \E x \in [0 .. 0 -> S] : x[0] = b /\ \A k \in 1 .. 0 : x[k] = F[k][x[k - 1]]
    BY <2>1
  <2> QED BY <2>2
<1>2. ASSUME NEW m \in 1 .. n, m - 1 \in G PROVE m \in G
  <2>1. PICK h \in [0 .. m - 1 -> S] : h[0] = b /\ \A k \in 1 .. m - 1 : h[k] = F[k][h[k - 1]]
    BY <1>2
  <2> DEFINE e == [k \in 0 .. m |-> IF k = m THEN F[m][h[m - 1]] ELSE h[k]]
  <2>2. F[m][h[m - 1]] \in S
    BY <2>1
  <2>3. e \in [0 .. m -> S]
    BY <2>1, <2>2
  <2>4. e[0] = b /\ e[m] = F[m][h[m - 1]] /\ \A k \in 0 .. m - 1 : e[k] = h[k]
    BY <2>1
  <2> HIDE DEF e
  <2>5. \A k \in 1 .. m : e[k] = F[k][e[k - 1]]
    <3> TAKE k \in 1 .. m
    <3>1. CASE k = m
      <4>1. m - 1 \in 0 .. m - 1
        OBVIOUS
      <4> QED BY <3>1, <4>1, <2>4
    <3>2. CASE k # m
      <4>1. k \in 1 .. m - 1 /\ k \in 0 .. m - 1 /\ k - 1 \in 0 .. m - 1
        BY <3>2
      <4> QED BY <4>1, <2>1, <2>4
    <3> QED BY <3>1, <3>2
  <2> QED BY <2>3, <2>4, <2>5
<1>3. \A k \in 0 .. n : k \in G
  <2> HIDE DEF G
  <2>1. G \in SUBSET Nat
    BY DEF G
  <2> QED BY <1>1, <1>2, <2>1, UpTo
<1>4. n \in G
  <2> HIDE DEF G
  <2> QED BY <1>3
<1> QED BY <1>4
-----------------------------------------------------------------------------
LEMMA Constants ==
  /\ MaxWorkers \in Nat \ {0} /\ Worker = 1 .. MaxWorkers /\ WorkerId = 0 .. MaxWorkers
  /\ Absent = MaxWorkers + 1 /\ Absent \notin WorkerId /\ Absent \notin Worker
  /\ Page = 0 /\ Page \notin Worker /\ Worker \subseteq WorkerId
  BY HiveBounds DEF Worker, WorkerId, Absent, Page

\* jQuery.map: the list without the worker of a number has the others, each
\* once if the list had each once.
LEMMA WithoutKeepsTheOthers ==
  ASSUME HiveType, NEW id
  PROVE  /\ Without(id) \in Seq(Worker)
         /\ \A w \in Worker : w \in Range(Without(id)) <=>
              w \in Range(hive.threads) /\ worker[w].id # id
         /\ IsInjective(hive.threads) => IsInjective(Without(id))
<1> DEFINE s == hive.threads
           n == Len(s)
           S == Seq(Worker)
           step == [k \in 1 .. n |-> [t \in S |->
                      IF worker[s[k]].id = id THEN t ELSE Append(t, s[k])]]
<1>1. s \in Seq(Worker) /\ n \in Nat /\ \A k \in 1 .. n : s[k] \in Worker
  BY DEF HiveType, HiveRecord
<1>a. \E g \in [0 .. n -> S] : g[0] = <<>> /\ \A k \in 1 .. n : g[k] = step[k][g[k - 1]]
  <2> DEFINE b == <<>>
  <2>1. n \in Nat
    BY <1>1
  <2>2. b \in S
    OBVIOUS
  <2>3. step \in [1 .. n -> [S -> S]]
    BY <1>1
  <2>4. \E g \in [0 .. n -> S] : g[0] = b /\ \A k \in 1 .. n : g[k] = step[k][g[k - 1]]
    <3> HIDE DEF S, b, n, s, step
    <3> QED BY <2>1, <2>2, <2>3, RecursionIsDefined
  <2> QED BY <2>4
<1> DEFINE Def(g) == [k \in 0 .. n |-> IF k = 0 THEN <<>>
                        ELSE IF worker[s[k]].id = id THEN g[k - 1] ELSE Append(g[k - 1], s[k])]
           kept == CHOOSE g : g = Def(g)
<1>2. \E g : g = Def(g)
  <2>2. PICK g \in [0 .. n -> Seq(Worker)] : g[0] = <<>> /\ \A k \in 1 .. n : g[k] = step[k][g[k - 1]]
    <3> HIDE DEF step, s, n
    <3> QED BY <1>a
  <2>3. \A k \in 1 .. n : g[k] = IF worker[s[k]].id = id THEN g[k - 1] ELSE Append(g[k - 1], s[k])
    <3> TAKE k \in 1 .. n
    <3>1. k - 1 \in 0 .. n
      BY <1>1
    <3>2. g[k - 1] \in Seq(Worker)
      BY <2>2, <3>1
    <3> QED BY <2>2, <3>2
  <2> HIDE DEF s, step
  <2>4. \A k \in 0 .. n : k = 0 \/ k \in 1 .. n
    BY <1>1
  <2>5. \A k \in 0 .. n : g[k] = Def(g)[k]
    BY <2>2, <2>3, <2>4
  <2>6. g = [k \in 0 .. n |-> g[k]] /\ Def(g) = [k \in 0 .. n |-> Def(g)[k]]
    BY <2>2
  <2>7. g = Def(g)
    <3> HIDE DEF Def, n
    <3> QED BY <2>5, <2>6
  <2> QED BY <2>7
<1>3. kept = Def(kept)
  <2> HIDE DEF Def
  <2> QED BY <1>2
<1>4. Without(id) = kept[n]
  BY DEF Without
<1> HIDE DEF kept, s, step
<1>5. kept[0] = <<>> /\ \A k \in 1 .. n : kept[k] =
        IF worker[s[k]].id = id THEN kept[k - 1] ELSE Append(kept[k - 1], s[k])
  <2>1. \A k \in 0 .. n : kept[k] = Def(kept)[k]
    <3> HIDE DEF Def
    <3> QED BY <1>3
  <2>2. 0 \in 0 .. n /\ \A k \in 1 .. n : k \in 0 .. n /\ k # 0
    BY <1>1
  <2>3. Def(kept)[0] = <<>> /\ \A k \in 1 .. n : Def(kept)[k] =
          IF worker[s[k]].id = id THEN kept[k - 1] ELSE Append(kept[k - 1], s[k])
    BY <2>2
  <2> HIDE DEF Def
  <2> QED BY <2>1, <2>2, <2>3
<1> HIDE DEF Def
<1> DEFINE P(k) == /\ kept[k] \in Seq(Worker)
                   /\ \A w \in Worker : w \in Range(kept[k]) <=>
                        \E j \in 1 .. k : s[j] = w /\ worker[w].id # id
                   /\ IsInjective(s) => IsInjective(kept[k])
           G == {k \in Nat : k <= n => P(k)}
<1>6. 0 \in G
  <2>1. <<>> \in Seq(Worker) /\ Range(<<>>) = {} /\ IsInjective(<<>>) /\ 1 .. 0 = {}
    BY DEF Range, IsInjective
  <2> HIDE DEF n
  <2> QED BY <2>1, <1>5
<1>7. ASSUME NEW k \in 1 .. n, k - 1 \in G PROVE k \in G
  <2>1. k \in Nat /\ k - 1 \in Nat /\ k - 1 <= n /\ k <= n /\ s[k] \in Worker
    BY <1>1
  <2>2. P(k - 1)
    <3> HIDE DEF n, P
    <3> QED BY <1>7, <2>1
  <2>3. 1 .. k = (1 .. (k - 1)) \cup {k} /\ \A j \in 1 .. k - 1 : j \in 1 .. n
    BY <2>1, <1>1
  <2> HIDE DEF n
  <2>4. CASE worker[s[k]].id = id
    <3>1. kept[k] = kept[k - 1]
      BY <2>4, <1>5
    <3>2. \A w \in Worker : (\E j \in 1 .. k : s[j] = w /\ worker[w].id # id) <=>
                            (\E j \in 1 .. k - 1 : s[j] = w /\ worker[w].id # id)
      BY <2>4, <2>3
    <3>3. P(k)
      BY <3>1, <3>2, <2>2
    <3> HIDE DEF P
    <3> QED BY <3>3, <2>1
  <2>5. CASE worker[s[k]].id # id
    <3> DEFINE t == kept[k - 1]
    <3>1. kept[k] = Append(t, s[k]) /\ t \in Seq(Worker)
      BY <2>5, <1>5, <2>2
    <3>2. Range(kept[k]) = Range(t) \cup {s[k]}
      <4> HIDE DEF t
      <4> QED BY <3>1, <2>1 DEF Range
    <3>3. \A w \in Worker : w \in Range(kept[k]) <=>
            \E j \in 1 .. k : s[j] = w /\ worker[w].id # id
      BY <2>2, <2>3, <2>5, <3>2
    <3>4. ASSUME IsInjective(s) PROVE IsInjective(kept[k])
      <4>1. \A j \in 1 .. k - 1 : s[j] # s[k]
        BY <3>4, <2>1, <2>3, <1>1 DEF IsInjective, n
      <4>2. s[k] \notin Range(t)
        BY <4>1, <2>1, <2>2
      <4>3. IsInjective(t)
        BY <3>4, <2>2
      <4> HIDE DEF t
      <4> QED BY <3>1, <2>1, <4>2, <4>3 DEF IsInjective, Range
    <3>5. kept[k] \in Seq(Worker)
      BY <3>1, <2>1
    <3>6. P(k)
      BY <3>3, <3>4, <3>5
    <3> HIDE DEF P
    <3> QED BY <3>6, <2>1
  <2> QED BY <2>4, <2>5
<1>8. n \in G
  <2> HIDE DEF G
  <2>1. G \in SUBSET Nat
    BY DEF G
  <2>2. n \in Nat
    BY <1>1
  <2> HIDE DEF n
  <2>3. \A k \in 0 .. n : k \in G
    BY <1>6, <1>7, <2>1, <2>2, UpTo
  <2> QED BY <2>2, <2>3
<1>9. P(n)
  <2>1. n <= n
    BY <1>1
  <2> HIDE DEF n, P
  <2> QED BY <1>8, <2>1
<1>10. \A w \in Worker : (\E j \in 1 .. n : s[j] = w /\ worker[w].id # id) <=> (w \in Range(s) /\ worker[w].id # id)
  BY <1>1 DEF Range
<1> HIDE DEF n
<1> QED BY <1>4, <1>9, <1>10 DEF s

\* What send makes of a message: it has the number of the worker, and names a
\* sender if it named none.
LEMMA StampNames ==
  ASSUME HiveType, NEW m \in Message, NEW w \in Worker
  PROVE  /\ Stamp(m, w) \in Message
         /\ Stamp(m, w).n = m.n /\ Stamp(m, w).to = m.to /\ Stamp(m, w).id = worker[w].id
         /\ IsSet(m.from) => Stamp(m, w).from = m.from
<1>1. worker[w].id \in WorkerId \cup {Absent}
  BY DEF HiveType, WorkerRecord
<1> QED BY <1>1 DEF Stamp, Message

\* One object sent by all: each finds its own number in it.
LEMMA StampedForEach ==
  ASSUME HiveType, MayPost
  PROVE  \A k \in DOMAIN hive.threads :
           /\ Stamped[k] \in Message /\ Stamped[k].n = Posted
           /\ Stamped[k].id = worker[hive.threads[k]].id
<1> DEFINE s == hive.threads
           n == Len(s)
           step == [k \in 1 .. n |-> [m \in Message |-> Stamp(m, s[k])]]
           Def(g) == [k \in 0 .. n |-> IF k = 0 THEN PageMessage ELSE Stamp(g[k - 1], s[k])]
<1>1. s \in Seq(Worker) /\ n \in Nat /\ \A k \in 1 .. n : s[k] \in Worker
  BY DEF HiveType, HiveRecord
<1>2. PageMessage \in Message /\ PageMessage.n = Posted
  <2>1. Len(log) \in Nat /\ Len(log) < MaxPosts
    BY DEF HiveType, MayPost
  <2>2. Posted \in 1 .. MaxPosts
    BY <2>1, HiveBounds DEF Posted
  <2> QED BY <2>2 DEF PageMessage, Message
<1>3. \E g \in [0 .. n -> Message] : g[0] = PageMessage /\ \A k \in 1 .. n : g[k] = step[k][g[k - 1]]
  <2>1. n \in Nat
    BY <1>1
  <2>2. \A k \in 1 .. n, m \in Message : Stamp(m, s[k]) \in Message
    BY <1>1, StampNames
  <2>3. step \in [1 .. n -> [Message -> Message]]
    <3> HIDE DEF n, s
    <3> QED BY <2>2
  <2> HIDE DEF n, s, step
  <2> QED BY <2>1, <1>2, <2>3, RecursionIsDefined
<1>4. \E g : g = Def(g)
  <2>1. PICK g \in [0 .. n -> Message] : g[0] = PageMessage /\ \A k \in 1 .. n : g[k] = step[k][g[k - 1]]
    <3> HIDE DEF step, s, n
    <3> QED BY <1>3
  <2>2. \A k \in 1 .. n : k - 1 \in 0 .. n
    BY <1>1
  <2>3. \A k \in 1 .. n : g[k] = Stamp(g[k - 1], s[k])
    <3> HIDE DEF n, s
    <3> QED BY <2>1, <2>2
  <2>4. \A k \in 0 .. n : k = 0 \/ k \in 1 .. n
    BY <1>1
  <2> HIDE DEF n, s, step
  <2>5. \A k \in 0 .. n : g[k] = Def(g)[k]
    BY <2>1, <2>3, <2>4
  <2>6. g = [k \in 0 .. n |-> g[k]] /\ Def(g) = [k \in 0 .. n |-> Def(g)[k]]
    BY <2>1
  <2>7. g = Def(g)
    <3> HIDE DEF Def
    <3> QED BY <2>5, <2>6
  <2> QED BY <2>7
<1>5. Stamped = CHOOSE g : g = Def(g)
  BY DEF Stamped
<1>6. Stamped = Def(Stamped)
  <2> HIDE DEF Def
  <2> QED BY <1>4, <1>5
<1>7. Stamped[0] = PageMessage /\ \A k \in 1 .. n : Stamped[k] = Stamp(Stamped[k - 1], s[k])
  <2>1. \A k \in 0 .. n : Stamped[k] = Def(Stamped)[k]
    <3> HIDE DEF Def
    <3> QED BY <1>6
  <2>2. 0 \in 0 .. n /\ \A k \in 1 .. n : k \in 0 .. n /\ k # 0
    BY <1>1
  <2> HIDE DEF n, s
  <2>3. Def(Stamped)[0] = PageMessage
        /\ \A k \in 1 .. n : Def(Stamped)[k] = Stamp(Stamped[k - 1], s[k])
    BY <2>2
  <2> HIDE DEF Def
  <2> QED BY <2>1, <2>2, <2>3
<1> HIDE DEF Def
<1> DEFINE P(k) == Stamped[k] \in Message /\ Stamped[k].n = Posted
           G == {k \in Nat : k <= n => P(k)}
<1>8. 0 \in G
  BY <1>2, <1>7
<1>9. ASSUME NEW k \in 1 .. n, k - 1 \in G PROVE k \in G
  <2>1. k \in Nat /\ k - 1 \in Nat /\ k - 1 <= n /\ s[k] \in Worker
    BY <1>1
  <2>2. P(k - 1)
    <3> HIDE DEF n, P
    <3> QED BY <1>9, <2>1
  <2>3. P(k)
    BY <2>1, <2>2, <1>7, StampNames
  <2> HIDE DEF P
  <2> QED BY <2>1, <2>3
<1>10. \A k \in 0 .. n : k \in G
  <2>1. G \in SUBSET Nat
    OBVIOUS
  <2>2. n \in Nat
    BY <1>1
  <2> HIDE DEF G, n
  <2> QED BY <1>8, <1>9, <2>1, <2>2, UpTo
<1>11. ASSUME NEW k \in 1 .. n
       PROVE  P(k) /\ Stamped[k].id = worker[s[k]].id
  <2>1. k \in 0 .. n /\ k - 1 \in 0 .. n /\ k <= n /\ k - 1 <= n
    BY <1>1
  <2>2. P(k) /\ P(k - 1)
    <3> HIDE DEF P, n
    <3> QED BY <1>10, <2>1
  <2>3. s[k] \in Worker /\ Stamped[k] = Stamp(Stamped[k - 1], s[k])
    BY <1>1, <1>7
  <2>4. Stamp(Stamped[k - 1], s[k]).id = worker[s[k]].id
    BY <2>2, <2>3, StampNames
  <2> QED BY <2>2, <2>3, <2>4
<1> QED BY <1>1, <1>11

-----------------------------------------------------------------------------
(* Queues of messages. *)

LEMMA QueueGrows ==
  ASSUME NEW S, NEW q \in Seq(S), NEW m \in S
  PROVE  Append(q, m) \in Seq(S) /\ Range(Append(q, m)) = Range(q) \cup {m}
<1>1. Len(q) \in Nat /\ DOMAIN q = 1 .. Len(q) /\ DOMAIN Append(q, m) = 1 .. Len(q) + 1
  OBVIOUS
<1>2. Append(q, m)[Len(q) + 1] = m /\ \A i \in DOMAIN q : Append(q, m)[i] = q[i]
  OBVIOUS
<1>3. DOMAIN Append(q, m) = DOMAIN q \cup {Len(q) + 1}
  BY <1>1
<1>4. Range(Append(q, m)) = Range(q) \cup {m}
  <2> DEFINE t == Append(q, m)
  <2> HIDE DEF t
  <2>1. DOMAIN t = DOMAIN q \cup {Len(q) + 1} /\ t[Len(q) + 1] = m /\ \A i \in DOMAIN q : t[i] = q[i]
    BY <1>2, <1>3 DEF t
  <2>2. Range(t) = Range(q) \cup {m}
    BY <2>1 DEF Range
  <2> QED BY <2>2 DEF t
<1> QED BY <1>4

LEMMA QueueMoves ==
  ASSUME NEW S, NEW q \in Seq(S), q # <<>>
  PROVE  /\ Head(q) \in S /\ Head(q) \in Range(q)
         /\ Tail(q) \in Seq(S) /\ Range(Tail(q)) \subseteq Range(q)
<1>1. Len(q) \in Nat /\ Len(q) # 0 /\ DOMAIN q = 1 .. Len(q)
  OBVIOUS
<1>2. 1 \in DOMAIN q /\ Head(q) = q[1] /\ q[1] \in S
  BY <1>1
<1>3. Head(q) \in Range(q)
  BY <1>2 DEF Range
<1>4. Tail(q) \in Seq(S)
  OBVIOUS
<1>5. \A i \in DOMAIN Tail(q) : i + 1 \in DOMAIN q /\ Tail(q)[i] = q[i + 1]
  BY <1>1
<1>6. Range(Tail(q)) \subseteq Range(q)
  BY <1>5 DEF Range
<1> QED BY <1>2, <1>3, <1>4, <1>6

-----------------------------------------------------------------------------
(* What no step takes back. *)

\* The log keeps its entries, but for who has got the message.
LogGrows ==
  \A n \in DOMAIN log :
    n \in DOMAIN log' /\ log'[n].by = log[n].by /\ log'[n].as = log[n].as /\ log'[n].re = log[n].re

\* Workers keep their numbers, and none that was destroyed comes back.
RosterSteady ==
  \A w \in Made : w \in Made' /\ worker'[w].id = worker[w].id /\ (w \in Range(hive'.threads) => w \in Range(hive.threads))

LEMMA OldMailStays ==
  ASSUME LogInv, LogGrows, RosterSteady, NEW w \in Worker, NEW m
  PROVE  (ToWorkerOK(w, m) => ToWorkerOK(w, m)') /\ (ToPageOK(w, m) => ToPageOK(w, m)')
<1>1. ASSUME m.n \in DOMAIN log, w \in Made
      PROVE  /\ m.n \in DOMAIN log' /\ w \in Made' /\ worker'[w].id = worker[w].id
             /\ log'[m.n].by = log[m.n].by /\ log'[m.n].as = log[m.n].as /\ log'[m.n].re = log[m.n].re
             /\ Named(m.n)' <=> Named(m.n)
  BY <1>1 DEF LogGrows, RosterSteady, Named
<1>2. ASSUME NEW r \in DOMAIN log, Named(r)'
      PROVE  /\ Named(r) /\ log'[r].by = log[r].by /\ log'[r].as = log[r].as
             /\ log[r].by \in Range(hive'.threads) => log[r].by \in Range(hive.threads)
  <2>1. Named(r) /\ log'[r].by = log[r].by /\ log'[r].as = log[r].as
    BY <1>2 DEF Named, LogGrows
  <2>2. log[r].by \in Made
    BY <2>1 DEF LogInv, Named
  <2> QED BY <2>1, <2>2 DEF RosterSteady
<1>3. ASSUME m.n \in DOMAIN log, log[m.n].re # 0 PROVE log[m.n].re \in DOMAIN log
  BY <1>3 DEF LogInv
<1>4. ASSUME ToWorkerOK(w, m) PROVE ToWorkerOK(w, m)'
  <2>1. m.n \in DOMAIN log /\ w \in Made
    BY <1>4 DEF ToWorkerOK
  <2>2. PICK r : r = log[m.n].re
    OBVIOUS
  <2>3. log'[m.n].re = r
    BY <1>1, <2>1, <2>2
  <2>4. ASSUME r # 0, Named(r)' PROVE w = log'[r].by \/ log'[r].by \notin Range(hive'.threads)
    <3>1. r \in DOMAIN log
      BY <1>3, <2>1, <2>2, <2>4
    <3>2. Named(r) /\ log'[r].by = log[r].by
          /\ (log[r].by \in Range(hive'.threads) => log[r].by \in Range(hive.threads))
      BY <1>2, <2>4, <3>1
    <3>3. w = log[r].by \/ log[r].by \notin Range(hive.threads)
      BY <1>4, <2>2, <2>4, <3>2 DEF ToWorkerOK, Registered
    <3> QED BY <3>2, <3>3
  <2>5. m.id = worker'[w].id /\ (Named(m.n)' => m.from = log'[m.n].as)
    BY <1>1, <1>4, <2>1 DEF ToWorkerOK
  <2> QED BY <1>1, <2>1, <2>3, <2>4, <2>5 DEF ToWorkerOK, Registered
<1>5. ASSUME ToPageOK(w, m) PROVE ToPageOK(w, m)'
  <2>1. m.n \in DOMAIN log /\ w \in Made
    BY <1>5 DEF ToPageOK
  <2>2. PICK r : r = log[m.n].re
    OBVIOUS
  <2>3. log'[m.n].re = r
    BY <1>1, <2>1, <2>2
  <2>4. ASSUME r # 0, Named(r)' PROVE m.to = log'[r].as
    <3>1. r \in DOMAIN log
      BY <1>3, <2>1, <2>2, <2>4
    <3>2. Named(r) /\ log'[r].as = log[r].as
      BY <1>2, <2>4, <3>1
    <3> QED BY <1>5, <2>2, <2>4, <3>2 DEF ToPageOK
  <2>5. log'[m.n].by # Page /\ (IsSet(m.to) => m.from = log'[m.n].as)
    BY <1>1, <1>5, <2>1 DEF ToPageOK
  <2> QED BY <1>1, <2>1, <2>3, <2>4, <2>5 DEF ToPageOK, Page
<1> QED BY <1>4, <1>5

LEMMA OldLogStays ==
  ASSUME LogInv, LogGrows, RosterSteady,
         \A n \in DOMAIN log' \ DOMAIN log :
           /\ log'[n].re \in {0} \cup DOMAIN log'
           /\ log'[n].by # Page => log'[n].by \in Made' /\ log'[n].as \in {0, worker'[log'[n].by].id}
  PROVE  LogInv'
<1> SUFFICES ASSUME NEW n \in DOMAIN log'
             PROVE  /\ log'[n].re \in {0} \cup DOMAIN log'
                    /\ log'[n].by # Page =>
                         log'[n].by \in Made' /\ log'[n].as \in {0, worker'[log'[n].by].id}
  BY DEF LogInv, Page
<1>1. CASE n \in DOMAIN log
  BY <1>1 DEF LogInv, LogGrows, RosterSteady
<1>2. CASE n \notin DOMAIN log
  BY <1>2
<1> QED BY <1>1, <1>2

LEMMA EntryType ==
  ASSUME HiveType, NEW by \in WorkerId, NEW as \in WorkerId, NEW to \in WorkerId \cup {Absent},
         NEW re \in 0 .. MaxPosts
  PROVE  Entry(by, as, to, re) \in LogEntry
<1>1. IsSet(to) => hive.byId[to] \in Worker \cup {Absent}
  BY DEF HiveType, HiveRecord, IsSet
<1> QED BY <1>1 DEF Entry, LogEntry

\* A post makes one entry, the last.
LEMMA PostMakesAnEntry ==
  ASSUME HiveType, MayPost, NEW e \in LogEntry, NEW l \in Seq(LogEntry), Len(l) = Len(log),
         \A n \in DOMAIN log : l[n].by = log[n].by /\ l[n].as = log[n].as /\ l[n].re = log[n].re,
         log' = Append(l, e)
  PROVE  /\ log' \in Seq(LogEntry) /\ Len(log') <= MaxPosts /\ LogGrows
         /\ DOMAIN log' = DOMAIN log \cup {Posted} /\ Posted \notin DOMAIN log
         /\ Posted \in 1 .. MaxPosts /\ log'[Posted] = e
<1>1. Len(log) \in Nat /\ DOMAIN log = 1 .. Len(log) /\ DOMAIN l = 1 .. Len(log) /\ Len(log) < MaxPosts
  BY DEF HiveType, MayPost
<1>2. Len(log') = Len(log) + 1 /\ DOMAIN log' = 1 .. Len(log) + 1
  BY <1>1
<1>3. log'[Posted] = e /\ \A n \in DOMAIN log : log'[n] = l[n]
  BY <1>1 DEF Posted
<1>4. log' \in Seq(LogEntry)
  OBVIOUS
<1>5. Posted \in 1 .. MaxPosts /\ Posted \notin DOMAIN log /\ DOMAIN log' = DOMAIN log \cup {Posted}
  BY <1>1, <1>2, HiveBounds DEF Posted
<1>6. Len(log') <= MaxPosts
  BY <1>1, <1>2, HiveBounds
<1>7. LogGrows
  BY <1>3, <1>5 DEF LogGrows
<1> QED BY <1>3, <1>4, <1>5, <1>6, <1>7

-----------------------------------------------------------------------------
(* The steps. *)

\* What a step has to show: tables, identities, and what is new in log and mail.
LEMMA StepKeepsTheInvariant ==
  ASSUME HiveInv, HiveType', IdentityInv', MadeInv', TableInv', LogGrows, RosterSteady,
         \A n \in DOMAIN log' \ DOMAIN log :
           /\ log'[n].re \in {0} \cup DOMAIN log'
           /\ log'[n].by # Page => log'[n].by \in Made' /\ log'[n].as \in {0, worker'[log'[n].by].id},
         \A w \in Worker : \A m \in Range(toWorker'[w]) : m \in Range(toWorker[w]) \/ ToWorkerOK(w, m)',
         \A w \in Worker : \A m \in Range(toPage'[w]) : m \in Range(toPage[w]) \/ ToPageOK(w, m)'
  PROVE  HiveInv'
<1>1. LogInv'
  BY OldLogStays DEF HiveInv
<1>2. MailInv'
  <2>1. \A w \in Worker : \A m \in Range(toWorker[w]) : ToWorkerOK(w, m)'
    BY OldMailStays DEF HiveInv, MailInv
  <2>2. \A w \in Worker : \A m \in Range(toPage[w]) : ToPageOK(w, m)'
    BY OldMailStays DEF HiveInv, MailInv
  <2> QED BY <2>1, <2>2 DEF MailInv
<1> QED BY <1>1, <1>2 DEF HiveInv

\* A step that only delivers or posts leaves the workers and their numbers alone.
LEMMA RosterStays ==
  ASSUME HiveInv, hive' = hive, worker' \in [Worker -> WorkerRecord],
         \A w \in Worker : worker'[w].id = worker[w].id
  PROVE  MadeInv' /\ TableInv' /\ RosterSteady /\ Made' = Made
<1>1. Made' = Made
  BY DEF Made
<1>2. MadeInv'
  BY <1>1 DEF HiveInv, MadeInv
<1>3. \A i \in WorkerId : hive.byId[i] # Absent => hive.byId[i] \in Worker
  BY DEF HiveInv, HiveType, HiveRecord
<1>4. TableInv'
  BY <1>3 DEF HiveInv, TableInv, NumbersAreUnique, Registered
<1>5. RosterSteady
  BY <1>1 DEF RosterSteady, Made
<1> QED BY <1>1, <1>2, <1>4, <1>5

LEMMA QuietLog ==
  ASSUME log' = log
  PROVE  LogGrows /\ DOMAIN log' \ DOMAIN log = {}
  BY DEF LogGrows

LEMMA DestroyOneKeeps ==
  ASSUME HiveInv, NEW id \in WorkerId, destroyOne(id)
  PROVE  HiveInv'
<1> USE DEF HiveInv
<1>1. /\ hive' = [hive EXCEPT !.threads = Without(id), !.byId[id] = Absent, !.fns = @ \ {id}]
      /\ hiveCalls' = hiveCalls + 1 /\ hiveCalls < MaxCalls
      /\ UNCHANGED <<worker, toWorker, toPage, log>>
  BY DEF destroyOne, MayCall
<1>2. /\ Without(id) \in Seq(Worker) /\ IsInjective(Without(id))
      /\ \A w \in Worker : w \in Range(Without(id)) <=> w \in Range(hive.threads) /\ worker[w].id # id
  BY WithoutKeepsTheOthers DEF TableInv, NumbersAreUnique
<1>3. hive \in HiveRecord
  BY DEF HiveType
<1>4. /\ hive' \in HiveRecord
      /\ hive'.threads = Without(id) /\ hive'.fns = hive.fns \ {id} /\ hive'.last = hive.last
      /\ \A i \in WorkerId : hive'.byId[i] = IF i = id THEN Absent ELSE hive.byId[i]
  BY <1>1, <1>2, <1>3 DEF HiveRecord
<1>5. HiveType'
  BY <1>1, <1>4, HiveBounds DEF HiveType
<1>6. \A i \in WorkerId : hive.byId[i] \in Worker \cup {Absent}
  BY <1>3 DEF HiveRecord
<1>7. TableInv'
  <2>1. hive'.fns = {i \in WorkerId : hive'.byId[i] # Absent}
    BY <1>4 DEF TableInv, NumbersAreUnique
  <2>2. \A i \in WorkerId : hive'.byId[i] # Absent => worker[hive'.byId[i]].id = i /\ i <= hive'.last
    BY <1>4 DEF TableInv, NumbersAreUnique
  <2>3. ASSUME NEW w \in Worker
        PROVE  w \in Range(hive'.threads) <=> \E i \in WorkerId : hive'.byId[i] = w
    <3>1. w # Absent
      BY Constants
    <3>2. w \in Range(hive.threads) <=> \E i \in WorkerId : hive.byId[i] = w
      BY DEF TableInv, NumbersAreUnique, Registered
    <3>3. \A i \in WorkerId : hive.byId[i] = w => worker[w].id = i
      BY <3>1 DEF TableInv, NumbersAreUnique
    <3> QED BY <1>2, <1>4, <3>1, <3>2, <3>3
  <2> QED BY <1>1, <1>2, <1>4, <2>1, <2>2, <2>3 DEF TableInv, NumbersAreUnique, Registered
<1>8. RosterSteady /\ MadeInv' /\ IdentityInv'
  <2>1. Made' = Made /\ Made \subseteq Worker
    BY <1>1 DEF Made
  <2> QED BY <1>1, <1>2, <1>4, <2>1 DEF RosterSteady, MadeInv, IdentityInv
<1>9. LogGrows /\ DOMAIN log' \ DOMAIN log = {}
  BY <1>1, QuietLog
<1> QED BY <1>1, <1>5, <1>7, <1>8, <1>9, StepKeepsTheInvariant

LEMMA DestroyAllKeeps ==
  ASSUME HiveInv, destroyAll
  PROVE  HiveInv'
<1> USE DEF HiveInv
<1>1. /\ hive' = [hive EXCEPT !.threads = <<>>, !.byId = [i \in WorkerId |-> Absent], !.fns = {}]
      /\ hiveCalls' = hiveCalls + 1 /\ hiveCalls < MaxCalls
      /\ UNCHANGED <<worker, toWorker, toPage, log>>
  BY DEF destroyAll, MayCall
<1>2. hive \in HiveRecord
  BY DEF HiveType
<1>3. /\ hive' \in HiveRecord
      /\ hive'.threads = <<>> /\ hive'.fns = {}
      /\ \A i \in WorkerId : hive'.byId[i] = Absent
  <2> DEFINE none == [i \in WorkerId |-> Absent]
             empty == <<>>
  <2>1. none \in [WorkerId -> Worker \cup {Absent}] /\ \A i \in WorkerId : none[i] = Absent
    OBVIOUS
  <2>2. empty \in Seq(Worker)
    OBVIOUS
  <2>3. hive' = [hive EXCEPT !.threads = empty, !.byId = none, !.fns = {}]
    BY <1>1
  <2> HIDE DEF none, empty
  <2>4. hive' \in HiveRecord /\ hive'.threads = empty /\ hive'.fns = {} /\ hive'.byId = none
    BY <1>2, <2>1, <2>2, <2>3 DEF HiveRecord
  <2>5. empty = <<>>
    BY DEF empty
  <2> QED BY <2>1, <2>4, <2>5
<1>4. HiveType'
  BY <1>1, <1>3, HiveBounds DEF HiveType
<1>5. Range(hive'.threads) = {} /\ IsInjective(hive'.threads)
  BY <1>3 DEF Range, IsInjective
<1>6. \A w \in Worker : w # Absent
  BY Constants
<1>7. TableInv'
  BY <1>1, <1>3, <1>5, <1>6 DEF TableInv, NumbersAreUnique, Registered
<1>8. RosterSteady /\ MadeInv' /\ IdentityInv'
  <2>1. Made' = Made /\ Made \subseteq Worker
    BY <1>1 DEF Made
  <2> QED BY <1>1, <1>5, <2>1 DEF RosterSteady, MadeInv, IdentityInv
<1>9. LogGrows /\ DOMAIN log' \ DOMAIN log = {}
  BY <1>1, QuietLog
<1> QED BY <1>1, <1>4, <1>7, <1>8, <1>9, StepKeepsTheInvariant

LEMMA QueuesJoined ==
  ASSUME NEW S, NEW s \in Seq(S), NEW t \in Seq(S)
  PROVE  /\ s \o t \in Seq(S) /\ Range(s \o t) = Range(s) \cup Range(t)
         /\ IsInjective(s) /\ IsInjective(t) /\ Range(s) \cap Range(t) = {} => IsInjective(s \o t)
<1> DEFINE u == s \o t
<1>1. Len(s) \in Nat /\ Len(t) \in Nat /\ DOMAIN s = 1 .. Len(s) /\ DOMAIN t = 1 .. Len(t)
      /\ DOMAIN u = 1 .. Len(s) + Len(t)
  OBVIOUS
<1>2. \A i \in DOMAIN u : u[i] = IF i <= Len(s) THEN s[i] ELSE t[i - Len(s)]
  OBVIOUS
<1>3. u \in Seq(S)
  OBVIOUS
<1> HIDE DEF u
<1>4. /\ \A i \in DOMAIN s : i \in DOMAIN u /\ u[i] = s[i]
      /\ \A i \in DOMAIN t : i + Len(s) \in DOMAIN u /\ u[i + Len(s)] = t[i]
  BY <1>1, <1>2
<1>5. \A i \in DOMAIN u : (i \in DOMAIN s /\ u[i] = s[i])
                       \/ (i \notin DOMAIN s /\ i - Len(s) \in DOMAIN t /\ u[i] = t[i - Len(s)])
  BY <1>1, <1>2
<1>6. Range(u) = Range(s) \cup Range(t)
  BY <1>4, <1>5 DEF Range
<1>7. ASSUME IsInjective(s), IsInjective(t), Range(s) \cap Range(t) = {} PROVE IsInjective(u)
  <2> SUFFICES ASSUME NEW i \in DOMAIN u, NEW j \in DOMAIN u, u[i] = u[j] PROVE i = j
    BY DEF IsInjective
  <2>1. CASE i \in DOMAIN s /\ j \in DOMAIN s
    BY <2>1, <1>5, <1>7 DEF IsInjective
  <2>2. CASE i \notin DOMAIN s /\ j \notin DOMAIN s
    <3>1. i - Len(s) \in DOMAIN t /\ j - Len(s) \in DOMAIN t /\ t[i - Len(s)] = t[j - Len(s)]
      BY <2>2, <1>5
    <3>2. i - Len(s) = j - Len(s)
      BY <3>1, <1>7 DEF IsInjective
    <3> QED BY <3>2, <1>1
  <2>3. CASE i \in DOMAIN s /\ j \notin DOMAIN s
    BY <2>3, <1>5, <1>7 DEF Range
  <2>4. CASE i \notin DOMAIN s /\ j \in DOMAIN s
    BY <2>4, <1>5, <1>7 DEF Range
  <2> QED BY <2>1, <2>2, <2>3, <2>4
<1> QED BY <1>3, <1>6, <1>7 DEF u

LEMMA CreateKeeps ==
  ASSUME HiveInv, NEW count \in Nat \ {0}, create(count)
  PROVE  HiveInv'
<1> USE DEF HiveInv
<1> DEFINE new == [k \in 1 .. count |-> Cardinality(Made) + k]
           ids == FirstId .. FirstId + count - 1
<1>1. PICK c : c = Cardinality(Made)
  OBVIOUS
<1>2. PICK b : b = FirstId
  OBVIOUS
<1>3. Made = 1 .. c /\ Made \subseteq Worker
  BY <1>1 DEF MadeInv, Made
<1>4. IsFiniteSet(Made)
  <2>1. IsFiniteSet(1 .. MaxWorkers)
    BY HiveBounds, FS_Interval
  <2> QED BY <2>1, <1>3, Constants, FS_Subset
<1>5. c \in Nat
  BY <1>1, <1>4, FS_CardinalityType
<1>6. hive \in HiveRecord /\ hive.last \in WorkerId
  BY DEF HiveType, HiveRecord
<1>7. b \in Nat
  BY <1>2, <1>6, Constants DEF FirstId
<1>8. c + count <= MaxWorkers /\ b + count - 1 \in WorkerId
  BY <1>1, <1>2 DEF create
<1>9. new = [k \in 1 .. count |-> c + k] /\ new \in Seq(Worker) /\ Range(new) = c + 1 .. c + count
      /\ IsInjective(new) /\ new[1] = c + 1
  <2>1. new = [k \in 1 .. count |-> c + k]
    BY <1>1
  <2>2. \A k \in 1 .. count : c + k \in Worker
    BY <1>5, <1>8, Constants
  <2>3. new \in Seq(Worker)
    BY <2>1, <2>2
  <2>4. \A w \in c + 1 .. c + count : w - c \in 1 .. count /\ c + (w - c) = w
    BY <1>5
  <2>5. Range(new) = c + 1 .. c + count
    <3>1. Range(new) \subseteq c + 1 .. c + count
      BY <2>1, <1>5 DEF Range
    <3>2. c + 1 .. c + count \subseteq Range(new)
      BY <2>1, <2>4 DEF Range
    <3> QED BY <3>1, <3>2
  <2>6. IsInjective(new)
    BY <2>1, <1>5 DEF IsInjective
  <2> QED BY <2>1, <2>3, <2>5, <2>6
<1>10. ids = b .. b + count - 1 /\ ids \subseteq WorkerId
  BY <1>2, <1>7, <1>8, Constants
<1>11. /\ worker' = [w \in Worker |-> IF w \in Range(new) THEN [worker[w] EXCEPT !.id = b + w - (c + 1)] ELSE worker[w]]
       /\ hive' = [threads |-> hive.threads \o new,
                   byId |-> [i \in WorkerId |-> IF i \in ids THEN (c + 1) + i - b ELSE hive.byId[i]],
                   fns |-> hive.fns \cup ids,
                   last |-> b + count - 1]
       /\ hiveCalls' = hiveCalls + 1 /\ hiveCalls < MaxCalls
       /\ UNCHANGED <<toWorker, toPage, log>>
  <2>1. /\ worker' = [w \in Worker |-> IF w \in Range(new) THEN [worker[w] EXCEPT !.id = FirstId + w - new[1]] ELSE worker[w]]
        /\ hive' = [threads |-> hive.threads \o new,
                    byId |-> [i \in WorkerId |-> IF i \in ids THEN new[1] + i - FirstId ELSE hive.byId[i]],
                    fns |-> hive.fns \cup ids,
                    last |-> FirstId + count - 1]
    BY Zenon DEF create
  <2>2. new[1] = c + 1 /\ FirstId = b
    BY <1>2, <1>9
  <2>3. hiveCalls' = hiveCalls + 1 /\ hiveCalls < MaxCalls /\ UNCHANGED <<toWorker, toPage, log>>
    BY DEF create, MayCall
  <2> HIDE DEF new, ids
  <2> QED BY <2>1, <2>2, <2>3, Zenon
<1> HIDE DEF new, ids
<1>12. \A w \in c + 1 .. c + count : w \in Worker /\ w \notin Made /\ b + w - (c + 1) \in ids
                                   /\ (c + 1) + (b + w - (c + 1)) - b = w
  BY <1>3, <1>5, <1>7, <1>8, <1>10, Constants
<1>13. \A i \in ids : (c + 1) + i - b \in c + 1 .. c + count /\ b + ((c + 1) + i - b) - (c + 1) = i
  BY <1>5, <1>7, <1>10
<1>14. worker \in [Worker -> WorkerRecord]
  BY DEF HiveType
<1>15. /\ worker' \in [Worker -> WorkerRecord]
       /\ \A w \in Worker : /\ worker'[w].identity = worker[w].identity
                            /\ worker'[w].id = IF w \in c + 1 .. c + count THEN b + w - (c + 1) ELSE worker[w].id
  <2>1. worker' = [w \in Worker |-> IF w \in c + 1 .. c + count THEN [worker[w] EXCEPT !.id = b + w - (c + 1)]
                                    ELSE worker[w]]
    BY <1>9, <1>11
  <2>2. ASSUME NEW w \in Worker, w \in c + 1 .. c + count
        PROVE  /\ worker'[w] \in WorkerRecord /\ worker'[w].identity = worker[w].identity
               /\ worker'[w].id = b + w - (c + 1)
    <3>1. PICK i : i = b + w - (c + 1)
      OBVIOUS
    <3>2. i \in WorkerId
      BY <1>10, <1>12, <2>2, <3>1
    <3>3. worker'[w] = [worker[w] EXCEPT !.id = i] /\ worker[w] \in WorkerRecord
      BY <1>14, <2>1, <2>2, <3>1
    <3> QED BY <3>1, <3>2, <3>3 DEF WorkerRecord
  <2>3. \A w \in Worker : w \notin c + 1 .. c + count => worker'[w] = worker[w]
    BY <2>1
  <2>4. worker' \in [Worker -> WorkerRecord]
    BY <1>14, <2>1, <2>2, <2>3
  <2> QED BY <2>2, <2>3, <2>4
<1>16. /\ hive' \in HiveRecord
       /\ hive'.threads = hive.threads \o new /\ hive'.fns = hive.fns \cup ids /\ hive'.last = b + count - 1
       /\ \A i \in WorkerId : hive'.byId[i] = IF i \in ids THEN (c + 1) + i - b ELSE hive.byId[i]
  <2>1. hive.threads \o new \in Seq(Worker)
    BY <1>6, <1>9, QueuesJoined DEF HiveRecord
  <2>2. \A i \in WorkerId : hive.byId[i] \in Worker \cup {Absent}
    BY <1>6 DEF HiveRecord
  <2>3. \A i \in ids : (c + 1) + i - b \in Worker
    BY <1>12, <1>13
  <2>4. [i \in WorkerId |-> IF i \in ids THEN (c + 1) + i - b ELSE hive.byId[i]] \in [WorkerId -> Worker \cup {Absent}]
    BY <2>2, <2>3
  <2>5. hive.fns \cup ids \in SUBSET WorkerId
    BY <1>6, <1>10 DEF HiveRecord
  <2> QED BY <1>8, <1>11, <2>1, <2>4, <2>5 DEF HiveRecord
<1>17. HiveType'
  BY <1>11, <1>15, <1>16, HiveBounds DEF HiveType
<1>18. Made' = 1 .. c + count
  <2>1. \A i \in ids : i # Absent
    BY <1>10, Constants
  <2>2. Made' = Made \cup (c + 1 .. c + count)
    BY <1>12, <1>15, <2>1 DEF Made
  <2> QED BY <1>3, <1>5, <2>2
<1>19. MadeInv'
  <2>1. Cardinality(1 .. c + count) = c + count
    BY <1>5, FS_Interval
  <2> QED BY <1>18, <2>1 DEF MadeInv
<1>20. IdentityInv'
  <2> SUFFICES ASSUME NEW w \in Worker PROVE worker'[w].identity \in {0, worker'[w].id}
    BY DEF IdentityInv
  <2>1. CASE w \in c + 1 .. c + count
    <3>1. worker[w].id = Absent /\ worker[w].identity \in WorkerId /\ worker[w].identity \in {0, worker[w].id}
      BY <1>12, <1>14, <2>1 DEF Made, WorkerRecord, IdentityInv
    <3> QED BY <3>1, <1>15, Constants
  <2>2. CASE w \notin c + 1 .. c + count
    BY <1>15, <2>2 DEF IdentityInv
  <2> QED BY <2>1, <2>2
<1>21. \A i \in WorkerId : hive.byId[i] # Absent =>
         /\ hive.byId[i] \in Made /\ hive.byId[i] \in Range(hive.threads)
         /\ worker[hive.byId[i]].id = i /\ i <= hive.last /\ i \notin ids
  <2> SUFFICES ASSUME NEW i \in WorkerId, hive.byId[i] # Absent
               PROVE  /\ hive.byId[i] \in Made /\ hive.byId[i] \in Range(hive.threads)
                      /\ worker[hive.byId[i]].id = i /\ i <= hive.last /\ i \notin ids
    OBVIOUS
  <2>1. hive.byId[i] \in Worker /\ worker[hive.byId[i]].id = i /\ i <= hive.last
    BY <1>6 DEF HiveRecord, TableInv, NumbersAreUnique
  <2>2. hive.byId[i] \in Made /\ hive.byId[i] \in Range(hive.threads)
    BY <2>1, Constants DEF Made, TableInv, NumbersAreUnique, Registered
  <2>3. hive.threads # <<>>
    BY <2>2 DEF Range
  <2>4. b = hive.last + 1
    BY <2>3, <1>2 DEF FirstId
  <2>5. i \notin ids
    BY <2>1, <2>4, <1>10, <1>6, Constants
  <2> QED BY <2>1, <2>2, <2>5
<1>22. Range(hive.threads) \subseteq Made
  <2>1. Range(hive.threads) \subseteq Worker
    BY <1>6 DEF HiveRecord, Range
  <2>2. \A w \in Worker : w # Absent
    BY Constants
  <2> QED BY <1>21, <2>1, <2>2 DEF TableInv, NumbersAreUnique, Registered
<1>23. Range(hive'.threads) = Range(hive.threads) \cup (c + 1 .. c + count) /\ IsInjective(hive'.threads)
  <2>1. Range(hive.threads) \cap Range(new) = {}
    BY <1>9, <1>12, <1>22
  <2>2. IsInjective(hive.threads)
    BY DEF TableInv, NumbersAreUnique
  <2>3. hive.threads \in Seq(Worker)
    BY <1>6 DEF HiveRecord
  <2>4. Range(hive.threads \o new) = Range(hive.threads) \cup Range(new)
        /\ (IsInjective(hive.threads) /\ IsInjective(new) /\ Range(hive.threads) \cap Range(new) = {}
              => IsInjective(hive.threads \o new))
    BY <1>9, <2>3, QueuesJoined
  <2> QED BY <1>9, <1>16, <2>1, <2>2, <2>4
<1>24. TableInv'
  <2>1. \A i \in ids : (c + 1) + i - b # Absent
    BY <1>12, <1>13, Constants
  <2>2. hive'.fns = {i \in WorkerId : hive'.byId[i] # Absent}
    <3>1. hive.fns = {i \in WorkerId : hive.byId[i] # Absent}
      BY DEF TableInv, NumbersAreUnique
    <3> QED BY <3>1, <2>1, <1>10, <1>16
  <2>3. ASSUME NEW i \in WorkerId, hive'.byId[i] # Absent
        PROVE  worker'[hive'.byId[i]].id = i /\ i <= hive'.last
    <3>1. CASE i \in ids
      <4>1. i <= b + count - 1
        BY <3>1, <1>7, <1>10
      <4>2. hive'.byId[i] = (c + 1) + i - b /\ hive'.byId[i] \in c + 1 .. c + count
        BY <3>1, <1>13, <1>16
      <4>3. worker'[hive'.byId[i]].id = b + ((c + 1) + i - b) - (c + 1)
        BY <4>2, <1>12, <1>15
      <4> QED BY <4>1, <4>3, <3>1, <1>13, <1>16
    <3>2. CASE i \notin ids
      <4>1. hive'.byId[i] = hive.byId[i]
        BY <3>2, <1>16
      <4>2. hive.byId[i] \in Made /\ worker[hive.byId[i]].id = i /\ i <= hive.last
        BY <4>1, <2>3, <1>21
      <4>3. hive.byId[i] \in Worker /\ hive.byId[i] \notin c + 1 .. c + count
        BY <4>2, <1>12 DEF Made
      <4>4. hive.threads # <<>>
        BY <4>1, <2>3, <1>21 DEF Range
      <4>5. hive.last <= b + count - 1
        BY <4>4, <1>2, <1>6, Constants DEF FirstId
      <4>6. i <= b + count - 1
        BY <4>2, <4>5, <1>6, <1>7, Constants
      <4> QED BY <4>1, <4>2, <4>3, <4>6, <1>15, <1>16
    <3> QED BY <3>1, <3>2
  <2>4. ASSUME NEW w \in Worker
        PROVE  w \in Range(hive'.threads) <=> \E i \in WorkerId : hive'.byId[i] = w
    <3>1. w # Absent
      BY Constants
    <3>2. CASE w \in c + 1 .. c + count
      <4>1. b + w - (c + 1) \in ids /\ b + w - (c + 1) \in WorkerId /\ (c + 1) + (b + w - (c + 1)) - b = w
        BY <3>2, <1>10, <1>12
      <4>2. hive'.byId[b + w - (c + 1)] = w
        BY <4>1, <1>16
      <4> QED BY <4>1, <4>2, <3>2, <1>23
    <3>3. CASE w \notin c + 1 .. c + count
      <4>1. \A i \in WorkerId : hive'.byId[i] = w <=> hive.byId[i] = w
        <5> TAKE i \in WorkerId
        <5>1. CASE i \in ids
          BY <5>1, <3>1, <3>3, <1>13, <1>16, <1>21
        <5>2. CASE i \notin ids
          BY <5>2, <1>16
        <5> QED BY <5>1, <5>2
      <4>2. w \in Range(hive.threads) <=> \E i \in WorkerId : hive.byId[i] = w
        BY DEF TableInv, NumbersAreUnique, Registered
      <4> QED BY <4>1, <4>2, <3>3, <1>23
    <3> QED BY <3>2, <3>3
  <2> QED BY <1>23, <2>2, <2>3, <2>4 DEF TableInv, NumbersAreUnique, Registered
<1>25. RosterSteady
  <2>1. \A w \in Made : w \in Worker /\ w \notin c + 1 .. c + count /\ w \in Made'
    BY <1>3, <1>5, <1>12, <1>18
  <2> QED BY <2>1, <1>15, <1>23 DEF RosterSteady
<1>26. LogGrows /\ DOMAIN log' \ DOMAIN log = {}
  BY <1>11, QuietLog
<1> QED BY <1>11, <1>17, <1>19, <1>20, <1>24, <1>25, <1>26, StepKeepsTheInvariant

\* The message of the page to worker w, once it is posted.
LEMMA PageMessageIsOK ==
  ASSUME NEW w \in Made', NEW m \in Message, m.n = Posted, m.id = worker'[w].id,
         Posted \in DOMAIN log', log'[Posted] = Entry(Page, 0, Absent, 0)
  PROVE  ToWorkerOK(w, m)'
<1>1. log'[m.n].by = Page /\ log'[m.n].re = 0
  BY DEF Entry
<1> QED BY <1>1 DEF ToWorkerOK, Named, Page

LEMMA PagePosts ==
  ASSUME HiveInv, Post(Page, 0, Absent, 0)
  PROVE  /\ log' \in Seq(LogEntry) /\ Len(log') <= MaxPosts /\ LogGrows
         /\ DOMAIN log' = DOMAIN log \cup {Posted} /\ Posted \in DOMAIN log'
         /\ log'[Posted] = Entry(Page, 0, Absent, 0)
         /\ \A n \in DOMAIN log' \ DOMAIN log : log'[n].re = 0 /\ log'[n].by = Page
<1>1. HiveType /\ MayPost /\ log' = Append(log, Entry(Page, 0, Absent, 0)) /\ log \in Seq(LogEntry)
  BY DEF HiveInv, HiveType, Post
<1>2. Entry(Page, 0, Absent, 0) \in LogEntry
  <2>1. 0 \in WorkerId /\ Page \in WorkerId /\ 0 \in 0 .. MaxPosts
    BY HiveBounds DEF WorkerId, Page
  <2> QED BY <1>1, <2>1, EntryType
<1>3. /\ log' \in Seq(LogEntry) /\ Len(log') <= MaxPosts /\ LogGrows
      /\ DOMAIN log' = DOMAIN log \cup {Posted} /\ log'[Posted] = Entry(Page, 0, Absent, 0)
  BY <1>1, <1>2, PostMakesAnEntry
<1>4. log'[Posted].re = 0 /\ log'[Posted].by = Page
  BY <1>3 DEF Entry
<1> QED BY <1>3, <1>4

LEMMA SendKeeps ==
  ASSUME HiveInv, NEW id \in WorkerId, send(id)
  PROVE  HiveInv'
<1> USE DEF HiveInv
<1>1. PICK w \in Worker : w = hive.byId[id] /\ worker[w].id = id /\ w \in Made
  <2>1. hive.byId[id] # Absent
    BY DEF send
  <2>2. hive.byId[id] \in Worker /\ worker[hive.byId[id]].id = id
    BY <2>1 DEF HiveType, HiveRecord, TableInv, NumbersAreUnique
  <2> QED BY <2>2, Constants DEF Made
<1>2. /\ toWorker' = [toWorker EXCEPT ![w] = Append(@, Stamp(PageMessage, w))]
      /\ Post(Page, 0, Absent, 0) /\ MayPost
      /\ UNCHANGED <<hive, worker, toPage, hiveCalls>>
  BY <1>1 DEF send, Post
<1>3. PICK m : m = Stamp(PageMessage, w)
  OBVIOUS
<1>4. m \in Message /\ m.n = Posted /\ m.id = worker[w].id
  <2>1. PageMessage \in Message /\ PageMessage.n = Posted
    <3>1. Len(log) \in Nat /\ Len(log) < MaxPosts
      BY <1>2 DEF HiveType, MayPost
    <3>2. Posted \in 1 .. MaxPosts
      BY <3>1, HiveBounds DEF Posted
    <3> QED BY <3>2 DEF PageMessage, Message
  <2> QED BY <1>3, <2>1, StampNames
<1>5. /\ toWorker' \in [Worker -> Seq(Message)]
      /\ Range(toWorker'[w]) = Range(toWorker[w]) \cup {m}
      /\ \A v \in Worker : v # w => toWorker'[v] = toWorker[v]
  <2>1. toWorker \in [Worker -> Seq(Message)]
    BY DEF HiveType
  <2>2. Append(toWorker[w], m) \in Seq(Message)
        /\ Range(Append(toWorker[w], m)) = Range(toWorker[w]) \cup {m}
    BY <2>1, <1>4, QueueGrows
  <2> QED BY <1>2, <1>3, <2>1, <2>2
<1>6. MadeInv' /\ TableInv' /\ RosterSteady /\ Made' = Made
  BY <1>2, RosterStays DEF HiveType
<1>7. HiveType'
  BY <1>2, <1>5, PagePosts DEF HiveType
<1>8. IdentityInv'
  BY <1>2 DEF IdentityInv
<1>9. ToWorkerOK(w, m)'
  <2>1. w \in Made' /\ m.id = worker'[w].id
    BY <1>1, <1>2, <1>4, <1>6
  <2> QED BY <2>1, <1>2, <1>4, PagePosts, PageMessageIsOK
<1>10. \A v \in Worker : \A x \in Range(toWorker'[v]) : x \in Range(toWorker[v]) \/ ToWorkerOK(v, x)'
  BY <1>5, <1>9
<1> QED BY <1>2, <1>6, <1>7, <1>8, <1>10, PagePosts, StepKeepsTheInvariant

LEMMA SendAllKeeps ==
  ASSUME HiveInv, sendAll
  PROVE  HiveInv'
<1> USE DEF HiveInv
<1> DEFINE For(w) == IF \E k \in DOMAIN hive.threads : hive.threads[k] = w
                     THEN <<Stamped[CHOOSE k \in DOMAIN hive.threads : hive.threads[k] = w]>> ELSE <<>>
<1>1. /\ toWorker' = [w \in Worker |-> toWorker[w] \o For(w)]
      /\ Post(Page, 0, Absent, 0) /\ MayPost
      /\ UNCHANGED <<hive, worker, toPage, hiveCalls>>
  BY DEF sendAll, Post
<1>2. ASSUME NEW w \in Worker
      PROVE  /\ For(w) \in Seq(Message)
             /\ \A m \in Range(For(w)) : m \in Message /\ m.n = Posted /\ m.id = worker[w].id /\ w \in Made
  <2>1. CASE \E k \in DOMAIN hive.threads : hive.threads[k] = w
    <3>1. PICK k \in DOMAIN hive.threads :
            k = CHOOSE j \in DOMAIN hive.threads : hive.threads[j] = w
      BY <2>1
    <3>2. hive.threads[k] = w
      BY <2>1, <3>1
    <3>3. Stamped[k] \in Message /\ Stamped[k].n = Posted /\ Stamped[k].id = worker[w].id
      BY <1>1, <3>2, StampedForEach
    <3>4. For(w) = <<Stamped[k]>>
      BY <2>1, <3>1
    <3>5. w \in Made
      <4>1. \E i \in WorkerId : hive.byId[i] = w
        BY <3>2 DEF TableInv, NumbersAreUnique, Registered, Range
      <4> QED BY <4>1, Constants DEF TableInv, NumbersAreUnique, Made
    <3>6. PICK m : m = Stamped[k]
      OBVIOUS
    <3>7. <<m>> \in Seq(Message) /\ Range(<<m>>) = {m}
      BY <3>3, <3>6 DEF Range
    <3> HIDE DEF For
    <3> QED BY <3>3, <3>4, <3>5, <3>6, <3>7
  <2>2. CASE ~\E k \in DOMAIN hive.threads : hive.threads[k] = w
    <3>1. For(w) = <<>>
      BY <2>2
    <3>2. Range(<<>>) = {}
      BY DEF Range
    <3> HIDE DEF For
    <3>3. <<>> \in Seq(Message)
      OBVIOUS
    <3> QED BY <3>1, <3>2, <3>3
  <2> QED BY <2>1, <2>2
<1> HIDE DEF For
<1>3. ASSUME NEW w \in Worker
      PROVE  toWorker'[w] \in Seq(Message) /\ Range(toWorker'[w]) = Range(toWorker[w]) \cup Range(For(w))
  <2>1. toWorker[w] \in Seq(Message) /\ toWorker'[w] = toWorker[w] \o For(w)
    BY <1>1 DEF HiveType
  <2>2. toWorker[w] \o For(w) \in Seq(Message)
        /\ Range(toWorker[w] \o For(w)) = Range(toWorker[w]) \cup Range(For(w))
    BY <1>2, <2>1, QueuesJoined
  <2> QED BY <2>1, <2>2
<1>4. toWorker' \in [Worker -> Seq(Message)]
  <2>1. toWorker' = [w \in Worker |-> toWorker'[w]]
    BY <1>1
  <2> QED BY <1>3, <2>1
<1>5. MadeInv' /\ TableInv' /\ RosterSteady /\ Made' = Made
  BY <1>1, RosterStays DEF HiveType
<1>6. HiveType'
  BY <1>1, <1>4, PagePosts DEF HiveType
<1>7. IdentityInv'
  BY <1>1 DEF IdentityInv
<1>8. ASSUME NEW w \in Worker, NEW m \in Range(toWorker'[w]), m \notin Range(toWorker[w])
      PROVE  ToWorkerOK(w, m)'
  <2>1. m \in Message /\ m.n = Posted /\ m.id = worker'[w].id /\ w \in Made'
    BY <1>1, <1>2, <1>3, <1>5, <1>8
  <2> QED BY <2>1, <1>1, PagePosts, PageMessageIsOK
<1> QED BY <1>1, <1>5, <1>6, <1>7, <1>8, PagePosts, StepKeepsTheInvariant

\* Who has got a message is noted; nothing else in the log changes.
Noted(n, S) == [log EXCEPT ![n].got = S]

LEMMA GotIsNoted ==
  ASSUME HiveType, NEW n \in DOMAIN log, NEW S \in SUBSET WorkerId
  PROVE  /\ Noted(n, S) \in Seq(LogEntry) /\ Len(Noted(n, S)) = Len(log) /\ DOMAIN Noted(n, S) = DOMAIN log
         /\ \A k \in DOMAIN log : /\ Noted(n, S)[k].by = log[k].by
                                  /\ Noted(n, S)[k].as = log[k].as /\ Noted(n, S)[k].re = log[k].re
<1>0. PICK l : l = [log EXCEPT ![n].got = S]
  OBVIOUS
<1>1. log \in Seq(LogEntry) /\ \A k \in DOMAIN log : log[k] \in LogEntry
  BY DEF HiveType
<1>2. [log[n] EXCEPT !.got = S] \in LogEntry
      /\ [log[n] EXCEPT !.got = S].by = log[n].by
      /\ [log[n] EXCEPT !.got = S].as = log[n].as /\ [log[n] EXCEPT !.got = S].re = log[n].re
  BY <1>1 DEF LogEntry
<1>3. PICK e : e = [log[n] EXCEPT !.got = S]
  OBVIOUS
<1>4. l = [log EXCEPT ![n] = e]
  BY <1>3, <1>0
<1>5. l \in Seq(LogEntry) /\ Len(l) = Len(log) /\ DOMAIN l = DOMAIN log
  BY <1>1, <1>2, <1>3, <1>4
<1>6. \A k \in DOMAIN log : l[k] = IF k = n THEN e ELSE log[k]
  BY <1>1, <1>4
<1> QED BY <1>0, <1>2, <1>3, <1>5, <1>6 DEF Noted

LEMMA PageReceivesKeeps ==
  ASSUME HiveInv, NEW w \in Worker, PageReceives(w)
  PROVE  HiveInv'
<1> USE DEF HiveInv
<1> DEFINE m == Head(toPage[w])
           to == IF IsSet(m.to) THEN Addressee(m.to) ELSE Absent
<1>1. /\ toPage[w] # <<>> /\ toPage' = [toPage EXCEPT ![w] = Tail(@)]
      /\ UNCHANGED <<hive, worker, hiveCalls>>
  BY DEF PageReceives
<1>2. \/ /\ to # Absent
         /\ toWorker' = [toWorker EXCEPT ![to] = Append(@, Stamp([m EXCEPT !.id = Absent], to))]
         /\ log' = log
      \/ /\ log' = [log EXCEPT ![m.n].got = IF IsSet(m.to) THEN @ ELSE @ \cup {Page}]
         /\ toWorker' = toWorker
  BY DEF PageReceives
<1>3. toPage \in [Worker -> Seq(Message)] /\ toWorker \in [Worker -> Seq(Message)]
  BY DEF HiveType
<1>4. m \in Message /\ m \in Range(toPage[w]) /\ Tail(toPage[w]) \in Seq(Message)
      /\ Range(Tail(toPage[w])) \subseteq Range(toPage[w])
  BY <1>1, <1>3, QueueMoves
<1>5. ToPageOK(w, m)
  BY <1>4 DEF MailInv
<1> HIDE DEF m
<1>6. /\ toPage' \in [Worker -> Seq(Message)]
      /\ \A v \in Worker : Range(toPage'[v]) \subseteq Range(toPage[v])
  BY <1>1, <1>3, <1>4
<1>7. MadeInv' /\ TableInv' /\ RosterSteady /\ Made' = Made
  BY <1>1, RosterStays DEF HiveType
<1>8. IdentityInv'
  BY <1>1 DEF IdentityInv
<1>9. CASE /\ to # Absent
           /\ toWorker' = [toWorker EXCEPT ![to] = Append(@, Stamp([m EXCEPT !.id = Absent], to))]
           /\ log' = log
  <2>1. PICK v : v = to
    OBVIOUS
  <2>2. IsSet(m.to) /\ v = hive.byId[m.to] /\ v # Absent
    BY <1>9, <2>1 DEF Addressee
  <2>3. m.to \in WorkerId
    BY <1>4, <2>2 DEF Message, IsSet
  <2>4. v \in Worker /\ worker[v].id = m.to /\ v \in Made
    <3>1. v \in Worker /\ worker[v].id = m.to
      BY <2>2, <2>3 DEF HiveType, HiveRecord, TableInv, NumbersAreUnique
    <3> QED BY <2>3, <3>1, Constants DEF Made
  <2>5. PICK x : x = Stamp([m EXCEPT !.id = Absent], v)
    OBVIOUS
  <2>6. /\ x \in Message /\ x.n = m.n /\ x.id = worker[v].id
        /\ IsSet(m.from) => x.from = m.from
    <3>1. PICK y : y = [m EXCEPT !.id = Absent]
      OBVIOUS
    <3>2. y \in Message /\ y.n = m.n /\ y.from = m.from
      BY <1>4, <3>1 DEF Message
    <3> QED BY <2>4, <2>5, <3>1, <3>2, StampNames
  <2>7. /\ toWorker' \in [Worker -> Seq(Message)]
        /\ Range(toWorker'[v]) = Range(toWorker[v]) \cup {x}
        /\ \A u \in Worker : u # v => toWorker'[u] = toWorker[u]
    <3>1. toWorker' = [toWorker EXCEPT ![v] = Append(@, x)]
      BY <1>9, <2>1, <2>5
    <3>2. Append(toWorker[v], x) \in Seq(Message)
          /\ Range(Append(toWorker[v], x)) = Range(toWorker[v]) \cup {x}
      BY <1>3, <2>4, <2>6, QueueGrows
    <3> QED BY <1>3, <2>4, <3>1, <3>2
  <2>8. ToWorkerOK(v, x)
    <3>1. m.n \in DOMAIN log /\ log[m.n].by # Page /\ m.from = log[m.n].as
      BY <1>5, <2>2 DEF ToPageOK
    <3>2. Named(m.n) => x.from = log[m.n].as
      <4>1. log[m.n].as \in WorkerId
        <5>1. log \in Seq(LogEntry)
          BY DEF HiveType
        <5>2. log[m.n] \in LogEntry
          BY <3>1, <5>1
        <5> QED BY <5>2 DEF LogEntry
      <4>2. log[m.n].as # 0 => IsSet(m.from)
        BY <3>1, <4>1, Constants DEF IsSet
      <4> QED BY <2>6, <3>1, <4>2 DEF Named
    <3>3. PICK r : r = log[m.n].re
      OBVIOUS
    <3>4. ASSUME r # 0, Named(r) PROVE v = log[r].by \/ ~Registered(log[r].by)
      <4>1. r \in DOMAIN log /\ m.to = log[r].as
        BY <1>5, <3>1, <3>3, <3>4 DEF ToPageOK, LogInv
      <4>2. log[r].by \in Made /\ log[r].as = worker[log[r].by].id
        BY <3>4, <4>1 DEF LogInv, Named
      <4>3. log[r].by \in Worker
        BY <4>2 DEF Made
      <4>4. ASSUME Registered(log[r].by) PROVE v = log[r].by
        <5>1. PICK i \in WorkerId : hive.byId[i] = log[r].by
          BY <4>3, <4>4 DEF TableInv, NumbersAreUnique
        <5>2. worker[log[r].by].id = i
          BY <4>3, <5>1, Constants DEF TableInv, NumbersAreUnique
        <5> QED BY <2>2, <4>1, <4>2, <5>1, <5>2
      <4> QED BY <4>4
    <3> QED BY <2>4, <2>6, <3>1, <3>2, <3>3, <3>4 DEF ToWorkerOK
  <2>9. LogGrows /\ DOMAIN log' \ DOMAIN log = {}
    BY <1>9, QuietLog
  <2>10. ToWorkerOK(v, x)'
    BY <2>4, <2>8, <2>9, <1>7, OldMailStays
  <2>11. HiveType'
    BY <1>1, <1>6, <1>9, <2>7 DEF HiveType
  <2> QED BY <1>6, <1>7, <1>8, <2>7, <2>9, <2>10, <2>11, StepKeepsTheInvariant
<1>10. CASE /\ log' = [log EXCEPT ![m.n].got = IF IsSet(m.to) THEN @ ELSE @ \cup {Page}]
            /\ toWorker' = toWorker
  <2>1. m.n \in DOMAIN log /\ log[m.n] \in LogEntry
    BY <1>5 DEF ToPageOK, HiveType
  <2>2. PICK S : S = IF IsSet(m.to) THEN log[m.n].got ELSE log[m.n].got \cup {Page}
    OBVIOUS
  <2>3. S \in SUBSET WorkerId
    BY <2>1, <2>2, Constants DEF LogEntry
  <2>4. log' = [log EXCEPT ![m.n].got = S]
    BY <1>10, <2>2
  <2>5. /\ log' \in Seq(LogEntry) /\ Len(log') = Len(log) /\ DOMAIN log' = DOMAIN log /\ LogGrows
    <3>1. log' = Noted(m.n, S)
      BY <2>4 DEF Noted
    <3> QED BY <2>1, <2>3, <3>1, GotIsNoted DEF LogGrows
  <2>6. HiveType'
    BY <1>1, <1>6, <1>10, <2>5 DEF HiveType
  <2> QED BY <1>6, <1>7, <1>8, <1>10, <2>5, <2>6, StepKeepsTheInvariant
<1> QED BY <1>2, <1>9, <1>10

\* A worker posts: what the message names is true, and an answer goes to the
\* number of the one that asked.
LEMMA WorkerPostsTruly ==
  ASSUME HiveInv, hive' = hive, worker' \in [Worker -> WorkerRecord],
         \A v \in Worker : worker'[v].id = worker[v].id /\ worker'[v].identity \in {0, worker[v].id},
         NEW w \in Made, NEW to \in WorkerId \cup {Absent}, NEW re \in {0} \cup DOMAIN log,
         re # 0 /\ Named(re) => to = log[re].as,
         NEW l \in Seq(LogEntry), Len(l) = Len(log),
         \A n \in DOMAIN log : l[n].by = log[n].by /\ l[n].as = log[n].as /\ l[n].re = log[n].re,
         MayPost, log' = Append(l, Entry(w, worker'[w].identity, to, re)),
         NEW x \in Message, x.n = Posted, x.to = to, IsSet(to) => x.from = worker'[w].identity,
         toPage' = [toPage EXCEPT ![w] = Append(@, x)],
         \A v \in Worker : Range(toWorker'[v]) \subseteq Range(toWorker[v]),
         toWorker' \in [Worker -> Seq(Message)], hiveCalls' = hiveCalls
  PROVE  HiveInv'
<1> USE DEF HiveInv
<1>1. PICK e : e = Entry(w, worker'[w].identity, to, re)
  OBVIOUS
<1>2. w \in Worker /\ worker'[w].identity \in WorkerId
  BY DEF Made, WorkerRecord
<1>3. e \in LogEntry /\ e.by = w /\ e.as = worker'[w].identity /\ e.re = re
  <2>1. re \in 0 .. MaxPosts
    <3>1. Len(log) \in Nat /\ Len(log) <= MaxPosts /\ DOMAIN log = 1 .. Len(log)
      BY DEF HiveType
    <3> QED BY <3>1, HiveBounds
  <2>2. w \in WorkerId
    BY <1>2, Constants
  <2>3. e \in LogEntry
    <3>1. HiveType
      OBVIOUS
    <3> QED BY <1>1, <1>2, <2>1, <2>2, <3>1, EntryType
  <2> QED BY <1>1, <2>3 DEF Entry
<1>4. /\ log' \in Seq(LogEntry) /\ Len(log') <= MaxPosts /\ LogGrows
      /\ DOMAIN log' = DOMAIN log \cup {Posted} /\ Posted \notin DOMAIN log
      /\ Posted \in 1 .. MaxPosts /\ log'[Posted] = e
  BY <1>1, <1>3, PostMakesAnEntry
<1>5. MadeInv' /\ TableInv' /\ RosterSteady /\ Made' = Made
  BY RosterStays
<1>6. IdentityInv'
  BY DEF IdentityInv
<1>7. /\ toPage' \in [Worker -> Seq(Message)]
      /\ Range(toPage'[w]) = Range(toPage[w]) \cup {x}
      /\ \A v \in Worker : v # w => toPage'[v] = toPage[v]
  <2>1. toPage \in [Worker -> Seq(Message)]
    BY DEF HiveType
  <2>2. Append(toPage[w], x) \in Seq(Message) /\ Range(Append(toPage[w], x)) = Range(toPage[w]) \cup {x}
    BY <1>2, <2>1, QueueGrows
  <2> QED BY <1>2, <2>1, <2>2
<1>8. HiveType'
  BY <1>4, <1>7 DEF HiveType
<1>9. ToPageOK(w, x)'
  <2>1. x.n \in DOMAIN log' /\ log'[x.n] = e
    BY <1>4
  <2>2. w # Page
    BY <1>2, Constants
  <2>3. ASSUME re # 0, Named(re)' PROVE to = log'[re].as
    <3>1. re \in DOMAIN log
      BY <2>3
    <3>2. Named(re) /\ log'[re].as = log[re].as
      BY <2>3, <3>1, <1>4 DEF Named, LogGrows
    <3> QED BY <2>3, <3>2
  <2> QED BY <1>3, <1>5, <2>1, <2>2, <2>3 DEF ToPageOK, Page
<1>10. \A n \in DOMAIN log' \ DOMAIN log :
          /\ log'[n].re \in {0} \cup DOMAIN log'
          /\ log'[n].by # Page => log'[n].by \in Made' /\ log'[n].as \in {0, worker'[log'[n].by].id}
  <2> TAKE n \in DOMAIN log' \ DOMAIN log
  <2>1. n = Posted /\ log'[n] = e
    BY <1>4
  <2>2. re \in {0} \cup DOMAIN log'
    BY <1>4
  <2>3. worker'[w].identity \in {0, worker'[w].id}
    BY <1>2
  <2> HIDE DEF HiveInv
  <2> QED BY <1>3, <1>5, <2>1, <2>2, <2>3
<1> QED BY <1>4, <1>5, <1>6, <1>7, <1>8, <1>9, <1>10, StepKeepsTheInvariant

\* The message of worker w that Sent puts into its queue.
LEMMA SentMessage ==
  ASSUME HiveType, NEW w \in Worker, NEW a, Sent(w, a), Posted \in 1 .. MaxPosts,
         a \in [n : 0 .. MaxPosts, to : WorkerId \cup {Absent}, from : WorkerId \cup {Absent}, id : WorkerId \cup {Absent}],
         worker'[w].identity \in WorkerId
  PROVE  \E x \in Message : /\ x.n = Posted /\ x.to = a.to
                            /\ IsSet(a.to) => x.from = worker'[w].identity
                            /\ toPage' = [toPage EXCEPT ![w] = Append(@, x)]
<1> DEFINE x == [a EXCEPT !.n = Posted, !.id = worker'[w].identity,
                          !.from = IF IsSet(a.to) THEN worker'[w].identity ELSE @]
<1>1. toPage' = [toPage EXCEPT ![w] = Append(@, x)]
  BY DEF Sent
<1>2. x \in Message /\ x.n = Posted /\ x.to = a.to /\ (IsSet(a.to) => x.from = worker'[w].identity)
  <2>1. CASE IsSet(a.to)
    BY <2>1 DEF Message
  <2>2. CASE ~IsSet(a.to)
    BY <2>2 DEF Message
  <2> QED BY <2>1, <2>2
<1> HIDE DEF x
<1> QED BY <1>1, <1>2

LEMMA MayPostGivesANumber ==
  ASSUME HiveType, MayPost
  PROVE  Posted \in 1 .. MaxPosts
<1>1. Len(log) \in Nat /\ Len(log) < MaxPosts
  BY DEF HiveType, MayPost
<1> QED BY <1>1, HiveBounds DEF Posted

LEMMA WorkerPostsKeeps ==
  ASSUME HiveInv, NEW w \in Worker, NEW to \in Numbers, WorkerPosts(w, to)
  PROVE  HiveInv'
<1> USE DEF HiveInv
<1>1. /\ w \in Made /\ MayPost /\ log' = Append(log, Entry(w, worker[w].identity, to, 0))
      /\ worker' = worker /\ Sent(w, New(to))
      /\ UNCHANGED <<hive, toWorker, hiveCalls>>
  BY DEF WorkerPosts, Post
<1>2. Posted \in 1 .. MaxPosts /\ HiveType
  BY <1>1, MayPostGivesANumber
<1>3. /\ worker' \in [Worker -> WorkerRecord] /\ worker'[w].identity \in WorkerId
      /\ \A v \in Worker : worker'[v].id = worker[v].id /\ worker'[v].identity \in {0, worker[v].id}
  BY <1>1 DEF HiveType, WorkerRecord, IdentityInv
<1>4. PICK a : a = New(to)
  OBVIOUS
<1>0. to \in WorkerId
  BY CountsAreCounts DEF WorkerId
<1>5. a.to = to /\ a \in [n : 0 .. MaxPosts, to : WorkerId \cup {Absent}, from : WorkerId \cup {Absent}, id : WorkerId \cup {Absent}]
  BY <1>0, <1>4, HiveBounds DEF New
<1>6. PICK x \in Message : /\ x.n = Posted /\ x.to = a.to
                           /\ IsSet(a.to) => x.from = worker'[w].identity
                           /\ toPage' = [toPage EXCEPT ![w] = Append(@, x)]
  BY <1>1, <1>2, <1>3, <1>4, <1>5, SentMessage
<1>7. log \in Seq(LogEntry) /\ log' = Append(log, Entry(w, worker'[w].identity, to, 0)) /\ to \in WorkerId \cup {Absent}
  BY <1>0, <1>1 DEF HiveType
<1>8. toWorker' \in [Worker -> Seq(Message)] /\ \A v \in Worker : Range(toWorker'[v]) \subseteq Range(toWorker[v])
  BY <1>1 DEF HiveType
<1>9. 0 \in {0} \cup DOMAIN log
  OBVIOUS
<1> HIDE DEF HiveInv
<1> QED BY <1>1, <1>3, <1>5, <1>6, <1>7, <1>8, <1>9, WorkerPostsTruly

\* A worker answers with message a, an answer to post re.
LEMMA AnswerKeeps ==
  ASSUME HiveInv, hive' = hive, hiveCalls' = hiveCalls, MayPost, NEW w \in Made,
         worker' \in [Worker -> WorkerRecord],
         \A v \in Worker : worker'[v].id = worker[v].id /\ worker'[v].identity \in {0, worker[v].id},
         NEW a \in [n : 0 .. MaxPosts, to : WorkerId \cup {Absent}, from : WorkerId \cup {Absent}, id : WorkerId \cup {Absent}],
         NEW re \in {0} \cup DOMAIN log,
         re # 0 /\ Named(re) => a.to = log[re].as,
         NEW l \in Seq(LogEntry), Len(l) = Len(log),
         \A n \in DOMAIN log : l[n].by = log[n].by /\ l[n].as = log[n].as /\ l[n].re = log[n].re,
         log' = Append(l, Entry(w, worker'[w].identity, a.to, re)), Sent(w, a),
         \A v \in Worker : Range(toWorker'[v]) \subseteq Range(toWorker[v]),
         toWorker' \in [Worker -> Seq(Message)]
  PROVE  HiveInv'
<1>1. HiveType /\ w \in Worker
  BY DEF HiveInv, Made
<1>2. Posted \in 1 .. MaxPosts
  BY <1>1, MayPostGivesANumber
<1>3. worker'[w].identity \in WorkerId
  BY <1>1 DEF WorkerRecord
<1>4. PICK x \in Message : /\ x.n = Posted /\ x.to = a.to
                           /\ IsSet(a.to) => x.from = worker'[w].identity
                           /\ toPage' = [toPage EXCEPT ![w] = Append(@, x)]
  BY <1>1, <1>2, <1>3, SentMessage, SMTT(30)
<1>5. a.to \in WorkerId \cup {Absent} /\ (IsSet(x.to) => x.from = worker'[w].identity)
  BY <1>4
<1>6. PICK to : to = a.to
  OBVIOUS
<1>7. /\ to \in WorkerId \cup {Absent} /\ x.to = to
      /\ re # 0 /\ Named(re) => to = log[re].as
      /\ log' = Append(l, Entry(w, worker'[w].identity, to, re))
      /\ IsSet(to) => x.from = worker'[w].identity
  BY <1>4, <1>5, <1>6
<1> QED BY <1>4, <1>7, WorkerPostsTruly, ZenonT(60)

LEMMA WorkerReceivesKeeps ==
  ASSUME HiveInv, NEW w \in Worker, WorkerReceives(w)
  PROVE  HiveInv'
<1> USE DEF HiveInv
<1>1. PICK m : m = Head(toWorker[w])
  OBVIOUS
<1>2. PICK l : l = [log EXCEPT ![m.n].got = @ \cup {w}]
  OBVIOUS
<1>3. /\ toWorker[w] # <<>> /\ toWorker' = [toWorker EXCEPT ![w] = Tail(@)]
      /\ hive' = hive /\ hiveCalls' = hiveCalls
      /\ worker' = [worker EXCEPT ![w] = Learned(w, m)]
      /\ \/ log' = l /\ toPage' = toPage
         \/ /\ MayPost /\ log' = Append(l, Entry(w, worker'[w].identity, New(Absent).to, 0))
            /\ Sent(w, New(Absent))
         \/ /\ MayPost /\ log' = Append(l, Entry(w, worker'[w].identity, New(m.from).to, m.n))
            /\ Sent(w, New(m.from))
         \/ /\ MayPost /\ log' = Append(l, Entry(w, worker'[w].identity, m.to, 0))
            /\ Sent(w, m)
  BY <1>1, <1>2 DEF WorkerReceives
<1>4. /\ toWorker \in [Worker -> Seq(Message)] /\ worker \in [Worker -> WorkerRecord]
      /\ log \in Seq(LogEntry)
  BY DEF HiveType
<1>5. m \in Message /\ m \in Range(toWorker[w]) /\ Tail(toWorker[w]) \in Seq(Message)
      /\ Range(Tail(toWorker[w])) \subseteq Range(toWorker[w])
  BY <1>1, <1>3, <1>4, QueueMoves
<1>6. ToWorkerOK(w, m)
  BY <1>5 DEF MailInv
<1>7. /\ toWorker' \in [Worker -> Seq(Message)]
      /\ \A v \in Worker : Range(toWorker'[v]) \subseteq Range(toWorker[v])
  BY <1>3, <1>4, <1>5
<1>8. w \in Made /\ m.n \in DOMAIN log /\ m.id = worker[w].id /\ worker[w].id \in WorkerId
  BY <1>4, <1>6 DEF ToWorkerOK, Made, WorkerRecord
<1>9. /\ worker' \in [Worker -> WorkerRecord]
      /\ \A v \in Worker : worker'[v].id = worker[v].id /\ worker'[v].identity \in {0, worker[v].id}
  <2>1. PICK r : r = Learned(w, m)
    OBVIOUS
  <2>2. r \in WorkerRecord /\ r.id = worker[w].id /\ r.identity \in {0, worker[w].id}
    BY <1>4, <1>8, <2>1 DEF Learned, WorkerRecord, IdentityInv
  <2>3. worker' = [worker EXCEPT ![w] = r]
    BY <1>3, <2>1
  <2> QED BY <1>4, <2>2, <2>3 DEF IdentityInv
<1>10. /\ l \in Seq(LogEntry) /\ Len(l) = Len(log) /\ DOMAIN l = DOMAIN log
       /\ \A n \in DOMAIN log : l[n].by = log[n].by /\ l[n].as = log[n].as /\ l[n].re = log[n].re
  <2>1. log[m.n] \in LogEntry
    BY <1>4, <1>8
  <2>2. PICK S : S = log[m.n].got \cup {w}
    OBVIOUS
  <2>3. S \in SUBSET WorkerId
    BY <2>1, <2>2, Constants DEF LogEntry
  <2>4. l = Noted(m.n, S)
    BY <1>2, <2>2 DEF Noted
  <2> QED BY <1>8, <2>3, <2>4, GotIsNoted
<1> DEFINE Outgoing == [n : 0 .. MaxPosts, to : WorkerId \cup {Absent}, from : WorkerId \cup {Absent},
                        id : WorkerId \cup {Absent}]
<1>11. \A to \in WorkerId \cup {Absent} : New(to) \in Outgoing /\ New(to).to = to
  BY HiveBounds DEF New
<1>12. m \in Outgoing /\ m.from \in WorkerId \cup {Absent}
  BY <1>5 DEF Message
<1>13. CASE log' = l /\ toPage' = toPage
  <2>1. HiveType'
    BY <1>3, <1>7, <1>9, <1>10, <1>13 DEF HiveType
  <2>2. IdentityInv'
    BY <1>9 DEF IdentityInv
  <2>3. MadeInv' /\ TableInv' /\ RosterSteady
    BY <1>3, <1>9, RosterStays
  <2>4. LogGrows /\ DOMAIN log' \ DOMAIN log = {}
    BY <1>10, <1>13 DEF LogGrows
  <2> QED BY <1>7, <1>13, <2>1, <2>2, <2>3, <2>4, StepKeepsTheInvariant
<1> HIDE DEF HiveInv
<1>14. CASE /\ MayPost /\ log' = Append(l, Entry(w, worker'[w].identity, New(Absent).to, 0))
            /\ Sent(w, New(Absent))
  <2>1. PICK a : a = New(Absent)
    OBVIOUS
  <2>2. a \in Outgoing
    BY <1>11, <2>1
  <2>3. MayPost /\ Sent(w, a) /\ log' = Append(l, Entry(w, worker'[w].identity, a.to, 0)) /\ 0 \in {0} \cup DOMAIN log
    BY <1>14, <2>1
  <2> QED BY <1>3, <1>7, <1>8, <1>9, <1>10, <2>2, <2>3, AnswerKeeps, ZenonT(60)
<1>15. CASE /\ MayPost /\ log' = Append(l, Entry(w, worker'[w].identity, New(m.from).to, m.n))
            /\ Sent(w, New(m.from))
  <2>1. PICK a : a = New(m.from)
    OBVIOUS
  <2>2. a \in Outgoing /\ a.to = m.from
    BY <1>11, <1>12, <2>1
  <2>3. PICK re : re = m.n
    OBVIOUS
  <2>4. MayPost /\ Sent(w, a) /\ log' = Append(l, Entry(w, worker'[w].identity, a.to, re)) /\ re \in {0} \cup DOMAIN log
    BY <1>8, <1>15, <2>1, <2>3
  <2>5. re # 0 /\ Named(re) => a.to = log[re].as
    BY <1>6, <2>2, <2>3 DEF ToWorkerOK
  <2> QED BY <1>3, <1>7, <1>8, <1>9, <1>10, <2>2, <2>4, <2>5, AnswerKeeps, ZenonT(60)
<1>16. CASE /\ MayPost /\ log' = Append(l, Entry(w, worker'[w].identity, m.to, 0)) /\ Sent(w, m)
  <2>1. 0 \in {0} \cup DOMAIN log
    OBVIOUS
  <2> QED BY <1>3, <1>7, <1>8, <1>9, <1>10, <1>12, <1>16, <2>1, AnswerKeeps, ZenonT(60)
<1> QED BY <1>3, <1>13, <1>14, <1>15, <1>16

LEMMA HiveStarts ==
  ASSUME HiveInit
  PROVE  HiveInv
<1> USE DEF HiveInit
<1>1. HiveType
  <2>1. hive \in HiveRecord
    BY Constants DEF HiveRecord
  <2>2. worker \in [Worker -> WorkerRecord]
    BY Constants DEF WorkerRecord
  <2>3. log \in Seq(LogEntry) /\ Len(log) <= MaxPosts
    BY HiveBounds
  <2> QED BY <2>1, <2>2, <2>3, HiveBounds DEF HiveType
<1>2. Made = {}
  BY DEF Made
<1>3. MadeInv
  <2>1. Cardinality({}) = 0 /\ 1 .. 0 = {}
    BY FS_EmptySet
  <2> QED BY <1>2, <2>1 DEF MadeInv
<1>4. TableInv
  BY Constants DEF TableInv, NumbersAreUnique, Registered, IsInjective, Range
<1>5. IdentityInv
  BY DEF IdentityInv
<1>6. DOMAIN log = {}
  OBVIOUS
<1>7. LogInv
  BY <1>6 DEF LogInv
<1>8. MailInv
  <2>1. \A w \in Worker : Range(toWorker[w]) = {} /\ Range(toPage[w]) = {}
    BY DEF Range
  <2> QED BY <2>1 DEF MailInv
<1> QED BY <1>1, <1>3, <1>4, <1>5, <1>7, <1>8 DEF HiveInv

LEMMA HiveInvIsInvariant == HiveSpec => []HiveInv
<1>1. HiveInit => HiveInv
  BY HiveStarts
<1>2. HiveInv /\ [HiveNext]_hiveVars => HiveInv'
  <2> SUFFICES ASSUME HiveInv, [HiveNext]_hiveVars PROVE HiveInv'
    OBVIOUS
  <2>1. CASE \E count \in Counts : create(count)
    BY <2>1, CreateKeeps, CountsAreCounts
  <2>2. CASE \E id \in WorkerId : destroyOne(id)
    BY <2>2, DestroyOneKeeps
  <2>3. CASE \E id \in WorkerId : send(id)
    BY <2>3, SendKeeps
  <2>4. CASE destroyAll
    BY <2>4, DestroyAllKeeps
  <2>5. CASE sendAll
    BY <2>5, SendAllKeeps
  <2>6. CASE \E w \in Worker : PageReceives(w)
    BY <2>6, PageReceivesKeeps
  <2>7. CASE \E w \in Worker : WorkerReceives(w)
    BY <2>7, WorkerReceivesKeeps
  <2>8. CASE \E w \in Worker, to \in Numbers : WorkerPosts(w, to)
    BY <2>8, WorkerPostsKeeps
  <2>9. CASE UNCHANGED hiveVars
    BY <2>9, SMTT(30) DEF hiveVars, HiveInv, HiveType, IdentityInv, MadeInv, Made, TableInv, NumbersAreUnique,
       Registered, LogInv, Named, MailInv, ToWorkerOK, ToPageOK
  <2> QED BY <2>1, <2>2, <2>3, <2>4, <2>5, <2>6, <2>7, <2>8, <2>9 DEF HiveNext
<1> QED BY <1>1, <1>2, PTL DEF HiveSpec

\* The state of the page and of the workers keeps its types, and the bounds of
\* the counts hold (jQuery.Hive, Pollen.worker).
THEOREM HiveKeepsItsTypes == HiveSpec => []HiveTypeOK
<1>1. HiveInv => HiveTypeOK
  BY DEF HiveInv, HiveType, HiveRecord, WorkerRecord, HiveTypeOK
<1> QED BY <1>1, HiveInvIsInvariant, PTL

\* Under every number the page has one worker, the one that has this number,
\* in the list and in the two tables alike, whatever was made and destroyed
\* before (jQuery.Hive.create, destroy).
THEOREM HiveNumbersAreUnique == HiveSpec => []NumbersAreUnique
<1>1. HiveInv => NumbersAreUnique
  BY DEF HiveInv, TableInv
<1> QED BY <1>1, HiveInvIsInvariant, PTL

\* An answer to the sender of a message is on its way to the worker that posted
\* it, or the page has destroyed this worker; a worker that took itself for
\* number 0 is the exception (Pollen.worker.send, receive, jQuery.Hive.send and
\* the listener).
THEOREM AnswersReachTheAsker == HiveSpec => []AnswerReachesAsker
<1>1. ASSUME HiveInv PROVE AnswerReachesAsker
  <2> SUFFICES ASSUME NEW w \in Worker, NEW i \in DOMAIN toWorker[w], NEW n, n = toWorker[w][i].n,
                      log[n].re # 0, log[log[n].re].by # Page, log[log[n].re].as # 0
               PROVE  w = log[log[n].re].by \/ ~Registered(log[log[n].re].by)
    BY DEF AnswerReachesAsker
  <2>1. toWorker[w][i] \in Range(toWorker[w])
    BY DEF Range
  <2>2. ToWorkerOK(w, toWorker[w][i])
    BY <1>1, <2>1 DEF HiveInv, MailInv
  <2> QED BY <2>2 DEF ToWorkerOK, Named
<1> QED BY <1>1, HiveInvIsInvariant, PTL
-----------------------------------------------------------------------------
(* The requests of a worker. *)

\* Of the requests that have gone out: a complete one has its own settings, and
\* an answer has been told, if at all, to the callback of its own call.
RequestOK(x) ==
  /\ x = [asked |-> x.asked, url |-> x.url, success |-> x.success, body |-> x.body, told |-> x.told]
  /\ x.told \subseteq {x.success}
  /\ Complete(x.asked) =>
       /\ x.success = x.asked.success
       /\ x.body \in {x.asked.data, ""}
       /\ x.url \in {<<x.asked.url>>, <<x.asked.url, x.asked.data>>}

PollenInv == (\E S : xhrs \in Seq(S)) /\ \A i \in DOMAIN xhrs : RequestOK(xhrs[i])

\* What Append makes of a sequence, of a sequence of one.
LEMMA Appended ==
  ASSUME NEW S, NEW q \in Seq(S), NEW x \in S
  PROVE  /\ Append(q, x) \in Seq(S) /\ Len(q) \in Nat
         /\ DOMAIN q = 1 .. Len(q) /\ DOMAIN Append(q, x) = 1 .. Len(q) + 1 /\ Len(Append(q, x)) = Len(q) + 1
         /\ Append(q, x)[Len(q) + 1] = x /\ \A i \in 1 .. Len(q) : Append(q, x)[i] = q[i]
  OBVIOUS

LEMMA AppendedToOne ==
  ASSUME NEW a, NEW b
  PROVE  Append(<<a>>, b) = <<a, b>>
<1>1. PICK q : q = <<a>>
  OBVIOUS
<1>2. q \in Seq({a, b}) /\ Len(q) = 1 /\ q[1] = a
  BY <1>1
<1>3. PICK r : r = Append(q, b)
  OBVIOUS
<1>4. r \in Seq({a, b}) /\ Len(r) = 2 /\ r[1] = a /\ r[2] = b
  <2>1. PICK S : S = {a, b}
    OBVIOUS
  <2>2. q \in Seq(S) /\ b \in S
    BY <1>2, <2>1
  <2>3. /\ r \in Seq(S) /\ Len(r) = Len(q) + 1
        /\ r[Len(q) + 1] = b /\ \A i \in 1 .. Len(q) : r[i] = q[i]
    BY <2>2, <1>3, Appended
  <2> QED BY <1>2, <2>1, <2>3
<1>5. r = <<a, b>>
  BY <1>4
<1> QED BY <1>1, <1>3, <1>5

\* A request goes out with what its call gives, as far as the call is complete.
LEMMA RequestGoesOutRight ==
  ASSUME NEW r, NEW o, o = Extended(r), NEW data, data = ParamOf(o.data),
         NEW url, url = IF r.type = "GET" /\ data # "" THEN Append(o.url, data) ELSE o.url,
         NEW x, x = [asked |-> r, url |-> url, success |-> o.success,
                     body |-> IF r.type = "POST" THEN data ELSE "", told |-> {}]
  PROVE  RequestOK(x)
<1>1. ASSUME Complete(r)
      PROVE  o.url = <<r.url>> /\ o.data = r.data /\ o.success = r.success
  BY <1>1 DEF Complete, Extended
<1>2. data \in {o.data, ""}
  BY DEF ParamOf
<1>3. ASSUME Complete(r), data # "" PROVE Append(o.url, data) = <<r.url, r.data>>
  <2>1. o.url = <<r.url>> /\ data = r.data
    BY <1>1, <1>2, <1>3
  <2> QED BY <2>1, AppendedToOne
<1>4. x.asked = r /\ x.url = url /\ x.success = o.success /\ x.told = {}
      /\ x.body \in {data, ""}
  OBVIOUS
<1>5. ASSUME Complete(r)
      PROVE  x.body \in {r.data, ""} /\ x.url \in {<<r.url>>, <<r.url, r.data>>}
  BY <1>1, <1>2, <1>3, <1>4, <1>5
<1> QED BY <1>1, <1>4, <1>5 DEF RequestOK

LEMMA PollenInvIsInvariant == PollenSpec => []PollenInv
<1>1. PollenInit => PollenInv
  <2> SUFFICES ASSUME PollenInit PROVE PollenInv
    OBVIOUS
  <2>0. xhrs = <<>>
    BY DEF PollenInit
  <2>1. xhrs \in Seq(Nat) /\ DOMAIN xhrs = {}
    BY <2>0
  <2> QED BY <2>1 DEF PollenInv
<1>2. PollenInv /\ [PollenNext]_pollenVars => PollenInv'
  <2> SUFFICES ASSUME PollenInv, [PollenNext]_pollenVars PROVE PollenInv'
    OBVIOUS
  <2>1. PICK S : xhrs \in Seq(S)
    BY DEF PollenInv
  <2>2. ASSUME NEW r \in Request, ajax(r) PROVE PollenInv'
    <3>1. PICK o, data, url, x :
            /\ o = Extended(r) /\ data = ParamOf(o.data)
            /\ url = IF r.type = "GET" /\ data # "" THEN Append(o.url, data) ELSE o.url
            /\ x = [asked |-> r, url |-> url, success |-> o.success,
                    body |-> IF r.type = "POST" THEN data ELSE "", told |-> {}]
            /\ xhrs' = Append(xhrs, x)
      BY <2>2, Zenon DEF ajax
    <3>2. RequestOK(x)
      BY <3>1, RequestGoesOutRight
    <3>3. xhrs' \in Seq(S \cup {x}) /\ \A i \in DOMAIN xhrs' : xhrs'[i] = x \/ (i \in DOMAIN xhrs /\ xhrs'[i] = xhrs[i])
      <4>1. xhrs \in Seq(S \cup {x}) /\ x \in S \cup {x}
        BY <2>1
      <4>2. xhrs' = Append(xhrs, x)
        BY <3>1
      <4>3. PICK q : q = Append(xhrs, x)
        OBVIOUS
      <4>4. PICK T : T = S \cup {x}
        OBVIOUS
      <4>5. /\ q \in Seq(T) /\ Len(xhrs) \in Nat
            /\ DOMAIN xhrs = 1 .. Len(xhrs) /\ DOMAIN q = 1 .. Len(xhrs) + 1
            /\ q[Len(xhrs) + 1] = x /\ \A i \in 1 .. Len(xhrs) : q[i] = xhrs[i]
        BY <4>1, <4>3, <4>4, Appended
      <4> QED BY <4>2, <4>3, <4>4, <4>5
    <3> QED BY <3>2, <3>3 DEF PollenInv
  <2>3. ASSUME NEW i \in DOMAIN xhrs, Answer(i) PROVE PollenInv'
    <3>1. PICK x : x = xhrs[i]
      OBVIOUS
    <3>2. RequestOK(x)
      BY <3>1 DEF PollenInv
    <3>3. PICK y : y = [x EXCEPT !.told = {x.success}]
      OBVIOUS
    <3>4. xhrs' = [xhrs EXCEPT ![i] = y]
      BY <2>3, <3>1, <3>3 DEF Answer, AtCall
    <3>5. y = [asked |-> x.asked, url |-> x.url, success |-> x.success, body |-> x.body, told |-> {x.success}]
      BY <3>2, <3>3 DEF RequestOK
    <3>6. RequestOK(y)
      BY <3>2, <3>5 DEF RequestOK
    <3>7. xhrs' \in Seq(S \cup {y}) /\ DOMAIN xhrs' = DOMAIN xhrs
          /\ \A k \in DOMAIN xhrs : xhrs'[k] = IF k = i THEN y ELSE xhrs[k]
      <4>1. xhrs \in Seq(S \cup {y})
        BY <2>1
      <4> QED BY <3>4, <4>1
    <3> QED BY <3>6, <3>7 DEF PollenInv
  <2>4. CASE UNCHANGED pollenVars
    BY <2>4 DEF pollenVars, PollenInv
  <2> QED BY <2>2, <2>3, <2>4 DEF PollenNext
<1> QED BY <1>1, <1>2, PTL DEF PollenSpec

\* A request that gives all its settings goes out with them, and is answered to
\* its own callback, whatever else the worker has asked or asks meanwhile
\* (Pollen.ajax._ajax).
THEOREM RequestsAreOwn == PollenSpec => []OwnRequest
<1>1. ASSUME PollenInv PROVE OwnRequest
  <2> SUFFICES ASSUME NEW i \in DOMAIN xhrs, NEW x, x = xhrs[i], Complete(x.asked)
               PROVE  /\ Head(x.url) = x.asked.url
                      /\ ToSet(Tail(x.url)) \cup {x.body} \subseteq {x.asked.data, ""}
                      /\ x.told \subseteq {x.asked.success}
    BY DEF OwnRequest
  <2>1. RequestOK(x)
    BY <1>1 DEF PollenInv
  <2>2. CASE x.url = <<x.asked.url>>
    <3>1. Head(x.url) = x.asked.url /\ Tail(x.url) = <<>>
      BY <2>2
    <3>2. ToSet(<<>>) = {}
      BY DEF ToSet
    <3> QED BY <2>1, <3>1, <3>2 DEF RequestOK
  <2>3. CASE x.url = <<x.asked.url, x.asked.data>>
    <3>1. Head(x.url) = x.asked.url /\ Tail(x.url) = <<x.asked.data>>
      BY <2>3
    <3>2. ToSet(<<x.asked.data>>) = {x.asked.data}
      BY DEF ToSet
    <3> QED BY <2>1, <3>1, <3>2 DEF RequestOK
  <2> QED BY <2>1, <2>2, <2>3 DEF RequestOK
<1> QED BY <1>1, PollenInvIsInvariant, PTL
=============================================================================
