--------------------------- MODULE CounterStores ----------------------------
(***************************************************************************)
(* The two implementations of Counter in the counter sample, used by       *)
(* clients that share the stores: RedisCounter, which reads a string,      *)
(* parses it and writes the sum back in separate commands, and             *)
(* MySqlCounter, which updates a row in one statement and transaction.     *)
(* The stores are external; one action is one command to a store.  A call  *)
(* of getCount is one command that changes nothing and has no action.      *)
(* A value in Redis is a Java int in decimal form, so that the sum wraps   *)
(* before it is formatted; the column of a row is taken to be wide enough. *)
(***************************************************************************)
EXTENDS Integers, FiniteSets

CONSTANTS
  Client,     \* threads and processes that use the counters
  Key,        \* names passed to the counters
  Uses,       \* Uses[c]: the names that client c counts in Redis
  Null,       \* no value under a name
  MaxInt,     \* the largest int; the smallest is -MaxInt - 1
  MaxCalls    \* bound: updates per client

Slot == ({"redis"} \X Key) \cup ({"mysql"} \X Key)

ASSUME CounterAssumption ==
  /\ Uses \in [Client -> SUBSET Key]
  /\ Null \notin Int \cup (Slot \X {-1, 1})
  /\ MaxInt \in Nat /\ MaxCalls \in Nat

VARIABLES
  redis,     \* the integer whose decimal form Redis holds under a name
  mysql,     \* val of the row of a name
  pc,        \* label of every client
  slot,      \* store and name of the update of every client
  delta,     \* the d of modifyKey: +1 or -1
  current,   \* intValAsString of every client
  incs,      \* ghost: finished increments of every name in Redis
  decs,      \* ghost: finished decrements of every name in Redis
  calls      \* ghost: updates called by every client

vars == <<redis, mysql, pc, slot, delta, current, incs, decs, calls>>

Label == {"idle", "get", "zero", "set", "upsert"}

TypeOK ==
  /\ redis \in [Key -> Int \cup {Null}]
  /\ mysql \in [Key -> Int \cup {Null}]
  /\ pc \in [Client -> Label]
  /\ slot \in [Client -> Slot]
  /\ delta \in [Client -> {-1, 1}]
  /\ current \in [Client -> Int \cup {Null}]
  /\ incs \in [Key -> Nat] /\ decs \in [Key -> Nat]
  /\ calls \in [Client -> Nat]
  /\ \A c \in Client : /\ pc[c] \in {"get", "zero", "set"} => slot[c][1] = "redis"
                       /\ pc[c] = "upsert" => slot[c][1] = "mysql"
                       /\ pc[c] = "set" => current[c] \in Int

Init ==
  /\ redis = [k \in Key |-> Null] /\ mysql = [k \in Key |-> Null]
  /\ pc = [c \in Client |-> "idle"]
  /\ slot \in [Client -> Slot] /\ delta = [c \in Client |-> 1]
  /\ current = [c \in Client |-> Null]
  /\ incs = [k \in Key |-> 0] /\ decs = [k \in Key |-> 0]
  /\ calls = [c \in Client |-> 0]

Goto(c, label) == pc' = [pc EXCEPT ![c] = label]

\* the sum of two ints
IntPlus(v, d) == IF v + d > MaxInt THEN -MaxInt - 1
                 ELSE IF v + d < -MaxInt - 1 THEN MaxInt ELSE v + d

-----------------------------------------------------------------------------
\* increment and decrement are called on either counter
Update(c, s, d) ==
  /\ pc[c] = "idle" /\ calls[c] < MaxCalls
  /\ s[1] = "redis" => s[2] \in Uses[c]
  /\ Goto(c, IF s[1] = "redis" THEN "get" ELSE "upsert")
  /\ slot' = [slot EXCEPT ![c] = s]
  /\ delta' = [delta EXCEPT ![c] = d]
  /\ calls' = [calls EXCEPT ![c] = @ + 1]
  /\ UNCHANGED <<redis, mysql, current, incs, decs>>

Increment(c, s) == Update(c, s, 1)
Decrement(c, s) == Update(c, s, -1)

\* modifyKey: opsForValue().get(k)
Get(c) == LET k == slot[c][2] IN
  /\ pc[c] = "get"
  /\ current' = [current EXCEPT ![c] = redis[k]]
  /\ Goto(c, IF redis[k] = Null THEN "zero" ELSE "set")
  /\ UNCHANGED <<redis, mysql, slot, delta, incs, decs, calls>>

\* mutant: a fresh count starts at d, and d is added to it
SetZeroMutant(c) == LET k == slot[c][2] IN
  /\ pc[c] = "zero"
  /\ redis' = [redis EXCEPT ![k] = 0]
  /\ current' = [current EXCEPT ![c] = delta[c]]
  /\ Goto(c, "set")
  /\ UNCHANGED <<mysql, slot, delta, incs, decs, calls>>

\* modifyKey: no value, so set(k, "0")
SetZero(c) == LET k == slot[c][2] IN
  /\ pc[c] = "zero"
  /\ redis' = [redis EXCEPT ![k] = 0]
  /\ current' = [current EXCEPT ![c] = 0]
  /\ Goto(c, "set")
  /\ UNCHANGED <<mysql, slot, delta, incs, decs, calls>>

Finish(k, d) ==
  /\ incs' = [incs EXCEPT ![k] = IF d = 1 THEN @ + 1 ELSE @]
  /\ decs' = [decs EXCEPT ![k] = IF d = -1 THEN @ + 1 ELSE @]

\* modifyKey: set(k, (currentIntVal + d) + "")
Set(c) == LET k == slot[c][2] IN
  /\ pc[c] = "set"
  /\ redis' = [redis EXCEPT ![k] = IntPlus(current[c], delta[c])]
  /\ Finish(k, delta[c])
  /\ Goto(c, "idle")
  /\ UNCHANGED <<mysql, slot, delta, current, calls>>

\* mutant: the fresh row is inserted at zero by increment too
UpsertMutant(c) == LET k == slot[c][2] IN
  /\ pc[c] = "upsert"
  /\ mysql' = [mysql EXCEPT ![k] = IF mysql[k] # Null THEN mysql[k] + delta[c]
                                   ELSE 0]
  /\ Goto(c, "idle")
  /\ UNCHANGED <<redis, slot, delta, current, incs, decs, calls>>

\* INSERT ... ON DUPLICATE KEY UPDATE val = val + ?: increment inserts 1,
\* decrement inserts 0
Upsert(c) == LET k == slot[c][2] IN
  /\ pc[c] = "upsert"
  /\ mysql' = [mysql EXCEPT ![k] =
       IF mysql[k] # Null THEN mysql[k] + delta[c]
       ELSE IF delta[c] = 1 THEN 1 ELSE 0]
  /\ Goto(c, "idle")
  /\ UNCHANGED <<redis, slot, delta, current, incs, decs, calls>>

Step(c) == Get(c) \/ SetZero(c) \/ Set(c) \/ Upsert(c)

Next == \E c \in Client :
  \/ \E s \in Slot : Increment(c, s) \/ Decrement(c, s)
  \/ Step(c)

Spec == Init /\ [][Next]_vars

-----------------------------------------------------------------------------
(***************************************************************************)
(* Properties.                                                             *)
(***************************************************************************)
\* Names that one client has for itself, as Main has the bean name when a single
\* JVM runs it; and all rows of the database.
Solo(k) == \A c, d \in Client : k \in Uses[c] \cap Uses[d] => c = d
Exact == {s \in Slot : s[1] = "redis" => Solo(s[2])}

Stored(s) == IF s[1] = "redis" THEN redis[s[2]] ELSE mysql[s[2]]
PlusOf(s, v, d) == IF s[1] = "redis" THEN IntPlus(v, d) ELSE v + d

\* What a client has read from a name that it has for itself is what Redis
\* still holds when the client writes its sum (modifyKey).
SoloReadIsFresh ==
  \A c \in Client :
    /\ pc[c] \in {"get", "zero", "set"} => slot[c][2] \in Uses[c]
    /\ Solo(slot[c][2]) =>
         /\ pc[c] = "zero" => redis[slot[c][2]] = Null
         /\ pc[c] = "set" => redis[slot[c][2]] = current[c]

Abstract == INSTANCE Counter
  WITH Name <- Exact,
       Plus <- PlusOf,
       Idle <- Null,
       value <- [s \in Exact |-> IF Stored(s) = Null THEN 0 ELSE Stored(s)],
       known <- {s \in Exact : Stored(s) # Null},
       call <- [c \in Client |-> IF pc[c] # "idle" /\ slot[c] \in Exact
                                 THEN <<slot[c], delta[c]>> ELSE Null]

\* MySqlCounter counts every update once whoever calls it, and RedisCounter
\* does so for a name that a single client uses (modifyKey, the upsert).
ImplementsCounter == Abstract!Spec

\* RedisCounter can lose updates of a name that several clients use, but it
\* invents none: while no sum left the ints, the value, and what any client has
\* read and is about to add to, is no more than the finished increments and no
\* less than the finished decrements; and a name once written can be read.
Within(v, k) == -decs[k] <= v /\ v <= incs[k]
NoOverCount ==
  \A k \in Key : incs[k] <= MaxInt /\ decs[k] <= MaxInt =>
    /\ redis[k] # Null => Within(redis[k], k)
    /\ redis[k] = Null => incs[k] = 0 /\ decs[k] = 0
    /\ \A c \in Client :
         pc[c] = "set" /\ slot[c][2] = k => redis[k] # Null /\ Within(current[c], k)

\* What the comments on Counter say, "increments the value associated with
\* vName" and "returns the actual value at present": when no update is under
\* way, the value is the finished increments less the finished decrements.
NoUpdateLost ==
  (\A c \in Client : pc[c] = "idle") =>
    \A k \in Key : redis[k] # Null /\ incs[k] <= MaxInt /\ decs[k] <= MaxInt
                    => redis[k] = incs[k] - decs[k]
=============================================================================
