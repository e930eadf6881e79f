--------------------------- MODULE CounterProofs ----------------------------
(***************************************************************************)
(* Proofs about the two counters, for any clients, names and width of the  *)
(* ints.                                                                   *)
(***************************************************************************)
EXTENDS CounterStores, TLAPS

LEMMA InitTypeOK == Init => TypeOK
  BY DEF Init, TypeOK, Label

LEMMA IntPlusType ==
  ASSUME NEW v \in Int, NEW d \in {-1, 1} PROVE IntPlus(v, d) \in Int
  BY CounterAssumption DEF IntPlus

LEMMA SlotParts ==
  ASSUME NEW s \in Slot
  PROVE  /\ s[1] \in {"redis", "mysql"} /\ s[2] \in Key
         /\ s = <<s[1], s[2]>>
  BY DEF Slot

\* the part of an action that is about one client
LEMMA GotoParts ==
  ASSUME TypeOK, NEW c \in Client, NEW l \in Label, Goto(c, l)
  PROVE  /\ pc' \in [Client -> Label] /\ pc'[c] = l
         /\ \A b \in Client \ {c} : pc'[b] = pc[b]
  BY DEF TypeOK, Goto

LEMMA StepTypeOK == TypeOK /\ [Next]_vars => TypeOK'
<1> SUFFICES ASSUME TypeOK, [Next]_vars PROVE TypeOK'
  OBVIOUS
<1>1. ASSUME NEW c \in Client, NEW s \in Slot, NEW d \in {-1, 1}, Update(c, s, d)
      PROVE  TypeOK'
  <2>1. PICK l \in {"get", "upsert"} :
          Goto(c, l) /\ l = IF s[1] = "redis" THEN "get" ELSE "upsert"
    BY <1>1 DEF Update
  <2>2. /\ pc' \in [Client -> Label] /\ pc'[c] = l
        /\ \A b \in Client \ {c} : pc'[b] = pc[b]
    BY <2>1, GotoParts DEF Label
  <2>3. s[1] \in {"redis", "mysql"}
    BY SlotParts
  <2>4. /\ UNCHANGED <<redis, mysql, current, incs, decs>>
        /\ slot' = [slot EXCEPT ![c] = s] /\ delta' = [delta EXCEPT ![c] = d]
        /\ calls' = [calls EXCEPT ![c] = @ + 1]
    BY <1>1 DEF Update
  <2>5. /\ slot' \in [Client -> Slot] /\ delta' \in [Client -> {-1, 1}]
        /\ calls' \in [Client -> Nat]
    BY <2>4 DEF TypeOK
  <2>6. \A b \in Client :
          /\ pc'[b] \in {"get", "zero", "set"} => slot'[b][1] = "redis"
          /\ pc'[b] = "upsert" => slot'[b][1] = "mysql"
          /\ pc'[b] = "set" => current'[b] \in Int
    <3> SUFFICES ASSUME NEW b \in Client
                 PROVE  /\ pc'[b] \in {"get", "zero", "set"} => slot'[b][1] = "redis"
                        /\ pc'[b] = "upsert" => slot'[b][1] = "mysql"
                        /\ pc'[b] = "set" => current'[b] \in Int
      OBVIOUS
    <3>1. CASE b = c
      BY <2>1, <2>2, <2>3, <2>4, <3>1 DEF TypeOK
    <3>2. CASE b # c
      BY <2>2, <2>4, <3>2 DEF TypeOK
    <3> QED
      BY <3>1, <3>2
  <2> QED
    BY <2>2, <2>4, <2>5, <2>6 DEF TypeOK
<1>2. ASSUME NEW c \in Client, Get(c) PROVE TypeOK'
  <2>1. slot[c][2] \in Key /\ redis[slot[c][2]] \in Int \cup {Null}
    BY SlotParts DEF TypeOK
  <2> QED
    BY <1>2, <2>1 DEF Get, Goto, Label, TypeOK
<1>3. ASSUME NEW c \in Client, SetZero(c) PROVE TypeOK'
  <2> DEFINE Cell == Int \cup {Null}
  <2>1. redis' \in [Key -> Int \cup {Null}] /\ current' \in [Client -> Int \cup {Null}]
    <3>1. /\ redis' = [redis EXCEPT ![slot[c][2]] = 0]
          /\ current' = [current EXCEPT ![c] = 0]
      BY <1>3 DEF SetZero
    <3>2. redis \in [Key -> Cell] /\ current \in [Client -> Cell] /\ 0 \in Cell
      BY DEF TypeOK
    <3> HIDE DEF Cell
    <3>3. redis' \in [Key -> Cell] /\ current' \in [Client -> Cell]
      BY <3>1, <3>2
    <3> QED
      BY <3>3 DEF Cell
  <2>2. /\ pc' \in [Client -> Label] /\ pc'[c] = "set" /\ pc[c] = "zero"
        /\ \A b \in Client \ {c} : pc'[b] = pc[b] /\ current'[b] = current[b]
        /\ current'[c] = 0
    BY <1>3, GotoParts DEF SetZero, Label, TypeOK
  <2>3. UNCHANGED <<mysql, slot, delta, incs, decs, calls>>
    BY <1>3 DEF SetZero
  <2>4. \A b \in Client :
          /\ pc'[b] \in {"get", "zero", "set"} => slot'[b][1] = "redis"
          /\ pc'[b] = "upsert" => slot'[b][1] = "mysql"
          /\ pc'[b] = "set" => current'[b] \in Int
    BY <2>2, <2>3 DEF TypeOK
  <2> QED
    BY <2>1, <2>2, <2>3, <2>4 DEF TypeOK
<1>4. ASSUME NEW c \in Client, Set(c) PROVE TypeOK'
  <2>1. current[c] \in Int /\ delta[c] \in {-1, 1} /\ slot[c][2] \in Key
    BY <1>4, SlotParts DEF Set, TypeOK
  <2>2. redis' \in [Key -> Int \cup {Null}]
    BY <1>4, <2>1, IntPlusType DEF Set, TypeOK
  <2>3. incs' \in [Key -> Nat] /\ decs' \in [Key -> Nat]
    BY <1>4, <2>1 DEF Set, Finish, TypeOK
  <2> QED
    BY <1>4, <2>2, <2>3 DEF Set, Goto, Label, TypeOK
<1>5. ASSUME NEW c \in Client, Upsert(c) PROVE TypeOK'
  <2>1. delta[c] \in {-1, 1} /\ slot[c][2] \in Key
    BY SlotParts DEF TypeOK
  <2>2. mysql' \in [Key -> Int \cup {Null}]
    BY <1>5, <2>1 DEF Upsert, TypeOK
  <2> QED
    BY <1>5, <2>2 DEF Upsert, Goto, Label, TypeOK
<1>6. CASE UNCHANGED vars
  BY <1>6 DEF vars, TypeOK
<1> QED
  BY <1>1, <1>2, <1>3, <1>4, <1>5, <1>6 DEF Next, Step, Increment, Decrement

\* Every reachable state of the two counters is well typed; the value that
\* modifyKey adds to is an integer, never null.
THEOREM CounterTypeOK == Spec => []TypeOK
<1>1. Init => TypeOK
  BY InitTypeOK
<1>2. TypeOK /\ [Next]_vars => TypeOK'
  BY StepTypeOK
<1> QED
  BY <1>1, <1>2, PTL DEF Spec

-----------------------------------------------------------------------------
LEMMA StepNoOverCount == TypeOK /\ NoOverCount /\ [Next]_vars => NoOverCount'
<1> SUFFICES ASSUME TypeOK, NoOverCount, [Next]_vars,
                    NEW k \in Key, incs'[k] <= MaxInt, decs'[k] <= MaxInt
             PROVE  /\ redis'[k] # Null => -decs'[k] <= redis'[k] /\ redis'[k] <= incs'[k]
                    /\ redis'[k] = Null => incs'[k] = 0 /\ decs'[k] = 0
                    /\ \A c \in Client : pc'[c] = "set" /\ slot'[c][2] = k =>
                         /\ redis'[k] # Null
                         /\ -decs'[k] <= current'[c] /\ current'[c] <= incs'[k]
  BY DEF NoOverCount, Within
<1> DEFINE Good == /\ redis'[k] # Null => -decs'[k] <= redis'[k] /\ redis'[k] <= incs'[k]
                   /\ redis'[k] = Null => incs'[k] = 0 /\ decs'[k] = 0
                   /\ \A c \in Client : pc'[c] = "set" /\ slot'[c][2] = k =>
                        /\ redis'[k] # Null
                        /\ -decs'[k] <= current'[c] /\ current'[c] <= incs'[k]
<1>1. incs[k] \in Nat /\ decs[k] \in Nat
  BY DEF TypeOK
<1>2. ASSUME incs[k] <= MaxInt, decs[k] <= MaxInt
      PROVE  /\ redis[k] # Null => -decs[k] <= redis[k] /\ redis[k] <= incs[k]
             /\ redis[k] = Null => incs[k] = 0 /\ decs[k] = 0
             /\ \A c \in Client : pc[c] = "set" /\ slot[c][2] = k =>
                  /\ redis[k] # Null
                  /\ -decs[k] <= current[c] /\ current[c] <= incs[k]
  BY <1>2 DEF NoOverCount, Within
<1>3. ASSUME NEW c \in Client, NEW s \in Slot, NEW d \in {-1, 1}, Update(c, s, d)
      PROVE  Good
  <2>1. UNCHANGED <<redis, incs, decs, current>>
    BY <1>3 DEF Update
  <2>2. /\ pc'[c] # "set"
        /\ \A b \in Client \ {c} : pc'[b] = pc[b] /\ slot'[b] = slot[b]
    BY <1>3 DEF Update, Goto, TypeOK
  <2> QED
    BY <1>2, <2>1, <2>2
<1>4. ASSUME NEW c \in Client, Get(c) PROVE Good
  <2>1. UNCHANGED <<redis, incs, decs, slot>>
    BY <1>4 DEF Get
  <2>2. /\ current'[c] = redis[slot[c][2]]
        /\ pc'[c] = "set" => redis[slot[c][2]] # Null
        /\ \A b \in Client \ {c} : pc'[b] = pc[b] /\ current'[b] = current[b]
    BY <1>4 DEF Get, Goto, TypeOK
  <2> QED
    BY <1>2, <2>1, <2>2
<1>5. ASSUME NEW c \in Client, SetZero(c) PROVE Good
  <2>1. UNCHANGED <<incs, decs, slot>> /\ slot[c][2] \in Key
    BY <1>5, SlotParts DEF SetZero, TypeOK
  <2>2. /\ current'[c] = 0
        /\ \A b \in Client \ {c} : pc'[b] = pc[b] /\ current'[b] = current[b]
    BY <1>5 DEF SetZero, Goto, TypeOK
  <2>3. redis'[k] = IF slot[c][2] = k THEN 0 ELSE redis[k]
    BY <1>5, <2>1 DEF SetZero, TypeOK
  <2>4. 0 # Null /\ -decs[k] <= 0 /\ 0 <= incs[k]
    BY <1>1, CounterAssumption
  <2> QED
    BY <1>2, <2>1, <2>2, <2>3, <2>4
<1>6. ASSUME NEW c \in Client, Set(c) PROVE Good
  <2>1. /\ UNCHANGED <<slot, current>> /\ slot[c][2] \in Key
        /\ delta[c] \in {-1, 1} /\ current[c] \in Int /\ pc[c] = "set"
    BY <1>6, SlotParts DEF Set, TypeOK
  <2>2. pc'[c] = "idle" /\ \A b \in Client \ {c} : pc'[b] = pc[b]
    BY <1>6 DEF Set, Goto, TypeOK
  <2>3. CASE slot[c][2] # k
    <3>1. redis'[k] = redis[k] /\ incs'[k] = incs[k] /\ decs'[k] = decs[k]
      BY <1>6, <2>1, <2>3 DEF Set, Finish, TypeOK
    <3> QED
      BY <1>2, <2>1, <2>2, <3>1
  <2>4. CASE slot[c][2] = k
    <3>1. /\ incs'[k] = IF delta[c] = 1 THEN incs[k] + 1 ELSE incs[k]
          /\ decs'[k] = IF delta[c] = -1 THEN decs[k] + 1 ELSE decs[k]
          /\ redis'[k] = IntPlus(current[c], delta[c])
      BY <1>6, <2>1, <2>4 DEF Set, Finish, TypeOK
    <3>2. incs[k] <= MaxInt /\ decs[k] <= MaxInt /\ MaxInt \in Nat
      BY <1>1, <2>1, <3>1, CounterAssumption
    <3>3. -decs[k] <= current[c] /\ current[c] <= incs[k]
      BY <1>2, <2>1, <2>4, <3>2
    <3>4. redis'[k] = current[c] + delta[c]
      BY <1>1, <2>1, <3>1, <3>2, <3>3 DEF IntPlus
    <3>5. redis'[k] \in Int /\ -decs'[k] <= redis'[k] /\ redis'[k] <= incs'[k]
      BY <1>1, <2>1, <3>1, <3>3, <3>4
    <3>6. redis'[k] # Null
      BY <3>5, CounterAssumption
    <3>7. \A b \in Client : pc'[b] = "set" /\ slot'[b][2] = k =>
            -decs'[k] <= current'[b] /\ current'[b] <= incs'[k]
      <4> SUFFICES ASSUME NEW b \in Client, pc'[b] = "set", slot'[b][2] = k
                   PROVE  -decs'[k] <= current'[b] /\ current'[b] <= incs'[k]
        OBVIOUS
      <4>1. pc[b] = "set" /\ slot[b][2] = k /\ current'[b] = current[b]
        BY <2>1, <2>2
      <4>2. current[b] \in Int
        BY <4>1 DEF TypeOK
      <4> QED
        BY <1>1, <1>2, <2>1, <3>1, <3>2, <4>1, <4>2
    <3> QED
      BY <3>5, <3>6, <3>7
  <2> QED
    BY <2>3, <2>4
<1>7. ASSUME NEW c \in Client, Upsert(c) PROVE Good
  <2>1. UNCHANGED <<redis, incs, decs, current, slot>>
    BY <1>7 DEF Upsert
  <2>2. pc'[c] # "set" /\ \A b \in Client \ {c} : pc'[b] = pc[b]
    BY <1>7 DEF Upsert, Goto, TypeOK
  <2> QED
    BY <1>2, <2>1, <2>2
<1>8. CASE UNCHANGED vars
  BY <1>2, <1>8 DEF vars
<1> QED
  BY <1>3, <1>4, <1>5, <1>6, <1>7, <1>8 DEF Next, Step, Increment, Decrement

\* Whatever clients share a name, RedisCounter invents no update
\* (RedisCounter.modifyKey).
THEOREM RedisNeverOverCounts == Spec => []NoOverCount
<1>1. Init => NoOverCount
  BY DEF Init, NoOverCount
<1>2. TypeOK /\ NoOverCount /\ [Next]_vars => NoOverCount'
  BY StepNoOverCount
<1> QED
  BY <1>1, <1>2, CounterTypeOK, PTL DEF Spec

-----------------------------------------------------------------------------
LEMMA StepSoloReadIsFresh ==
  TypeOK /\ SoloReadIsFresh /\ [Next]_vars => SoloReadIsFresh'
<1> SUFFICES ASSUME TypeOK, SoloReadIsFresh, [Next]_vars, NEW c \in Client
             PROVE  /\ pc'[c] \in {"get", "zero", "set"} => slot'[c][2] \in Uses[c]
                    /\ Solo(slot'[c][2]) =>
                         /\ pc'[c] = "zero" => redis'[slot'[c][2]] = Null
                         /\ pc'[c] = "set" => redis'[slot'[c][2]] = current'[c]
  BY DEF SoloReadIsFresh, Solo
<1> DEFINE Good == /\ pc'[c] \in {"get", "zero", "set"} => slot'[c][2] \in Uses[c]
                   /\ Solo(slot'[c][2]) =>
                        /\ pc'[c] = "zero" => redis'[slot'[c][2]] = Null
                        /\ pc'[c] = "set" => redis'[slot'[c][2]] = current'[c]
<1>1. /\ pc[c] \in {"get", "zero", "set"} => slot[c][2] \in Uses[c]
      /\ Solo(slot[c][2]) =>
           /\ pc[c] = "zero" => redis[slot[c][2]] = Null
           /\ pc[c] = "set" => redis[slot[c][2]] = current[c]
  BY DEF SoloReadIsFresh
<1>2. ASSUME NEW b \in Client, NEW s \in Slot, NEW d \in {-1, 1}, Update(b, s, d)
      PROVE  Good
  <2>1. UNCHANGED <<redis, current>>
    BY <1>2 DEF Update
  <2>2. CASE b = c
    <3>1. /\ pc'[c] \in {"get", "upsert"} /\ slot'[c] = s
          /\ pc'[c] = "get" => s[2] \in Uses[c]
      BY <1>2, <2>2 DEF Update, Goto, TypeOK
    <3> QED
      BY <3>1
  <2>3. CASE b # c
    <3>1. pc'[c] = pc[c] /\ slot'[c] = slot[c]
      BY <1>2, <2>3 DEF Update, Goto, TypeOK
    <3> QED
      BY <1>1, <2>1, <3>1
  <2> QED
    BY <2>2, <2>3
<1>3. ASSUME NEW b \in Client, Get(b) PROVE Good
  <2>1. UNCHANGED <<redis, slot>> /\ pc[b] = "get"
    BY <1>3 DEF Get
  <2>2. CASE b = c
    <3>1. /\ pc'[c] = IF redis[slot[c][2]] = Null THEN "zero" ELSE "set"
          /\ current'[c] = redis[slot[c][2]]
      BY <1>3, <2>2 DEF Get, Goto, TypeOK
    <3> QED
      BY <1>1, <2>1, <2>2, <3>1
  <2>3. CASE b # c
    <3>1. pc'[c] = pc[c] /\ current'[c] = current[c]
      BY <1>3, <2>3 DEF Get, Goto, TypeOK
    <3> QED
      BY <1>1, <2>1, <3>1
  <2> QED
    BY <2>2, <2>3
\* a write to the Redis name of another client is not to a name of one's own
<1>4. ASSUME NEW b \in Client \ {c}, pc[b] \in {"zero", "set"},
             pc[c] \in {"get", "zero", "set"}, Solo(slot[c][2])
      PROVE  slot[b][2] # slot[c][2]
  <2>1. slot[b][2] \in Uses[b] /\ slot[c][2] \in Uses[c]
    BY <1>4 DEF SoloReadIsFresh
  <2> QED
    BY <1>4, <2>1 DEF Solo
<1>5. ASSUME NEW b \in Client, SetZero(b) PROVE Good
  <2>1. UNCHANGED slot /\ pc[b] = "zero" /\ slot[c][2] \in Key
    BY <1>5, SlotParts DEF SetZero, TypeOK
  <2>2. CASE b = c
    <3>1. pc'[c] = "set" /\ current'[c] = 0 /\ redis'[slot[c][2]] = 0
      BY <1>5, <2>1, <2>2 DEF SetZero, Goto, TypeOK
    <3> QED
      BY <1>1, <2>1, <2>2, <3>1
  <2>3. CASE b # c
    <3>1. /\ pc'[c] = pc[c] /\ current'[c] = current[c]
          /\ slot[b][2] # slot[c][2] => redis'[slot[c][2]] = redis[slot[c][2]]
      BY <1>5, <2>1, <2>3 DEF SetZero, Goto, TypeOK
    <3> QED
      BY <1>1, <1>4, <2>1, <2>3, <3>1
  <2> QED
    BY <2>2, <2>3
<1>6. ASSUME NEW b \in Client, Set(b) PROVE Good
  <2>1. UNCHANGED <<slot, current>> /\ pc[b] = "set" /\ slot[c][2] \in Key
    BY <1>6, SlotParts DEF Set, TypeOK
  <2>2. CASE b = c
    <3>1. pc'[c] = "idle"
      BY <1>6, <2>2 DEF Set, Goto, TypeOK
    <3> QED
      BY <3>1
  <2>3. CASE b # c
    <3>1. /\ pc'[c] = pc[c]
          /\ slot[b][2] # slot[c][2] => redis'[slot[c][2]] = redis[slot[c][2]]
      BY <1>6, <2>1, <2>3 DEF Set, Goto, TypeOK
    <3> QED
      BY <1>1, <1>4, <2>1, <2>3, <3>1
  <2> QED
    BY <2>2, <2>3
<1>7. ASSUME NEW b \in Client, Upsert(b) PROVE Good
  <2>1. UNCHANGED <<redis, slot, current>>
    BY <1>7 DEF Upsert
  <2>2. pc'[c] = pc[c] \/ pc'[c] = "idle"
    BY <1>7 DEF Upsert, Goto, TypeOK
  <2> QED
    BY <1>1, <2>1, <2>2
<1>8. CASE UNCHANGED vars
  BY <1>1, <1>8 DEF vars
<1> QED
  BY <1>2, <1>3, <1>5, <1>6, <1>7, <1>8 DEF Next, Step, Increment, Decrement

\* Nobody else writes a name between modifyKey's read and its write when one
\* client has the name for itself.
THEOREM SoloReadStaysFresh == Spec => []SoloReadIsFresh
<1>1. Init => SoloReadIsFresh
  BY DEF Init, SoloReadIsFresh
<1>2. TypeOK /\ SoloReadIsFresh /\ [Next]_vars => SoloReadIsFresh'
  BY StepSoloReadIsFresh
<1> QED
  BY <1>1, <1>2, CounterTypeOK, PTL DEF Spec

-----------------------------------------------------------------------------
(***************************************************************************)
(* The step correspondence with the abstract counter.                      *)
(***************************************************************************)
Value == [s \in Exact |-> IF Stored(s) = Null THEN 0 ELSE Stored(s)]
Known == {s \in Exact : Stored(s) # Null}
InCall == [c \in Client |-> IF pc[c] # "idle" /\ slot[c] \in Exact
                           THEN <<slot[c], delta[c]>> ELSE Null]

LEMMA ExactSlot == \A s \in Exact : s \in Slot
  BY DEF Exact

LEMMA InitImplements == Init => Abstract!Init
  BY ExactSlot, SlotParts DEF Init, Abstract!Init, Stored

LEMMA UpdateImplements ==
  ASSUME TypeOK, NEW c \in Client, NEW s \in Slot, NEW d \in {-1, 1},
         Update(c, s, d)
  PROVE  Abstract!Next \/ UNCHANGED Abstract!vars
<1>1. /\ pc[c] = "idle" /\ UNCHANGED <<redis, mysql>>
      /\ pc'[c] # "idle" /\ slot'[c] = s /\ delta'[c] = d
      /\ \A b \in Client \ {c} : /\ pc'[b] = pc[b] /\ slot'[b] = slot[b]
                                /\ delta'[b] = delta[b]
  BY DEF Update, Goto, TypeOK
<1>2. Value' = Value /\ Known' = Known
  BY <1>1 DEF Value, Known, Stored, Exact, Solo
<1>3. CASE s \in Exact
  <2>1. InCall' = [InCall EXCEPT ![c] = <<s, d>>] /\ InCall[c] = Null
    BY <1>1, <1>3 DEF InCall, Exact, Solo
  <2>2. Abstract!Call(c, s, d)
    BY <1>2, <2>1 DEF Abstract!Call, Value, Known, InCall
  <2> QED
    BY <1>3, <2>2 DEF Abstract!Next
<1>4. CASE s \notin Exact
  <2>1. InCall' = InCall
    BY <1>1, <1>4 DEF InCall, Exact, Solo
  <2> QED
    BY <1>2, <2>1 DEF Abstract!vars, Value, Known, InCall
<1> QED
  BY <1>3, <1>4

LEMMA GetImplements ==
  ASSUME TypeOK, NEW c \in Client, Get(c) PROVE UNCHANGED Abstract!vars
<1>1. /\ UNCHANGED <<redis, mysql, slot, delta>>
      /\ pc[c] # "idle" /\ pc'[c] # "idle"
      /\ \A b \in Client \ {c} : pc'[b] = pc[b]
  BY DEF Get, Goto, TypeOK
<1>2. Value' = Value /\ Known' = Known
  BY <1>1 DEF Value, Known, Stored, Exact, Solo
<1>3. InCall' = InCall
  BY <1>1 DEF InCall, Exact, Solo
<1> QED
  BY <1>2, <1>3 DEF Abstract!vars, Value, Known, InCall

LEMMA SetZeroImplements ==
  ASSUME TypeOK, SoloReadIsFresh, NEW c \in Client, SetZero(c)
  PROVE  Abstract!Next \/ UNCHANGED Abstract!vars
<1> DEFINE k == slot[c][2]
<1>1. /\ UNCHANGED <<mysql, slot, delta>> /\ redis' = [redis EXCEPT ![k] = 0]
      /\ pc[c] = "zero" /\ pc'[c] # "idle"
      /\ \A b \in Client \ {c} : pc'[b] = pc[b]
  BY DEF SetZero, Goto, TypeOK
<1>2. slot[c] \in Slot /\ slot[c] = <<"redis", k>> /\ k \in Key
  BY <1>1, SlotParts DEF TypeOK
<1>3. InCall' = InCall
  BY <1>1 DEF InCall, Exact, Solo
<1>4. \A s \in Slot : s # slot[c] => (Stored(s))' = Stored(s)
  BY <1>1, <1>2, SlotParts DEF Stored, TypeOK
<1>5. (Stored(slot[c]))' = 0 /\ 0 # Null
  BY <1>1, <1>2, CounterAssumption DEF Stored, TypeOK
<1>6. Exact' = Exact
  BY DEF Exact, Solo
<1>7. CASE slot[c] \in Exact
  <2>1. Stored(slot[c]) = Null
    BY <1>1, <1>2, <1>7 DEF SoloReadIsFresh, Exact, Stored
  <2>2. Value' = Value
    <3>1. \A s \in Exact : (IF (Stored(s))' = Null THEN 0 ELSE (Stored(s))')
                           = (IF Stored(s) = Null THEN 0 ELSE Stored(s))
      <4> SUFFICES ASSUME NEW s \in Exact
                   PROVE  (IF (Stored(s))' = Null THEN 0 ELSE (Stored(s))')
                            = (IF Stored(s) = Null THEN 0 ELSE Stored(s))
        OBVIOUS
      <4>1. CASE s = slot[c]
        <5>1. (Stored(s))' = 0
          BY <1>1, <1>2, <4>1 DEF Stored, TypeOK
        <5>2. Stored(s) = Null
          BY <2>1, <4>1
        <5> QED
          BY <1>5, <5>1, <5>2
      <4>2. CASE s # slot[c]
        <5>1. (Stored(s))' = Stored(s)
          BY <1>4, <4>2, ExactSlot
        <5> QED
          BY <5>1
      <4> QED
        BY <4>1, <4>2
    <3> QED
      BY <1>6, <3>1 DEF Value
  <2>3. Known' = Known \cup {slot[c]} /\ slot[c] \notin Known
    <3>1. \A s \in Exact : s # slot[c] => ((Stored(s))' # Null <=> Stored(s) # Null)
      BY <1>4, ExactSlot
    <3>2. (Stored(slot[c]))' # Null
      BY <1>5
    <3>3. \A s \in Exact : s \in Known' <=> s \in Known \/ s = slot[c]
      <4> SUFFICES ASSUME NEW s \in Exact
                   PROVE  (Stored(s))' # Null <=> Stored(s) # Null \/ s = slot[c]
        BY <1>6 DEF Known
      <4>1. CASE s = slot[c]
        <5>1. (Stored(s))' # Null
          BY <1>1, <1>2, <1>5, <4>1 DEF Stored, TypeOK
        <5> QED
          BY <4>1, <5>1
      <4>2. CASE s # slot[c]
        BY <3>1, <4>2
      <4> QED
        BY <4>1, <4>2
    <3>4. Known' \subseteq Exact /\ Known \subseteq Exact
      BY <1>6 DEF Known
    <3> QED
      BY <1>7, <2>1, <3>3, <3>4 DEF Known
  <2>4. InCall[c] = <<slot[c], delta[c]>> /\ InCall[c] # Null /\ InCall[c][1] = slot[c]
    BY <1>1, <1>2, <1>7, CounterAssumption DEF InCall, TypeOK
  <2>5. Abstract!Create(slot[c])
    BY <1>3, <2>2, <2>3, <2>4 DEF Abstract!Create, Value, Known, InCall
  <2> QED
    BY <1>7, <2>5 DEF Abstract!Next
<1>8. CASE slot[c] \notin Exact
  <2>1. Value' = Value /\ Known' = Known
    BY <1>4, <1>6, <1>8, ExactSlot DEF Value, Known
  <2> QED
    BY <1>3, <2>1 DEF Abstract!vars, Value, Known, InCall
<1> QED
  BY <1>7, <1>8

LEMMA ApplyImplements ==
  ASSUME TypeOK, NEW c \in Client, pc[c] # "idle", pc'[c] = "idle",
         \A b \in Client \ {c} : pc'[b] = pc[b],
         UNCHANGED <<slot, delta>>,
         \A s \in Slot : s # slot[c] => (Stored(s))' = Stored(s),
         (Stored(slot[c]))' \in Int,
         slot[c] \in Exact =>
           \/ (Stored(slot[c]))' =
                PlusOf(slot[c], IF Stored(slot[c]) = Null THEN 0 ELSE Stored(slot[c]),
                       delta[c])
           \/ delta[c] = -1 /\ Stored(slot[c]) = Null /\ (Stored(slot[c]))' = 0
  PROVE  Abstract!Next \/ UNCHANGED Abstract!vars
<1> DEFINE s == slot[c]
           d == delta[c]
<1>1. s \in Slot /\ d \in {-1, 1} /\ (Stored(s))' # Null
  BY CounterAssumption DEF TypeOK
<1>2. Exact' = Exact
  BY DEF Exact, Solo
<1>3. CASE s \in Exact
  <2>1. InCall[c] = <<s, d>> /\ InCall' = [InCall EXCEPT ![c] = Null]
    BY <1>2, <1>3 DEF InCall
  <2>2. Known' = Known \cup {s} /\ (s \notin Known <=> Stored(s) = Null)
    BY <1>1, <1>2, <1>3, ExactSlot DEF Known
  <2>3. Value[s] = IF Stored(s) = Null THEN 0 ELSE Stored(s)
    BY <1>3 DEF Value
  <2>4. \/ Value' = [Value EXCEPT ![s] = PlusOf(s, Value[s], d)]
        \/ d = -1 /\ s \notin Known /\ Value' = Value
    <3>1. Value' = [r \in Exact |-> IF r = s THEN (Stored(s))' ELSE Value[r]]
      BY <1>1, <1>2, <1>3, ExactSlot DEF Value
    <3>2. CASE (Stored(s))' = PlusOf(s, Value[s], d)
      BY <1>3, <3>1, <3>2 DEF Value
    <3>3. CASE d = -1 /\ Stored(s) = Null /\ (Stored(s))' = 0
      BY <1>3, <2>2, <2>3, <3>1, <3>3 DEF Value
    <3> QED
      BY <1>3, <2>3, <3>2, <3>3
  <2>5. \A r, e : r = s /\ e = d => Abstract!Apply(c, r, e)
    BY <2>1, <2>2, <2>4 DEF Abstract!Apply, Value, Known, InCall
  <2>6. PICK r \in Exact, e \in {-1, 1} : r = s /\ e = d
    BY <1>1, <1>3
  <2>7. Abstract!Apply(c, r, e)
    BY <2>5, <2>6
  <2> QED
    BY <2>7 DEF Abstract!Next
<1>4. CASE s \notin Exact
  <2>1. InCall' = InCall
    BY <1>2, <1>4 DEF InCall
  <2>2. Value' = Value /\ Known' = Known
    BY <1>2, <1>4, ExactSlot DEF Value, Known
  <2> QED
    BY <2>1, <2>2 DEF Abstract!vars, Value, Known, InCall
<1> QED
  BY <1>3, <1>4

LEMMA SetImplements ==
  ASSUME TypeOK, SoloReadIsFresh, NEW c \in Client, Set(c)
  PROVE  Abstract!Next \/ UNCHANGED Abstract!vars
<1> DEFINE k == slot[c][2]
<1>1. /\ UNCHANGED <<mysql, slot, delta>>
      /\ redis' = [redis EXCEPT ![k] = IntPlus(current[c], delta[c])]
      /\ pc[c] = "set" /\ pc'[c] = "idle"
      /\ \A b \in Client \ {c} : pc'[b] = pc[b]
  BY DEF Set, Goto, TypeOK
<1>2. /\ slot[c] \in Slot /\ slot[c] = <<"redis", k>> /\ k \in Key
      /\ current[c] \in Int /\ delta[c] \in {-1, 1}
  BY <1>1, SlotParts DEF TypeOK
<1>3. \A s \in Slot : s # slot[c] => (Stored(s))' = Stored(s)
  BY <1>1, <1>2, SlotParts DEF Stored, TypeOK
<1>4. (Stored(slot[c]))' = IntPlus(current[c], delta[c])
  BY <1>1, <1>2 DEF Stored, TypeOK
<1>5. slot[c] \in Exact => Stored(slot[c]) = current[c] /\ current[c] # Null
  BY <1>1, <1>2, CounterAssumption DEF SoloReadIsFresh, Exact, Stored
<1>6. PlusOf(slot[c], current[c], delta[c]) = IntPlus(current[c], delta[c])
  BY <1>2 DEF PlusOf
<1>7. (Stored(slot[c]))' \in Int
  BY <1>2, <1>4, IntPlusType
<1> HIDE DEF k
<1> QED
  BY <1>1, <1>3, <1>4, <1>5, <1>6, <1>7, ApplyImplements

LEMMA UpsertImplements ==
  ASSUME TypeOK, NEW c \in Client, Upsert(c)
  PROVE  Abstract!Next \/ UNCHANGED Abstract!vars
<1> DEFINE k == slot[c][2]
           d == delta[c]
           sum == IF mysql[k] # Null THEN mysql[k] + d ELSE IF d = 1 THEN 1 ELSE 0
<1>1. /\ UNCHANGED <<redis, slot, delta>> /\ mysql' = [mysql EXCEPT ![k] = sum]
      /\ pc[c] = "upsert" /\ pc'[c] = "idle"
      /\ \A b \in Client \ {c} : pc'[b] = pc[b]
  BY DEF Upsert, Goto, TypeOK
<1>2. /\ slot[c] \in Slot /\ slot[c] = <<"mysql", k>> /\ k \in Key
      /\ d \in {-1, 1} /\ mysql[k] \in Int \cup {Null}
  BY <1>1, SlotParts DEF TypeOK
<1>3. \A s \in Slot : s # slot[c] => (Stored(s))' = Stored(s)
  BY <1>1, <1>2, SlotParts DEF Stored, TypeOK
<1>4. (Stored(slot[c]))' = sum /\ Stored(slot[c]) = mysql[k]
  BY <1>1, <1>2 DEF Stored, TypeOK
<1>5. sum \in Int
  BY <1>2
<1>6. \/ sum = (IF mysql[k] = Null THEN 0 ELSE mysql[k]) + d
      \/ d = -1 /\ mysql[k] = Null /\ sum = 0
  BY <1>2
<1>7. \A v : PlusOf(slot[c], v, d) = v + d
  BY <1>2 DEF PlusOf
<1> HIDE DEF k, sum
<1> QED
  BY <1>1, <1>3, <1>4, <1>5, <1>6, <1>7, ApplyImplements

LEMMA StepImplements ==
  TypeOK /\ SoloReadIsFresh /\ [Next]_vars => [Abstract!Next]_Abstract!vars
<1> SUFFICES ASSUME TypeOK, SoloReadIsFresh, [Next]_vars
             PROVE  Abstract!Next \/ UNCHANGED Abstract!vars
  OBVIOUS
<1>1. CASE UNCHANGED vars
  BY <1>1 DEF vars, Abstract!vars, Stored, Exact, Solo
<1> QED
  BY <1>1, UpdateImplements, GetImplements, SetZeroImplements, SetImplements,
     UpsertImplements DEF Next, Step, Increment, Decrement

\* MySqlCounter for all clients, and RedisCounter for the names that one client
\* has for itself, count every update exactly once, in their own integers.
THEOREM StoresImplementCounter == Spec => ImplementsCounter
<1>1. Init => Abstract!Init
  BY InitImplements
<1>2. TypeOK /\ SoloReadIsFresh /\ [Next]_vars => [Abstract!Next]_Abstract!vars
  BY StepImplements
<1> QED
  BY <1>1, <1>2, CounterTypeOK, SoloReadStaysFresh, PTL
     DEF Spec, ImplementsCounter, Abstract!Spec
=============================================================================
