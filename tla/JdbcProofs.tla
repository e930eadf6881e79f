----------------------------- MODULE JdbcProofs ------------------------------
(***************************************************************************)
(* Proofs about the JDBC repository, for any threads, connections, rows    *)
(* and failures of the driver.                                             *)
(***************************************************************************)
EXTENDS RawJdbc, TLAPS

(***************************************************************************)
(* What the helpers do, thread by thread and connection by connection.     *)
(***************************************************************************)
LEMMA GotoParts ==
  ASSUME TypeOK, NEW t \in Thread, NEW l \in Label, Goto(t, l)
  PROVE  /\ pc' \in [Thread -> Label] /\ pc'[t] = l
         /\ \A u \in Thread \ {t} : pc'[u] = pc[u]
  BY DEF TypeOK, Goto

LEMMA OpenParts ==
  ASSUME TypeOK, NEW t \in Thread, NEW c \in Conn \cup {None}, Open(t, c)
  PROVE  /\ status' \in [Conn -> {"unused", "open", "closed", "leaked"}]
         /\ cached' \in [Thread -> Conn \cup {None}] /\ cached'[t] = c
         /\ depth' \in [Thread -> Nat] /\ depth'[t] = depth[t] + 1
         /\ \A u \in Thread \ {t} : cached'[u] = cached[u] /\ depth'[u] = depth[u]
         /\ \/ c = cached[t] /\ status' = status
            \/ /\ cached[t] = None /\ c \in Conn
               /\ status[c] = "unused" /\ status'[c] = "open"
               /\ \A d \in Conn \ {c} : status'[d] = status[d]
<1>1. /\ depth' \in [Thread -> Nat] /\ depth'[t] = depth[t] + 1
      /\ \A u \in Thread \ {t} : depth'[u] = depth[u]
  BY DEF Open, TypeOK
<1>2. CASE cached[t] # None /\ c = cached[t] /\ UNCHANGED <<status, cached>>
  BY <1>1, <1>2 DEF TypeOK
<1>3. CASE /\ cached[t] = None /\ c \in Conn /\ status[c] = "unused"
           /\ status' = [status EXCEPT ![c] = "open"]
           /\ cached' = [cached EXCEPT ![t] = c]
  BY <1>1, <1>3 DEF TypeOK
<1>4. CASE cached[t] = None /\ c = None /\ UNCHANGED <<status, cached>>
  BY <1>1, <1>4 DEF TypeOK
<1> QED
  BY <1>2, <1>3, <1>4 DEF Open

LEMMA SettleParts ==
  ASSUME TypeOK, NEW c \in Conn, NEW fate \in {"committed", "undone"},
         Settle(c, fate)
  PROVE  /\ row' \in [Row -> {"free", "pending", "committed", "undone"}]
         /\ pending' \in [Conn -> Row \cup {None}] /\ pending'[c] = None
         /\ \A d \in Conn \ {c} : pending'[d] = pending[d]
         /\ \A r \in Row : row'[r] = IF r = pending[c] THEN fate ELSE row[r]
  BY DEF Settle, TypeOK

LEMMA CloseParts ==
  ASSUME TypeOK, NEW t \in Thread, depth[t] \in {1, 2}, Close(t)
  PROVE  /\ status' \in [Conn -> {"unused", "open", "closed", "leaked"}]
         /\ cached' \in [Thread -> Conn \cup {None}]
         /\ row' \in [Row -> {"free", "pending", "committed", "undone"}]
         /\ pending' \in [Conn -> Row \cup {None}] /\ auto' = auto
         /\ depth' \in [Thread -> Nat] /\ depth'[t] = depth[t] - 1
         /\ \A u \in Thread \ {t} : cached'[u] = cached[u] /\ depth'[u] = depth[u]
         /\ depth[t] = 2 => UNCHANGED <<cached, status, row, pending>>
         /\ depth[t] = 1 => cached'[t] = None
         /\ cached[t] = None => UNCHANGED <<status, row, pending>>
         /\ depth[t] = 1 /\ cached[t] # None =>
              /\ \A d \in Conn \ {cached[t]} :
                   status'[d] = status[d] /\ pending'[d] = pending[d]
              /\ \/ /\ status'[cached[t]] = "closed" /\ pending'[cached[t]] = None
                    /\ \A r \in Row : r # pending[cached[t]] => row'[r] = row[r]
                 \/ /\ status'[cached[t]] = "leaked" /\ UNCHANGED <<row, pending>>
<1>1. /\ depth' \in [Thread -> Nat] /\ depth'[t] = depth[t] - 1 /\ auto' = auto
      /\ \A u \in Thread \ {t} : depth'[u] = depth[u]
  BY DEF Close, TypeOK
<1>2. CASE ~(depth[t] = 1 /\ cached[t] # None)
  <2>1. UNCHANGED <<cached, status, row, pending>>
    BY <1>2 DEF Close
  <2> QED
    BY <1>1, <1>2, <2>1 DEF TypeOK
<1>3. CASE depth[t] = 1 /\ cached[t] # None
  <2> DEFINE c == cached[t]
  <2>1. c \in Conn
    BY <1>3 DEF TypeOK
  <2>2. cached' = [cached EXCEPT ![t] = None]
    BY <1>3 DEF Close
  <2>3. /\ cached' \in [Thread -> Conn \cup {None}] /\ cached'[t] = None
        /\ \A u \in Thread \ {t} : cached'[u] = cached[u]
    BY <2>2 DEF TypeOK
  <2>4. CASE /\ status' = [status EXCEPT ![c] = "closed"]
             /\ \E fate \in {"committed", "undone"} : Settle(c, fate)
    <3>1. PICK fate \in {"committed", "undone"} : Settle(c, fate)
      BY <2>4
    <3>2. /\ row' \in [Row -> {"free", "pending", "committed", "undone"}]
          /\ pending' \in [Conn -> Row \cup {None}] /\ pending'[c] = None
          /\ \A d \in Conn \ {c} : pending'[d] = pending[d]
          /\ \A r \in Row : r # pending[c] => row'[r] = row[r]
      BY <2>1, <3>1, SettleParts
    <3>3. /\ status' \in [Conn -> {"unused", "open", "closed", "leaked"}]
          /\ status'[c] = "closed" /\ \A d \in Conn \ {c} : status'[d] = status[d]
      BY <2>1, <2>4 DEF TypeOK
    <3> QED
      BY <1>1, <1>3, <2>3, <3>2, <3>3
  <2>5. CASE status' = [status EXCEPT ![c] = "leaked"] /\ UNCHANGED <<row, pending>>
    <3>1. /\ status' \in [Conn -> {"unused", "open", "closed", "leaked"}]
          /\ status'[c] = "leaked" /\ \A d \in Conn \ {c} : status'[d] = status[d]
      BY <2>1, <2>5 DEF TypeOK
    <3> QED
      BY <1>1, <1>3, <2>3, <2>5, <3>1 DEF TypeOK
  <2> QED
    BY <1>3, <2>4, <2>5 DEF Close
<1> QED
  BY <1>2, <1>3

-----------------------------------------------------------------------------
(***************************************************************************)
(* Type correctness and the depth, which need each other: a close never    *)
(* takes the depth below zero because a call that closes has opened.       *)
(***************************************************************************)
Depth(t) == depth[t] = Frames(t) /\ (depth[t] = 0 => cached[t] = None)

LEMMA StepDepth ==
  TypeOK /\ DepthCountsFrames /\ [Next]_vars => TypeOK' /\ DepthCountsFrames'
<1> SUFFICES ASSUME TypeOK, DepthCountsFrames, [Next]_vars
             PROVE  TypeOK' /\ DepthCountsFrames'
  OBVIOUS
<1>0. \A t \in Thread : Depth(t)
  BY DEF DepthCountsFrames, Depth
\* the other threads have the depth they had
<1>1. ASSUME NEW t \in Thread, (Depth(t))',
             \A u \in Thread \ {t} : /\ pc'[u] = pc[u] /\ nested'[u] = nested[u]
                                     /\ depth'[u] = depth[u] /\ cached'[u] = cached[u]
      PROVE  DepthCountsFrames'
  <2> SUFFICES ASSUME NEW u \in Thread
               PROVE  (Depth(u))'
    BY DEF DepthCountsFrames, Depth
  <2>1. CASE u = t
    BY <1>1, <2>1
  <2>2. CASE u # t
    BY <1>0, <1>1, <2>2 DEF Depth, Frames
  <2> QED
    BY <2>1, <2>2
<1>2. ASSUME NEW t \in Thread, SaveCustomer(t) \/ \E r \in Row : GetCustomerById(t, r)
      PROVE  TypeOK' /\ DepthCountsFrames'
  <2>1. PICK l \in {"saveOpen", "loadOpen"} : Goto(t, l)
    BY <1>2 DEF SaveCustomer, GetCustomerById
  <2>2. /\ pc' \in [Thread -> Label] /\ pc'[t] = l
        /\ \A u \in Thread \ {t} : pc'[u] = pc[u]
    BY <2>1, GotoParts DEF Label, SaveLabel, LoadLabel
  <2>3. /\ UNCHANGED <<db, cached, depth, outer, inner>> /\ pc[t] = "idle"
        /\ nested' = [nested EXCEPT ![t] = FALSE]
    BY <1>2 DEF SaveCustomer, GetCustomerById
  <2>a. PICK r \in Row \cup {None} : id' = [id EXCEPT ![t] = r]
    BY <1>2 DEF SaveCustomer, GetCustomerById
  <2>b. /\ id' \in [Thread -> Row \cup {None}]
        /\ nested' \in [Thread -> BOOLEAN]
    BY <2>a, <2>3 DEF TypeOK
  <2>c. /\ customer' = [customer EXCEPT ![t] = None]
    BY <1>2 DEF SaveCustomer, GetCustomerById
  <2>d. /\ customer' \in [Thread -> Row \cup {None}]
    BY <2>c DEF TypeOK
  <2>4. TypeOK'
    BY <2>2, <2>3, <2>b, <2>d DEF TypeOK, db
  <2>5. (Depth(t))'
    BY <1>0, <2>2, <2>3 DEF Depth, Frames, TypeOK
  <2> QED
    BY <1>1, <2>2, <2>3, <2>4, <2>5 DEF TypeOK
<1>3. ASSUME NEW t \in Thread, SaveOpen(t) PROVE TypeOK' /\ DepthCountsFrames'
  <2>1. PICK c \in Conn \cup {None} :
          /\ Open(t, c) /\ outer' = [outer EXCEPT ![t] = c]
          /\ Goto(t, IF c = None THEN "saveClose" ELSE "saveAuto")
    BY <1>3 DEF SaveOpen
  <2>2. /\ pc' \in [Thread -> Label] /\ pc'[t] \in {"saveClose", "saveAuto"}
        /\ \A u \in Thread \ {t} : pc'[u] = pc[u]
    BY <2>1, GotoParts DEF Label, SaveLabel, LoadLabel
  <2>3. /\ UNCHANGED <<auto, pending, row, nested, inner, id, customer>>
        /\ pc[t] = "saveOpen"
    BY <1>3 DEF SaveOpen
  <2>4. TypeOK'
    BY <2>1, <2>2, <2>3, OpenParts DEF TypeOK
  <2>5. depth[t] = 0
    BY <1>0, <2>3 DEF Depth, Frames
  <2>6. (Depth(t))'
    BY <2>1, <2>2, <2>5, OpenParts DEF Depth, Frames
  <2> QED
    BY <1>1, <2>1, <2>2, <2>3, <2>4, <2>6, OpenParts
<1>4. ASSUME NEW t \in Thread, LoadOpen(t) PROVE TypeOK' /\ DepthCountsFrames'
  <2>1. PICK c \in Conn \cup {None} :
          /\ Open(t, c) /\ inner' = [inner EXCEPT ![t] = c]
          /\ Goto(t, IF c = None THEN "loadClose" ELSE "loadAuto")
    BY <1>4 DEF LoadOpen
  <2>2. /\ pc' \in [Thread -> Label] /\ pc'[t] \in {"loadClose", "loadAuto"}
        /\ \A u \in Thread \ {t} : pc'[u] = pc[u]
    BY <2>1, GotoParts DEF Label, SaveLabel, LoadLabel
  <2>3. /\ UNCHANGED <<auto, pending, row, nested, outer, id, customer>>
        /\ pc[t] = "loadOpen"
    BY <1>4 DEF LoadOpen
  <2>4. TypeOK'
    BY <2>1, <2>2, <2>3, OpenParts DEF TypeOK
  <2>5. depth[t] = IF nested[t] THEN 1 ELSE 0
    BY <1>0, <2>3 DEF Depth, Frames
  <2>6. (Depth(t))'
    BY <2>1, <2>2, <2>3, <2>5, OpenParts DEF Depth, Frames
  <2> QED
    BY <1>1, <2>1, <2>2, <2>3, <2>4, <2>6, OpenParts
<1>5. ASSUME NEW t \in Thread, SaveClose(t) PROVE TypeOK' /\ DepthCountsFrames'
  <2>1. /\ Close(t) /\ pc[t] = "saveClose" /\ outer' = [outer EXCEPT ![t] = None]
        /\ UNCHANGED <<nested, inner, id, customer>>
    BY <1>5 DEF SaveClose
  <2>2. /\ pc' \in [Thread -> Label] /\ pc'[t] = "idle"
        /\ \A u \in Thread \ {t} : pc'[u] = pc[u]
    BY <1>5, GotoParts DEF SaveClose, Label
  <2>3. depth[t] = 1
    BY <1>0, <2>1 DEF Depth, Frames
  <2>4. TypeOK'
    BY <2>1, <2>2, <2>3, CloseParts DEF TypeOK
  <2>5. (Depth(t))'
    BY <2>1, <2>2, <2>3, CloseParts DEF Depth, Frames
  <2> QED
    BY <1>1, <2>1, <2>2, <2>3, <2>4, <2>5, CloseParts
<1>6. ASSUME NEW t \in Thread, LoadClose(t) PROVE TypeOK' /\ DepthCountsFrames'
  <2>1. /\ Close(t) /\ pc[t] = "loadClose" /\ inner' = [inner EXCEPT ![t] = None]
        /\ UNCHANGED <<nested, outer, id, customer>>
    BY <1>6 DEF LoadClose
  <2>2. /\ pc' \in [Thread -> Label]
        /\ pc'[t] = IF nested[t] THEN "keysClose" ELSE "idle"
        /\ \A u \in Thread \ {t} : pc'[u] = pc[u]
    BY <1>6, GotoParts DEF LoadClose, Label, SaveLabel
  <2>3. depth[t] = IF nested[t] THEN 2 ELSE 1
    BY <1>0, <2>1 DEF Depth, Frames
  <2>4. TypeOK'
    BY <2>1, <2>2, <2>3, CloseParts DEF TypeOK
  <2>5. (Depth(t))'
    BY <2>1, <2>2, <2>3, CloseParts DEF Depth, Frames
  <2> QED
    BY <1>1, <2>1, <2>2, <2>3, <2>4, <2>5, CloseParts
<1>7. ASSUME NEW t \in Thread, Keys(t) PROVE TypeOK' /\ DepthCountsFrames'
  <2>1. PICK l \in {"loadOpen", "saveClose", "rollback"} :
          Goto(t, l) /\ nested' = [nested EXCEPT ![t] = l = "loadOpen"]
    BY <1>7 DEF Keys
  <2>2. /\ pc' \in [Thread -> Label] /\ pc'[t] = l
        /\ \A u \in Thread \ {t} : pc'[u] = pc[u]
    BY <2>1, GotoParts DEF Label, SaveLabel, LoadLabel
  <2>3. /\ UNCHANGED <<db, cached, depth, outer, inner, id, customer>>
        /\ pc[t] = "keys"
    BY <1>7 DEF Keys
  <2>4. /\ nested' \in [Thread -> BOOLEAN] /\ nested'[t] = (l = "loadOpen")
        /\ \A u \in Thread \ {t} : nested'[u] = nested[u]
    BY <2>1 DEF TypeOK
  <2>5. TypeOK'
    BY <2>2, <2>3, <2>4 DEF TypeOK, db
  <2>6. (Depth(t))'
    <3>1. depth[t] = 1
      BY <1>0, <2>3 DEF Depth, Frames
    <3> QED
      BY <2>2, <2>3, <2>4, <3>1 DEF Depth, Frames
  <2> QED
    BY <1>1, <2>2, <2>3, <2>4, <2>5, <2>6
\* a step from one label of a method to another, with the connection held
<1>8. ASSUME NEW t \in Thread, NEW l \in Label, Goto(t, l),
             UNCHANGED <<cached, depth, nested>>, depth[t] # 0,
             \/ pc[t] \in SaveLabel \ {"saveOpen"} /\ l \in SaveLabel \ {"saveOpen"}
             \/ /\ pc[t] \in LoadLabel \ {"loadOpen"}
                /\ l \in LoadLabel \ {"loadOpen"}
      PROVE  /\ DepthCountsFrames' /\ pc' \in [Thread -> Label]
  <2>1. /\ pc' \in [Thread -> Label] /\ pc'[t] = l
        /\ \A u \in Thread \ {t} : pc'[u] = pc[u]
    BY <1>8, GotoParts
  <2>2. Frames(t)' = Frames(t)
    BY <1>8, <2>1 DEF Frames, SaveLabel, LoadLabel
  <2>3. (Depth(t))'
    BY <1>0, <1>8, <2>2 DEF Depth
  <2> QED
    BY <1>1, <1>8, <2>1, <2>3
<1>9. ASSUME NEW t \in Thread,
             \/ SaveAuto(t) \/ Insert(t) \/ KeysClose(t) \/ Rollback(t)
      PROVE  TypeOK' /\ DepthCountsFrames'
  <2>1. /\ pc[t] \in {"saveAuto", "insert", "keysClose", "rollback"}
        /\ UNCHANGED <<status, cached, depth, nested, outer, inner>>
    BY <1>9 DEF SaveAuto, Insert, KeysClose, Rollback, locals, db
  <2>2. PICK l \in SaveLabel \ {"saveOpen"} : Goto(t, l)
    BY <1>9 DEF SaveAuto, Insert, KeysClose, Rollback, SaveLabel
  <2>3. depth[t] # 0
    BY <1>0, <2>1 DEF Depth, Frames
  <2>4. DepthCountsFrames' /\ pc' \in [Thread -> Label]
    BY <1>8, <2>1, <2>2, <2>3 DEF Label, SaveLabel
  <2>5. /\ auto' \in [Conn -> BOOLEAN] /\ pending' \in [Conn -> Row \cup {None}]
        /\ row' \in [Row -> {"free", "pending", "committed", "undone"}]
    <3>1. CASE SaveAuto(t)
      BY <3>1 DEF SaveAuto, TypeOK
    <3>2. CASE Insert(t)
      BY <3>2 DEF Insert, TypeOK
    <3>3. CASE KeysClose(t)
      BY <3>3 DEF KeysClose, TypeOK, db
    <3>4. CASE Rollback(t)
      BY <3>4 DEF Rollback, Settle, TypeOK
    <3> QED
      BY <1>9, <3>1, <3>2, <3>3, <3>4
  <2>6. /\ id' \in [Thread -> Row \cup {None}]
        /\ customer' \in [Thread -> Row \cup {None}]
    <3>1. CASE UNCHANGED <<id, customer>>
      BY <3>1 DEF TypeOK
    <3>2. CASE Insert(t)
      BY <3>2 DEF Insert, TypeOK
    <3>3. CASE Rollback(t)
      BY <3>3 DEF Rollback, TypeOK
    <3> QED
      BY <1>9, <3>1, <3>2, <3>3 DEF SaveAuto, KeysClose, locals
  <2> QED
    BY <2>1, <2>4, <2>5, <2>6 DEF TypeOK
<1>10. ASSUME NEW t \in Thread, LoadAuto(t) \/ Select(t)
       PROVE  TypeOK' /\ DepthCountsFrames'
  <2>1. /\ pc[t] \in {"loadAuto", "select"}
        /\ UNCHANGED <<status, cached, depth, nested, outer, inner, id>>
    BY <1>10 DEF LoadAuto, Select, locals, db
  <2>2. PICK l \in LoadLabel \ {"loadOpen"} : Goto(t, l)
    BY <1>10 DEF LoadAuto, Select, LoadLabel
  <2>3. depth[t] # 0
    BY <1>0, <2>1 DEF Depth, Frames
  <2>4. DepthCountsFrames' /\ pc' \in [Thread -> Label]
    BY <1>8, <2>1, <2>2, <2>3 DEF Label, LoadLabel
  <2>5. /\ auto' \in [Conn -> BOOLEAN] /\ pending' \in [Conn -> Row \cup {None}]
        /\ row' \in [Row -> {"free", "pending", "committed", "undone"}]
    <3>1. CASE LoadAuto(t)
      <4>1. auto' = auto \/ auto' = [auto EXCEPT ![inner[t]] = TRUE]
        BY <3>1 DEF LoadAuto
      <4>2. Settle(inner[t], "committed") \/ UNCHANGED <<row, pending>>
        BY <3>1 DEF LoadAuto
      <4> QED
        BY <4>1, <4>2 DEF Settle, TypeOK
    <3>2. CASE Select(t)
      BY <3>2 DEF Select, TypeOK, db
    <3> QED
      BY <1>10, <3>1, <3>2
  <2>6. customer' \in [Thread -> Row \cup {None}]
    <3>1. customer' = customer \/ customer' = [customer EXCEPT ![t] = id[t]]
      BY <1>10 DEF LoadAuto, Select, locals
    <3> DEFINE S == Row \cup {None}
    <3>2. customer \in [Thread -> S] /\ id[t] \in S
      BY DEF TypeOK
    <3> HIDE DEF S
    <3>3. customer' \in [Thread -> S]
      BY <3>1, <3>2
    <3> QED
      BY <3>3 DEF S
  <2> QED
    BY <2>1, <2>4, <2>5, <2>6 DEF TypeOK
<1>11. CASE UNCHANGED vars
  BY <1>11 DEF vars, db, locals, TypeOK, DepthCountsFrames, Frames
<1> QED
  BY <1>2, <1>3, <1>4, <1>5, <1>6, <1>7, <1>9, <1>10, <1>11 DEF Next, Step

LEMMA InitDepth == Init => TypeOK /\ DepthCountsFrames
  BY DEF Init, TypeOK, DepthCountsFrames, Frames, Label

\* Every reachable state of the repository is well typed; the depth is never
\* negative, whatever the driver throws.
THEOREM JdbcTypeOK == Spec => []TypeOK
<1>1. TypeOK /\ DepthCountsFrames /\ [Next]_vars => TypeOK' /\ DepthCountsFrames'
  BY StepDepth
<1> QED
  BY <1>1, InitDepth, PTL DEF Spec

\* The depth counts the calls that hold the connection, and a thread between
\* calls holds none (openThreadConnection, closeThreadConnection).
THEOREM DepthIsFrames == Spec => []DepthCountsFrames
<1>1. TypeOK /\ DepthCountsFrames /\ [Next]_vars => TypeOK' /\ DepthCountsFrames'
  BY StepDepth
<1> QED
  BY <1>1, InitDepth, PTL DEF Spec

-----------------------------------------------------------------------------
(***************************************************************************)
(* The connection of a call.  A call that has none goes to its finally     *)
(* clause at once, so every other label has one.                           *)
(***************************************************************************)
HasConnection ==
  \A t \in Thread : cached[t] = None =>
    \/ pc[t] \in {"idle", "saveOpen", "saveClose"}
    \/ pc[t] \in {"loadOpen", "loadClose"} /\ ~nested[t]

Own(t) == /\ InSave(t) => outer[t] = cached[t]
          /\ InLoad(t) => inner[t] = cached[t]
          /\ cached[t] = None => \/ pc[t] \in {"idle", "saveOpen", "saveClose"}
                                 \/ pc[t] \in {"loadOpen", "loadClose"} /\ ~nested[t]
CachedIsOpen ==
  \A t \in Thread : cached[t] # None =>
    /\ status[cached[t]] = "open"
    /\ \A u \in Thread \ {t} : cached[u] # cached[t]

ConnInv == CallsShareConnection /\ HasConnection

LEMMA ConnInvParts == ConnInv <=> (\A t \in Thread : Own(t)) /\ CachedIsOpen
  BY DEF ConnInv, CallsShareConnection, HasConnection, Own, CachedIsOpen

LEMMA ConnInvPartsNext ==
  (\A t \in Thread : (Own(t))') /\ CachedIsOpen' => ConnInv'
  BY DEF ConnInv, CallsShareConnection, HasConnection, Own, CachedIsOpen,
         InSave, InLoad

\* the other threads keep what they have
LEMMA OthersOwn ==
  ASSUME NEW t \in Thread, \A u \in Thread : Own(u), (Own(t))',
         \A u \in Thread \ {t} : /\ pc'[u] = pc[u] /\ nested'[u] = nested[u]
                                 /\ outer'[u] = outer[u] /\ inner'[u] = inner[u]
                                 /\ cached'[u] = cached[u]
  PROVE  \A u \in Thread : (Own(u))'
<1> SUFFICES ASSUME NEW u \in Thread PROVE (Own(u))'
  OBVIOUS
<1>1. CASE u = t
  BY <1>1
<1>2. CASE u # t
  BY <1>2 DEF Own, InSave, InLoad
<1> QED
  BY <1>1, <1>2

LEMMA OpenCached ==
  ASSUME TypeOK, CachedIsOpen, NEW t \in Thread, NEW c \in Conn \cup {None},
         Open(t, c)
  PROVE  CachedIsOpen'
<1>1. /\ cached'[t] = c /\ \A u \in Thread \ {t} : cached'[u] = cached[u]
      /\ \/ c = cached[t] /\ status' = status
         \/ /\ cached[t] = None /\ c \in Conn
            /\ status[c] = "unused" /\ status'[c] = "open"
            /\ \A d \in Conn \ {c} : status'[d] = status[d]
  BY OpenParts
<1>2. CASE c = cached[t] /\ status' = status
  <2>1. \A u \in Thread : cached'[u] = cached[u]
    BY <1>1, <1>2
  <2> QED
    BY <1>2, <2>1 DEF CachedIsOpen
<1>3. CASE /\ cached[t] = None /\ c \in Conn
           /\ status[c] = "unused" /\ status'[c] = "open"
           /\ \A d \in Conn \ {c} : status'[d] = status[d]
  <2>1. \A u \in Thread \ {t} : cached[u] # c
    BY <1>3, JdbcAssumption DEF CachedIsOpen
  <2>2. \A u \in Thread \ {t} : cached[u] # None => status'[cached[u]] = "open"
    BY <1>3, <2>1 DEF CachedIsOpen, TypeOK
  <2>3. \A u, v \in Thread : u # v /\ cached'[u] # None => cached'[v] # cached'[u]
    BY <1>1, <2>1 DEF CachedIsOpen
  <2> QED
    BY <1>1, <1>3, <2>2, <2>3 DEF CachedIsOpen
<1> QED
  BY <1>1, <1>2, <1>3

LEMMA CloseCached ==
  ASSUME TypeOK, CachedIsOpen, NEW t \in Thread, depth[t] \in {1, 2}, Close(t)
  PROVE  CachedIsOpen'
<1>1. /\ \A u \in Thread \ {t} : cached'[u] = cached[u]
      /\ depth[t] = 2 => UNCHANGED <<cached, status>>
      /\ depth[t] = 1 => cached'[t] = None
      /\ cached[t] = None => UNCHANGED status
      /\ depth[t] = 1 /\ cached[t] # None =>
           \A d \in Conn \ {cached[t]} : status'[d] = status[d]
  BY CloseParts
<1>2. CASE depth[t] = 2
  BY <1>1, <1>2 DEF CachedIsOpen
<1>3. CASE depth[t] = 1
  <2>1. \A u \in Thread \ {t} : cached[u] # None => status'[cached[u]] = "open"
    BY <1>1, <1>3 DEF CachedIsOpen, TypeOK
  <2>2. \A u, v \in Thread : u # v /\ cached'[u] # None => cached'[v] # cached'[u]
    BY <1>1, <1>3 DEF CachedIsOpen
  <2> QED
    BY <1>1, <1>3, <2>1, <2>2 DEF CachedIsOpen
<1> QED
  BY <1>2, <1>3

LEMMA StepConn ==
  TypeOK /\ DepthCountsFrames /\ ConnInv /\ [Next]_vars => ConnInv'
<1> SUFFICES ASSUME TypeOK, DepthCountsFrames, ConnInv, [Next]_vars
             PROVE  ConnInv'
  OBVIOUS
<1>0. (\A t \in Thread : Own(t)) /\ CachedIsOpen
  BY ConnInvParts
<1>1. ASSUME NEW t \in Thread, SaveOpen(t) PROVE ConnInv'
  <2>1. PICK c \in Conn \cup {None} :
          /\ Open(t, c) /\ outer' = [outer EXCEPT ![t] = c]
          /\ Goto(t, IF c = None THEN "saveClose" ELSE "saveAuto")
    BY <1>1 DEF SaveOpen
  <2>2. /\ UNCHANGED <<nested, inner>> /\ cached'[t] = c /\ outer'[t] = c
        /\ pc'[t] = IF c = None THEN "saveClose" ELSE "saveAuto"
        /\ \A u \in Thread \ {t} : /\ pc'[u] = pc[u] /\ outer'[u] = outer[u]
                                    /\ cached'[u] = cached[u]
    BY <1>1, <2>1, OpenParts DEF SaveOpen, Goto, TypeOK
  <2>3. (Own(t))'
    BY <2>2 DEF Own, InSave, InLoad, SaveLabel, LoadLabel
  <2> QED
    BY <1>0, <2>1, <2>2, <2>3, OthersOwn, OpenCached, ConnInvPartsNext
<1>2. ASSUME NEW t \in Thread, LoadOpen(t) PROVE ConnInv'
  <2>1. PICK c \in Conn \cup {None} :
          /\ Open(t, c) /\ inner' = [inner EXCEPT ![t] = c]
          /\ Goto(t, IF c = None THEN "loadClose" ELSE "loadAuto")
    BY <1>2 DEF LoadOpen
  <2>2. /\ UNCHANGED <<nested, outer>> /\ cached'[t] = c /\ inner'[t] = c
        /\ pc'[t] = IF c = None THEN "loadClose" ELSE "loadAuto"
        /\ pc[t] = "loadOpen"
        /\ \A u \in Thread \ {t} : /\ pc'[u] = pc[u] /\ inner'[u] = inner[u]
                                    /\ cached'[u] = cached[u]
    BY <1>2, <2>1, OpenParts DEF LoadOpen, Goto, TypeOK
  <2>3. nested[t] => outer[t] = cached[t] /\ cached[t] # None
    BY <1>0, <2>2 DEF Own, InSave, LoadLabel
  <2>4. nested[t] => c = cached[t]
    BY <2>1, <2>3, OpenParts
  <2>5. (Own(t))'
    BY <2>2, <2>3, <2>4 DEF Own, InSave, InLoad, SaveLabel, LoadLabel
  <2> QED
    BY <1>0, <2>1, <2>2, <2>5, OthersOwn, OpenCached, ConnInvPartsNext
<1>3. ASSUME NEW t \in Thread, SaveClose(t) PROVE ConnInv'
  <2>1. /\ Close(t) /\ UNCHANGED <<nested, inner>> /\ pc[t] = "saveClose"
        /\ pc'[t] = "idle"
        /\ \A u \in Thread \ {t} : pc'[u] = pc[u] /\ outer'[u] = outer[u]
    BY <1>3 DEF SaveClose, Goto, TypeOK
  <2>2. depth[t] = 1
    BY <2>1 DEF DepthCountsFrames, Frames
  <2>3. (Own(t))'
    BY <2>1 DEF Own, InSave, InLoad, SaveLabel, LoadLabel
  <2>4. \A u \in Thread \ {t} : cached'[u] = cached[u]
    BY <2>1, <2>2, CloseParts
  <2> QED
    BY <1>0, <2>1, <2>2, <2>3, <2>4, OthersOwn, CloseCached, ConnInvPartsNext
<1>4. ASSUME NEW t \in Thread, LoadClose(t) PROVE ConnInv'
  <2>1. /\ Close(t) /\ UNCHANGED <<nested, outer>> /\ pc[t] = "loadClose"
        /\ pc'[t] = IF nested[t] THEN "keysClose" ELSE "idle"
        /\ \A u \in Thread \ {t} : pc'[u] = pc[u] /\ inner'[u] = inner[u]
    BY <1>4 DEF LoadClose, Goto, TypeOK
  <2>2. depth[t] = IF nested[t] THEN 2 ELSE 1
    BY <2>1 DEF DepthCountsFrames, Frames
  <2>3. /\ \A u \in Thread \ {t} : cached'[u] = cached[u]
        /\ nested[t] => cached'[t] = cached[t]
    BY <2>1, <2>2, CloseParts
  <2>4. nested[t] => outer[t] = cached[t] /\ cached[t] # None
    BY <1>0, <2>1 DEF Own, InSave, LoadLabel
  <2>5. (Own(t))'
    BY <2>1, <2>3, <2>4 DEF Own, InSave, InLoad, SaveLabel, LoadLabel
  <2> QED
    BY <1>0, <2>1, <2>2, <2>3, <2>5, OthersOwn, CloseCached, ConnInvPartsNext
\* no other step opens or closes
<1>5. ASSUME NEW t \in Thread, (Own(t))', UNCHANGED <<status, cached, outer, inner>>,
             \A u \in Thread \ {t} : pc'[u] = pc[u] /\ nested'[u] = nested[u]
      PROVE  ConnInv'
  <2>1. CachedIsOpen'
    BY <1>0, <1>5 DEF CachedIsOpen
  <2> QED
    BY <1>0, <1>5, <2>1, OthersOwn, ConnInvPartsNext
<1>6. ASSUME NEW t \in Thread, SaveCustomer(t) \/ \E r \in Row : GetCustomerById(t, r)
      PROVE  ConnInv'
  <2>1. /\ UNCHANGED <<status, cached, outer, inner>> /\ pc[t] = "idle"
        /\ pc'[t] \in {"saveOpen", "loadOpen"} /\ ~nested'[t]
        /\ \A u \in Thread \ {t} : pc'[u] = pc[u] /\ nested'[u] = nested[u]
    BY <1>6 DEF SaveCustomer, GetCustomerById, Goto, TypeOK, db
  <2>2. (Own(t))'
    BY <2>1 DEF Own, InSave, InLoad, SaveLabel, LoadLabel
  <2> QED
    BY <1>5, <2>1, <2>2
<1>7. ASSUME NEW t \in Thread, Keys(t) PROVE ConnInv'
  <2>1. /\ UNCHANGED <<status, cached, outer, inner>> /\ pc[t] = "keys"
        /\ pc'[t] \in {"saveClose", "rollback"} \/ (pc'[t] = "loadOpen" /\ nested'[t])
        /\ \A u \in Thread \ {t} : pc'[u] = pc[u] /\ nested'[u] = nested[u]
    BY <1>7 DEF Keys, Goto, TypeOK, db
  <2>2. outer[t] = cached[t] /\ cached[t] # None
    BY <1>0, <2>1 DEF Own, InSave, SaveLabel
  <2>3. (Own(t))'
    BY <2>1, <2>2 DEF Own, InSave, InLoad, SaveLabel, LoadLabel
  <2> QED
    BY <1>5, <2>1, <2>3
<1>8. ASSUME NEW t \in Thread,
             \/ SaveAuto(t) \/ Insert(t) \/ KeysClose(t) \/ Rollback(t)
      PROVE  ConnInv'
  <2>1. /\ UNCHANGED <<status, cached, outer, inner, nested>>
        /\ pc[t] \in {"saveAuto", "insert", "keysClose", "rollback"}
    BY <1>8 DEF SaveAuto, Insert, KeysClose, Rollback, locals, db
  <2>2. PICK l \in {"insert", "keys", "rollback", "saveClose"} : Goto(t, l)
    BY <1>8 DEF SaveAuto, Insert, KeysClose, Rollback
  <2>3. pc'[t] = l /\ \A u \in Thread \ {t} : pc'[u] = pc[u]
    BY <2>2 DEF Goto, TypeOK
  <2>4. outer[t] = cached[t] /\ cached[t] # None
    BY <1>0, <2>1 DEF Own, InSave, SaveLabel
  <2>5. (Own(t))'
    BY <2>1, <2>3, <2>4 DEF Own, InSave, InLoad, SaveLabel, LoadLabel
  <2> QED
    BY <1>5, <2>1, <2>3, <2>5
<1>9. ASSUME NEW t \in Thread, LoadAuto(t) \/ Select(t) PROVE ConnInv'
  <2>1. /\ UNCHANGED <<status, cached, outer, inner, nested>>
        /\ pc[t] \in {"loadAuto", "select"}
    BY <1>9 DEF LoadAuto, Select, locals, db
  <2>2. PICK l \in {"select", "loadClose"} : Goto(t, l)
    BY <1>9 DEF LoadAuto, Select
  <2>3. pc'[t] = l /\ \A u \in Thread \ {t} : pc'[u] = pc[u]
    BY <2>2 DEF Goto, TypeOK
  <2>4. /\ inner[t] = cached[t] /\ cached[t] # None
        /\ nested[t] => outer[t] = cached[t]
    BY <1>0, <2>1 DEF Own, InSave, InLoad, SaveLabel, LoadLabel
  <2>5. (Own(t))'
    BY <2>1, <2>3, <2>4 DEF Own, InSave, InLoad, SaveLabel, LoadLabel
  <2> QED
    BY <1>5, <2>1, <2>3, <2>5
<1>10. CASE UNCHANGED vars
  BY <1>10 DEF vars, db, locals, ConnInv, CallsShareConnection, HasConnection,
               InSave, InLoad
<1> QED
  BY <1>1, <1>2, <1>3, <1>4, <1>6, <1>7, <1>8, <1>9, <1>10 DEF Next, Step

LEMMA InitConn == Init => ConnInv
  BY DEF Init, ConnInv, CallsShareConnection, HasConnection, InSave, InLoad,
         SaveLabel, LoadLabel

\* The calls of a thread share one open connection that no other thread has
\* (openThreadConnection, closeThreadConnection).
THEOREM ConnectionIsShared == Spec => []CallsShareConnection
<1>1. TypeOK /\ DepthCountsFrames /\ ConnInv /\ [Next]_vars => ConnInv'
  BY StepConn
<1>2. ConnInv => CallsShareConnection
  BY DEF ConnInv
<1> QED
  BY <1>1, <1>2, InitConn, JdbcTypeOK, DepthIsFrames, PTL DEF Spec

-----------------------------------------------------------------------------
(***************************************************************************)
(* The rows.  A row is pending on one connection at most, so that ending   *)
(* the transaction of a connection touches no row that is committed;       *)
(* nothing is pending on the connection of a query; and a customer that a  *)
(* call is about to return was committed when the query found it.          *)
(***************************************************************************)
PendingInv ==
  \A c \in Conn : pending[c] # None =>
    /\ row[pending[c]] = "pending"
    /\ \A d \in Conn \ {c} : pending[d] # pending[c]
SelectInv == \A t \in Thread : pc[t] = "select" => pending[inner[t]] = None
Late == {"idle", "loadClose", "keysClose", "rollback", "saveClose"}
Found(t) == customer[t] # None => /\ customer[t] = id[t] /\ row[id[t]] = "committed"
                                  /\ pc[t] \in Late
CustomerInv == \A t \in Thread : Found(t)

\* the parts of OpenIsHeld
OpenIsCached == \A c \in Conn : status[c] = "open" => \E t \in Thread : cached[t] = c
Holds(t, c) == outer[t] = c /\ InSave(t) /\ id[t] = pending[c]
PendingIsSaved ==
  \A c \in Conn : status[c] = "open" /\ pending[c] # None => \E t \in Thread : Holds(t, c)
EndedIsSettled ==
  \A c \in Conn : status[c] \in {"unused", "closed"} => pending[c] = None

RowInv == /\ PendingInv /\ SelectInv /\ CustomerInv
          /\ OpenIsCached /\ PendingIsSaved /\ EndedIsSettled

LEMMA RowInvImplies == RowInv => OpenIsHeld /\ ReturnedIsCommitted
  BY DEF RowInv, OpenIsHeld, OpenIsCached, PendingIsSaved, EndedIsSettled, Holds,
         ReturnedIsCommitted, CustomerInv, Found

(***************************************************************************)
(* A step of t in which connections at most end their transactions, at     *)
(* most t's connection is opened or given up, and t does what it needs for *)
(* itself, preserves the invariant.                                        *)
(***************************************************************************)
LEMMA SettlingStep ==
  ASSUME TypeOK, TypeOK', ConnInv, RowInv, NEW t \in Thread,
         \A u \in Thread \ {t} : /\ pc'[u] = pc[u] /\ nested'[u] = nested[u]
                                 /\ outer'[u] = outer[u] /\ inner'[u] = inner[u]
                                 /\ id'[u] = id[u] /\ customer'[u] = customer[u]
                                 /\ cached'[u] = cached[u],
         \A c \in Conn : pending'[c] \in {pending[c], None},
         \A r \in Row : \/ row'[r] = row[r]
                        \/ \E c \in Conn : pending[c] = r /\ pending'[c] = None,
         \A c \in Conn :
           \/ status'[c] = status[c] /\ (cached[t] = c => cached'[t] = c)
           \/ status[c] = "unused" /\ status'[c] = "open" /\ cached'[t] = c
           \/ /\ status'[c] \in {"closed", "leaked"}
              /\ status'[c] = "closed" => pending'[c] = None,
         InSave(t) => \/ (InSave(t))' /\ outer'[t] = outer[t] /\ id'[t] = id[t]
                      \/ outer[t] \in Conn => status'[outer[t]] # "open",
         pc'[t] = "select" => pending'[inner'[t]] = None,
         (Found(t))'
  PROVE  RowInv'
<1>1. PendingInv'
  <2> SUFFICES ASSUME NEW c \in Conn, pending'[c] # None
               PROVE  /\ row'[pending'[c]] = "pending"
                      /\ \A d \in Conn \ {c} : pending'[d] # pending'[c]
    BY DEF PendingInv
  <2>1. pending'[c] = pending[c] /\ pending[c] \in Row
    BY DEF TypeOK
  <2>2. row[pending[c]] = "pending" /\ \A d \in Conn \ {c} : pending[d] # pending[c]
    BY <2>1 DEF RowInv, PendingInv
  <2> QED
    BY <2>1, <2>2
<1>2. \A r \in Row : row[r] = "committed" => row'[r] = "committed"
  <2> SUFFICES ASSUME NEW r \in Row, row[r] = "committed" PROVE row'[r] = "committed"
    OBVIOUS
  <2>1. \A c \in Conn : pending[c] # r
    BY JdbcAssumption DEF RowInv, PendingInv
  <2> QED
    BY <2>1
<1>3. SelectInv'
  <2> SUFFICES ASSUME NEW u \in Thread, pc'[u] = "select"
               PROVE  pending'[inner'[u]] = None
    BY DEF SelectInv
  <2>1. CASE u = t
    BY <2>1
  <2>2. CASE u # t
    <3>1. /\ inner'[u] = inner[u] /\ pc[u] = "select" /\ inner[u] = cached[u]
          /\ cached[u] # None
      BY <2>2 DEF ConnInv, CallsShareConnection, HasConnection, InLoad, LoadLabel
    <3>2. inner[u] \in Conn
      BY <3>1 DEF TypeOK
    <3>3. pending[inner[u]] = None
      BY <3>1 DEF RowInv, SelectInv
    <3> QED
      BY <3>1, <3>2, <3>3
  <2> QED
    BY <2>1, <2>2
<1>4. CustomerInv'
  <2> SUFFICES ASSUME NEW u \in Thread PROVE (Found(u))'
    BY DEF CustomerInv
  <2>1. CASE u = t
    BY <2>1
  <2>2. CASE u # t
    <3>1. Found(u) /\ id[u] \in Row \cup {None}
      BY DEF RowInv, CustomerInv, TypeOK
    <3> QED
      BY <1>2, <2>2, <3>1 DEF Found
  <2> QED
    BY <2>1, <2>2
<1>5. OpenIsCached'
  <2> SUFFICES ASSUME NEW c \in Conn, status'[c] = "open"
               PROVE  \E u \in Thread : cached'[u] = c
    BY DEF OpenIsCached
  <2>1. CASE status[c] = "unused" /\ cached'[t] = c
    BY <2>1
  <2>2. CASE status'[c] = status[c] /\ (cached[t] = c => cached'[t] = c)
    <3>1. PICK u \in Thread : cached[u] = c
      BY <2>2 DEF RowInv, OpenIsCached
    <3>2. cached'[u] = c
      BY <2>2, <3>1
    <3> QED
      BY <3>2
  <2> QED
    BY <2>1, <2>2
<1>6. PendingIsSaved'
  <2> SUFFICES ASSUME NEW c \in Conn, status'[c] = "open", pending'[c] # None
               PROVE  \E u \in Thread : (Holds(u, c))'
    BY DEF PendingIsSaved
  <2>1. pending'[c] = pending[c]
    OBVIOUS
  <2>2. status[c] = "open"
    BY <2>1 DEF RowInv, EndedIsSettled
  <2>3. PICK u \in Thread : Holds(u, c)
    BY <2>1, <2>2 DEF RowInv, PendingIsSaved
  <2>4. (Holds(u, c))'
    BY <2>1, <2>3 DEF Holds, InSave
  <2> QED
    BY <2>4
<1>7. EndedIsSettled'
  BY DEF RowInv, EndedIsSettled
<1> QED
  BY <1>1, <1>3, <1>4, <1>5, <1>6, <1>7 DEF RowInv

\* the row that is inserted is pending on the connection of its saveCustomer
LEMMA InsertStep ==
  ASSUME TypeOK, TypeOK', ConnInv, RowInv, NEW t \in Thread, NEW r \in Row,
         pc[t] = "insert", row[r] = "free",
         row' = [row EXCEPT ![r] = "pending"],
         pending' = [pending EXCEPT ![outer[t]] = r],
         id' = [id EXCEPT ![t] = r], Goto(t, "keys"),
         UNCHANGED <<status, cached, nested, outer, inner, customer>>
  PROVE  RowInv'
<1> DEFINE x == outer[t]
<1>1. /\ x = cached[t] /\ x \in Conn /\ status[x] = "open"
      /\ \A u \in Thread \ {t} : cached[u] # x
  BY DEF ConnInv, CallsShareConnection, HasConnection, InSave, SaveLabel, TypeOK
<1>2. /\ pending'[x] = r /\ \A c \in Conn \ {x} : pending'[c] = pending[c]
      /\ row'[r] = "pending" /\ \A s \in Row \ {r} : row'[s] = row[s]
      /\ id'[t] = r /\ pc'[t] = "keys"
      /\ \A u \in Thread \ {t} : pc'[u] = pc[u] /\ id'[u] = id[u]
  BY <1>1 DEF TypeOK, Goto
<1>3. \A c \in Conn : pending[c] # r
  BY JdbcAssumption DEF RowInv, PendingInv
<1>4. PendingInv'
  <2> SUFFICES ASSUME NEW c \in Conn, pending'[c] # None
               PROVE  /\ row'[pending'[c]] = "pending"
                      /\ \A d \in Conn \ {c} : pending'[d] # pending'[c]
    BY DEF PendingInv
  <2>1. CASE c = x
    BY <1>2, <1>3, <2>1
  <2>2. CASE c # x
    <3>1. pending'[c] = pending[c] /\ pending[c] \in Row \ {r}
      BY <1>2, <1>3, <2>2 DEF TypeOK
    <3>2. /\ row[pending[c]] = "pending"
          /\ \A d \in Conn \ {c} : pending[d] # pending[c]
      BY <3>1 DEF RowInv, PendingInv
    <3> QED
      BY <1>2, <3>1, <3>2
  <2> QED
    BY <2>1, <2>2
<1>5. SelectInv'
  <2> SUFFICES ASSUME NEW u \in Thread, pc'[u] = "select"
               PROVE  pending'[inner[u]] = None
    BY DEF SelectInv
  <2>1. u # t /\ pc[u] = "select"
    BY <1>2
  <2>2. inner[u] = cached[u] /\ cached[u] # None /\ pending[inner[u]] = None
    BY <2>1 DEF ConnInv, CallsShareConnection, HasConnection, InLoad, LoadLabel,
                RowInv, SelectInv
  <2>3. inner[u] \in Conn \ {x}
    BY <1>1, <2>1, <2>2 DEF TypeOK
  <2> QED
    BY <1>2, <2>2, <2>3
<1>6. CustomerInv'
  <2> SUFFICES ASSUME NEW u \in Thread PROVE (Found(u))'
    BY DEF CustomerInv
  <2>1. Found(u) /\ id[u] \in Row \cup {None} /\ customer[u] \in Row \cup {None}
    BY DEF RowInv, CustomerInv, TypeOK
  <2>2. CASE u = t
    <3>1. customer[u] = None
      BY <2>1, <2>2 DEF Found, Late
    <3> QED
      BY <3>1 DEF Found
  <2>3. CASE u # t
    BY <1>2, <2>1, <2>3 DEF Found
  <2> QED
    BY <2>2, <2>3
<1>7. OpenIsCached'
  BY DEF RowInv, OpenIsCached
<1>8. PendingIsSaved'
  <2> SUFFICES ASSUME NEW c \in Conn, status[c] = "open", pending'[c] # None
               PROVE  \E u \in Thread : (Holds(u, c))'
    BY DEF PendingIsSaved
  <2>1. CASE c = x
    <3>1. (Holds(t, c))'
      BY <1>2, <2>1 DEF Holds, InSave, SaveLabel
    <3> QED
      BY <3>1
  <2>2. CASE c # x
    <3>1. PICK u \in Thread : Holds(u, c)
      BY <1>2, <2>2 DEF RowInv, PendingIsSaved
    <3>2. u # t
      BY <2>2, <3>1 DEF Holds
    <3>3. (Holds(u, c))'
      BY <1>2, <2>2, <3>1, <3>2 DEF Holds, InSave
    <3> QED
      BY <3>3
  <2> QED
    BY <2>1, <2>2
<1>9. EndedIsSettled'
  BY <1>1, <1>2 DEF RowInv, EndedIsSettled
<1> QED
  BY <1>4, <1>5, <1>6, <1>7, <1>8, <1>9 DEF RowInv

\* the shape of SettlingStep for a step of t that opens and gives up nothing
LEMMA CalmStep ==
  ASSUME TypeOK, TypeOK', ConnInv, RowInv, NEW t \in Thread,
         UNCHANGED <<status, cached, outer, inner>>,
         \A u \in Thread \ {t} : /\ pc'[u] = pc[u] /\ nested'[u] = nested[u]
                                 /\ id'[u] = id[u] /\ customer'[u] = customer[u],
         \/ UNCHANGED <<row, pending>>
         \/ \E c \in Conn, fate \in {"committed", "undone"} : Settle(c, fate),
         InSave(t) => (InSave(t))' /\ id'[t] = id[t],
         pc'[t] = "select" => pending'[inner[t]] = None,
         (Found(t))'
  PROVE  RowInv'
<1>1. /\ \A c \in Conn : pending'[c] \in {pending[c], None}
      /\ \A r \in Row : \/ row'[r] = row[r]
                        \/ \E c \in Conn : pending[c] = r /\ pending'[c] = None
  <2>1. CASE UNCHANGED <<row, pending>>
    BY <2>1
  <2>2. ASSUME NEW c \in Conn, NEW fate \in {"committed", "undone"}, Settle(c, fate)
        PROVE  /\ \A d \in Conn : pending'[d] \in {pending[d], None}
               /\ \A r \in Row : \/ row'[r] = row[r]
                                 \/ \E d \in Conn : pending[d] = r /\ pending'[d] = None
    BY <2>2, SettleParts
  <2> QED
    BY <2>1, <2>2
<1> QED
  BY <1>1, SettlingStep

LEMMA StepRows ==
  TypeOK /\ TypeOK' /\ DepthCountsFrames /\ ConnInv /\ RowInv /\ [Next]_vars => RowInv'
<1> SUFFICES ASSUME TypeOK, TypeOK', DepthCountsFrames, ConnInv, RowInv, [Next]_vars
             PROVE  RowInv'
  OBVIOUS
<1>0. \A t \in Thread : Found(t)
  BY DEF RowInv, CustomerInv
<1>1. ASSUME NEW t \in Thread, SaveCustomer(t) \/ \E r \in Row : GetCustomerById(t, r)
      PROVE  RowInv'
  <2>1. /\ UNCHANGED <<status, cached, outer, inner, row, pending>>
        /\ pc[t] = "idle" /\ pc'[t] \in {"saveOpen", "loadOpen"} /\ customer'[t] = None
    BY <1>1 DEF SaveCustomer, GetCustomerById, Goto, TypeOK, db
  <2>2. \A u \in Thread \ {t} : /\ pc'[u] = pc[u] /\ nested'[u] = nested[u]
                                /\ id'[u] = id[u] /\ customer'[u] = customer[u]
    BY <1>1 DEF SaveCustomer, GetCustomerById, Goto, TypeOK
  <2>3. ~InSave(t)
    BY <2>1 DEF InSave, SaveLabel, LoadLabel
  <2>4. (Found(t))'
    BY <2>1 DEF Found
  <2> QED
    BY <2>1, <2>2, <2>3, <2>4, CalmStep
<1>2. ASSUME NEW t \in Thread, Keys(t) PROVE RowInv'
  <2>1. /\ UNCHANGED <<status, cached, outer, inner, row, pending, id, customer>>
        /\ pc[t] = "keys"
        /\ pc'[t] \in {"saveClose", "rollback"} \/ (pc'[t] = "loadOpen" /\ nested'[t])
        /\ \A u \in Thread \ {t} : pc'[u] = pc[u] /\ nested'[u] = nested[u]
    <3>1. UNCHANGED <<status, cached, outer, inner, row, pending, id, customer>> /\ pc[t] = "keys"
      BY <1>2 DEF Keys, db
    <3>2. \E x \in {"saveClose", "loadOpen", "rollback"} : Goto(t, x) /\ (x = "loadOpen" => nested'[t])
      BY <1>2 DEF Keys, TypeOK
    <3>3. \A u \in Thread \ {t} : pc'[u] = pc[u] /\ nested'[u] = nested[u]
      BY <1>2 DEF Keys, Goto, TypeOK
    <3> QED
      BY <3>1, <3>2, <3>3 DEF Goto, TypeOK
  <2>2. (InSave(t))'
    BY <2>1 DEF InSave, SaveLabel, LoadLabel
  <2>3. customer[t] = None
    BY <1>0, <2>1 DEF Found, Late
  <2>4. (Found(t))'
    BY <2>1, <2>3 DEF Found
  <2> QED
    BY <2>1, <2>2, <2>4, CalmStep
<1>3. ASSUME NEW t \in Thread, SaveAuto(t) \/ KeysClose(t) PROVE RowInv'
  <2>1. /\ UNCHANGED <<status, cached, outer, inner, row, pending, id, customer, nested>>
        /\ pc[t] \in {"saveAuto", "keysClose"}
    BY <1>3 DEF SaveAuto, KeysClose, db, locals
  <2>2. PICK l \in {"insert", "rollback", "saveClose"} :
          Goto(t, l) /\ (l = "insert" => pc[t] = "saveAuto")
    BY <1>3 DEF SaveAuto, KeysClose
  <2>3. pc'[t] = l /\ \A u \in Thread \ {t} : pc'[u] = pc[u]
    BY <2>2 DEF Goto, TypeOK
  <2>4. (InSave(t))'
    BY <2>3 DEF InSave, SaveLabel
  <2>5. (Found(t))'
    BY <1>0, <2>1, <2>2, <2>3 DEF Found, Late
  <2> QED
    BY <2>1, <2>3, <2>4, <2>5, CalmStep
<1>4. ASSUME NEW t \in Thread, Insert(t) PROVE RowInv'
  <2>1. CASE UNCHANGED <<row, pending, id>> /\ Goto(t, "rollback")
    <3>1. /\ UNCHANGED <<status, cached, outer, inner, nested, customer>>
          /\ pc[t] = "insert" /\ pc'[t] = "rollback"
          /\ \A u \in Thread \ {t} : pc'[u] = pc[u]
      BY <1>4, <2>1 DEF Insert, Goto, TypeOK
    <3>2. (InSave(t))' /\ (Found(t))'
      BY <1>0, <2>1, <3>1 DEF InSave, SaveLabel, Found, Late
    <3> QED
      BY <2>1, <3>1, <3>2, CalmStep
  <2>2. CASE \E r \in Row : /\ row[r] = "free"
                           /\ row' = [row EXCEPT ![r] = "pending"]
                           /\ pending' = [pending EXCEPT ![outer[t]] = r]
                           /\ id' = [id EXCEPT ![t] = r]
                           /\ Goto(t, "keys")
    BY <1>4, <2>2, InsertStep DEF Insert
  <2> QED
    BY <1>4, <2>1, <2>2 DEF Insert
<1>5. ASSUME NEW t \in Thread, Rollback(t) PROVE RowInv'
  <2>1. /\ UNCHANGED <<status, cached, outer, inner, nested, id>>
        /\ pc[t] = "rollback" /\ pc'[t] = "saveClose" /\ customer'[t] = None
        /\ \A u \in Thread \ {t} : pc'[u] = pc[u] /\ customer'[u] = customer[u]
        /\ Settle(outer[t], "undone") \/ UNCHANGED <<row, pending>>
    BY <1>5 DEF Rollback, Goto, TypeOK
  <2>2. outer[t] \in Conn
    BY <2>1 DEF ConnInv, CallsShareConnection, HasConnection, InSave, SaveLabel, TypeOK
  <2>3. (InSave(t))' /\ (Found(t))'
    BY <2>1 DEF InSave, SaveLabel, Found
  <2> QED
    BY <2>1, <2>2, <2>3, CalmStep
<1>6. ASSUME NEW t \in Thread, LoadAuto(t) PROVE RowInv'
  <2>1. /\ UNCHANGED <<status, cached, outer, inner, nested, id, customer>>
        /\ pc[t] = "loadAuto"
        /\ \/ Settle(inner[t], "committed") /\ Goto(t, "select")
           \/ /\ Settle(inner[t], "committed") \/ UNCHANGED <<row, pending>>
              /\ Goto(t, "loadClose")
    BY <1>6 DEF LoadAuto, locals
  <2>2. inner[t] \in Conn
    BY <2>1 DEF ConnInv, CallsShareConnection, HasConnection, InLoad, LoadLabel, TypeOK
  <2>3. /\ pc'[t] \in {"select", "loadClose"}
        /\ \A u \in Thread \ {t} : pc'[u] = pc[u]
        /\ pc'[t] = "select" => Settle(inner[t], "committed")
    BY <2>1 DEF Goto, TypeOK
  <2>4. pc'[t] = "select" => pending'[inner[t]] = None
    BY <2>2, <2>3, SettleParts
  <2>5. InSave(t) => (InSave(t))'
    BY <2>1, <2>3 DEF InSave, SaveLabel, LoadLabel
  <2>6. customer[t] = None
    BY <1>0, <2>1 DEF Found, Late
  <2>7. (Found(t))'
    BY <2>1, <2>6 DEF Found
  <2> QED
    BY <2>1, <2>2, <2>3, <2>4, <2>5, <2>7, CalmStep
<1>7. ASSUME NEW t \in Thread, Select(t) PROVE RowInv'
  <2>1. /\ UNCHANGED <<status, cached, outer, inner, nested, id, row, pending>>
        /\ pc[t] = "select" /\ pc'[t] = "loadClose"
        /\ \A u \in Thread \ {t} : pc'[u] = pc[u]
    BY <1>7 DEF Select, Goto, TypeOK, db
  <2>2. /\ \/ customer' = customer
           \/ /\ row[id[t]] = "committed" \/ pending[inner[t]] = id[t]
              /\ customer' = [customer EXCEPT ![t] = id[t]]
    BY <1>7 DEF Select
  <2>3. pending[inner[t]] = None /\ customer[t] = None
    BY <1>0, <2>1 DEF RowInv, SelectInv, Found, Late
  <2>4. \A u \in Thread \ {t} : customer'[u] = customer[u]
    BY <2>2 DEF TypeOK
  <2>5. customer'[t] # None => customer'[t] = id[t] /\ row[id[t]] = "committed"
    BY <2>2, <2>3 DEF TypeOK
  <2>6. InSave(t) => (InSave(t))'
    BY <2>1 DEF InSave, SaveLabel, LoadLabel
  <2>7. (Found(t))'
    BY <2>1, <2>5 DEF Found, Late
  <2> QED
    BY <2>1, <2>4, <2>6, <2>7, CalmStep
<1>8. ASSUME NEW t \in Thread, NEW c \in Conn \cup {None}, Open(t, c),
             UNCHANGED <<pending, row, nested, id, customer>>,
             \A u \in Thread \ {t} : /\ pc'[u] = pc[u] /\ outer'[u] = outer[u]
                                     /\ inner'[u] = inner[u],
             pc'[t] # "select", customer[t] = None,
             InSave(t) => (InSave(t))' /\ outer'[t] = outer[t]
      PROVE  RowInv'
  <2>1. /\ \A u \in Thread \ {t} : cached'[u] = cached[u]
        /\ \A x \in Conn :
             \/ status'[x] = status[x] /\ (cached[t] = x => cached'[t] = x)
             \/ status[x] = "unused" /\ status'[x] = "open" /\ cached'[t] = x
    BY <1>8, OpenParts, JdbcAssumption
  <2>2. (Found(t))'
    BY <1>8 DEF Found
  <2> QED
    BY <1>8, <2>1, <2>2, SettlingStep
<1>9. ASSUME NEW t \in Thread, SaveOpen(t) PROVE RowInv'
  <2>1. PICK c \in Conn \cup {None} :
          /\ Open(t, c) /\ outer' = [outer EXCEPT ![t] = c]
          /\ Goto(t, IF c = None THEN "saveClose" ELSE "saveAuto")
    BY <1>9 DEF SaveOpen
  <2>2. /\ UNCHANGED <<pending, row, nested, id, customer, inner>> /\ pc[t] = "saveOpen"
        /\ pc'[t] # "select"
        /\ \A u \in Thread \ {t} : pc'[u] = pc[u] /\ outer'[u] = outer[u]
    BY <1>9, <2>1 DEF SaveOpen, Goto, TypeOK
  <2>3. ~InSave(t) /\ customer[t] = None
    BY <1>0, <2>2 DEF InSave, SaveLabel, LoadLabel, Found, Late
  <2> QED
    BY <1>8, <2>1, <2>2, <2>3
<1>10. ASSUME NEW t \in Thread, LoadOpen(t) PROVE RowInv'
  <2>1. PICK c \in Conn \cup {None} :
          /\ Open(t, c) /\ inner' = [inner EXCEPT ![t] = c]
          /\ Goto(t, IF c = None THEN "loadClose" ELSE "loadAuto")
    BY <1>10 DEF LoadOpen
  <2>2. /\ UNCHANGED <<pending, row, nested, id, customer, outer>> /\ pc[t] = "loadOpen"
        /\ pc'[t] \in {"loadClose", "loadAuto"}
        /\ \A u \in Thread \ {t} : pc'[u] = pc[u] /\ inner'[u] = inner[u]
    BY <1>10, <2>1 DEF LoadOpen, Goto, TypeOK
  <2>3. InSave(t) => (InSave(t))'
    BY <2>2 DEF InSave, SaveLabel, LoadLabel
  <2>4. customer[t] = None
    BY <1>0, <2>2 DEF Found, Late
  <2> QED
    BY <1>8, <2>1, <2>2, <2>3, <2>4
\* a step that closes the connection, or has none to close
<1>11. ASSUME NEW t \in Thread, Close(t), depth[t] = 1, pc'[t] = "idle",
              UNCHANGED <<nested, id, customer>>,
              \A u \in Thread \ {t} : /\ pc'[u] = pc[u] /\ outer'[u] = outer[u]
                                      /\ inner'[u] = inner[u],
              InSave(t) => outer[t] = cached[t], pc[t] \in Late
       PROVE  RowInv'
  <2> DEFINE x == cached[t]
  <2>1. x # None => x \in Conn
    BY DEF TypeOK
  <2>2. /\ \A u \in Thread \ {t} : cached'[u] = cached[u]
        /\ \A c \in Conn :
             \/ status'[c] = status[c] /\ (cached[t] = c => cached'[t] = c)
             \/ status[c] = "unused" /\ status'[c] = "open" /\ cached'[t] = c
             \/ /\ status'[c] \in {"closed", "leaked"}
                /\ status'[c] = "closed" => pending'[c] = None
    BY <1>11, CloseParts, JdbcAssumption
  <2>3. /\ \A c \in Conn : pending'[c] \in {pending[c], None}
        /\ \A r \in Row : \/ row'[r] = row[r]
                          \/ \E c \in Conn : pending[c] = r /\ pending'[c] = None
    <3>1. CASE x = None
      BY <1>11, <3>1, CloseParts
    <3>2. CASE x # None
      <4>1. CASE UNCHANGED <<row, pending>>
        BY <4>1
      <4>2. CASE /\ pending'[x] = None
                 /\ \A r \in Row : r # pending[x] => row'[r] = row[r]
        <5>1. \A c \in Conn \ {x} : pending'[c] = pending[c]
          BY <1>11, <3>2, CloseParts
        <5> QED
          BY <2>1, <3>2, <4>2, <5>1
      <4> QED
        BY <1>11, <3>2, <4>1, <4>2, CloseParts
    <3> QED
      BY <3>1, <3>2
  <2>4. (Found(t))'
    <3> SUFFICES ASSUME customer[t] # None
                 PROVE  customer[t] = id[t] /\ row'[id[t]] = "committed"
      BY <1>11 DEF Found, Late
    <3>1. customer[t] = id[t] /\ row[id[t]] = "committed" /\ id[t] \in Row
      BY <1>0 DEF Found, TypeOK
    <3>2. \A c \in Conn : pending[c] # id[t]
      BY <3>1, JdbcAssumption DEF RowInv, PendingInv
    <3> QED
      BY <2>3, <3>1, <3>2
  <2>5. InSave(t) => (outer[t] \in Conn => status'[outer[t]] # "open")
    BY <1>11, CloseParts, JdbcAssumption
  <2> QED
    BY <1>11, <2>2, <2>3, <2>4, <2>5, SettlingStep
<1>12. ASSUME NEW t \in Thread, SaveClose(t) PROVE RowInv'
  <2>1. /\ Close(t) /\ UNCHANGED <<nested, inner, id, customer>>
        /\ pc[t] = "saveClose" /\ pc'[t] = "idle"
        /\ \A u \in Thread \ {t} : pc'[u] = pc[u] /\ outer'[u] = outer[u]
    BY <1>12 DEF SaveClose, Goto, TypeOK
  <2>2. depth[t] = 1 /\ (InSave(t) => outer[t] = cached[t]) /\ pc[t] \in Late
    BY <2>1 DEF DepthCountsFrames, Frames, ConnInv, CallsShareConnection, Late
  <2> QED
    BY <1>11, <2>1, <2>2
<1>13. ASSUME NEW t \in Thread, LoadClose(t) PROVE RowInv'
  <2>1. /\ Close(t) /\ UNCHANGED <<nested, outer, id, customer>>
        /\ pc[t] = "loadClose" /\ pc'[t] = IF nested[t] THEN "keysClose" ELSE "idle"
        /\ \A u \in Thread \ {t} : pc'[u] = pc[u] /\ inner'[u] = inner[u]
    BY <1>13 DEF LoadClose, Goto, TypeOK
  <2>2. /\ depth[t] = IF nested[t] THEN 2 ELSE 1
        /\ InSave(t) => outer[t] = cached[t]
        /\ pc[t] \in Late
    BY <2>1 DEF DepthCountsFrames, Frames, ConnInv, CallsShareConnection, Late
  <2>3. CASE ~nested[t]
    BY <1>11, <2>1, <2>2, <2>3
  <2>4. CASE nested[t]
    <3>1. /\ UNCHANGED <<status, row, pending, cached>>
      BY <2>1, <2>2, <2>4, CloseParts
    <3>2. pc'[t] = "keysClose" /\ (InSave(t))'
      BY <2>1, <2>4 DEF InSave, SaveLabel
    <3>3. (Found(t))'
      BY <1>0, <2>1, <3>1, <3>2 DEF Found, Late
    <3> QED
      BY <2>1, <3>1, <3>2, <3>3, SettlingStep
  <2> QED
    BY <2>3, <2>4
<1>14. CASE UNCHANGED vars
  <2>1. UNCHANGED <<status, pending, row, cached, pc, nested, outer, inner, id, customer>>
    BY <1>14 DEF vars, db, locals
  <2> QED
    BY <2>1 DEF RowInv, PendingInv, SelectInv, CustomerInv, Found, OpenIsCached,
       PendingIsSaved, EndedIsSettled, Holds, InSave
<1> QED
  BY <1>1, <1>2, <1>3, <1>4, <1>5, <1>6, <1>7, <1>9, <1>10, <1>12, <1>13, <1>14
     DEF Next, Step

LEMMA InitRows == Init => RowInv
  BY DEF Init, RowInv, PendingInv, SelectInv, CustomerInv, Found, OpenIsCached,
         PendingIsSaved, EndedIsSettled

LEMMA RowInvAlways == Spec => []RowInv
<1>1. TypeOK /\ TypeOK' /\ DepthCountsFrames /\ ConnInv /\ RowInv /\ [Next]_vars
        => RowInv'
  BY StepRows
<1>2. TypeOK /\ DepthCountsFrames /\ ConnInv /\ [Next]_vars => ConnInv'
  BY StepConn
<1> QED
  BY <1>1, <1>2, InitRows, InitConn, JdbcTypeOK, DepthIsFrames, PTL DEF Spec

\* An open connection has a thread, and a row pending on it belongs to the
\* saveCustomer that uses it (saveCustomer, closeThreadConnection).
THEOREM OpenConnectionIsHeld == Spec => []OpenIsHeld
<1>1. RowInv => OpenIsHeld
  BY RowInvImplies
<1> QED
  BY <1>1, RowInvAlways, PTL

\* A customer that is returned is committed, wherever the driver fails
\* (saveCustomer, getCustomerById).
THEOREM ReturnedCustomerIsCommitted == Spec => []ReturnedIsCommitted
<1>1. RowInv => ReturnedIsCommitted
  BY RowInvImplies
<1> QED
  BY <1>1, RowInvAlways, PTL
=============================================================================
