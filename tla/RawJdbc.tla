------------------------------ MODULE RawJdbc -------------------------------
(***************************************************************************)
(* RawJdbcCustomerRepository of the entity-basics sample: saveCustomer and *)
(* getCustomerById, called by several threads, with the connection that    *)
(* each thread keeps in a ThreadLocal beside the depth of its calls.       *)
(* saveCustomer inserts a row in a transaction and calls getCustomerById,  *)
(* which opens the same connection again and turns auto-commit on.         *)
(* The data source and the database are external: any call of theirs may   *)
(* throw an SQLException, a transaction is committed by turning            *)
(* auto-commit on, and whether close commits or undoes what is pending is  *)
(* left to the driver.  Closing a statement changes nothing here.          *)
(***************************************************************************)
EXTENDS Integers, FiniteSets

CONSTANTS
  Thread,
  Conn,      \* connections the data source can create (bound)
  Row,       \* rows the database can insert (bound)
  None       \* null

ASSUME JdbcAssumption == None \notin Conn \cup Row

VARIABLES
  status,    \* of every connection
  auto,      \* auto-commit of every connection
  pending,   \* the row a connection has inserted and not committed, or None
  row,       \* what has become of every row
  cached,    \* connectionThreadLocal
  depth,     \* depthThreadLocal, 0 for null
  pc,        \* label of every thread
  nested,    \* getCustomerById was called by saveCustomer
  outer,     \* connection of saveCustomer
  inner,     \* connection of getCustomerById
  id,        \* id of the row inserted or looked for
  customer   \* what the call is going to return, None for null or an exception

db == <<status, auto, pending, row>>
locals == <<nested, outer, inner, id, customer>>
vars == <<db, cached, depth, pc, locals>>

SaveLabel == {"saveOpen", "saveAuto", "insert", "keys", "keysClose", "rollback",
              "saveClose"}
LoadLabel == {"loadOpen", "loadAuto", "select", "loadClose"}
Label == {"idle"} \cup SaveLabel \cup LoadLabel

TypeOK ==
  /\ status \in [Conn -> {"unused", "open", "closed", "leaked"}]
  /\ auto \in [Conn -> BOOLEAN] /\ pending \in [Conn -> Row \cup {None}]
  /\ row \in [Row -> {"free", "pending", "committed", "undone"}]
  /\ cached \in [Thread -> Conn \cup {None}] /\ depth \in [Thread -> Nat]
  /\ pc \in [Thread -> Label] /\ nested \in [Thread -> BOOLEAN]
  /\ outer \in [Thread -> Conn \cup {None}]
  /\ inner \in [Thread -> Conn \cup {None}]
  /\ id \in [Thread -> Row \cup {None}]
  /\ customer \in [Thread -> Row \cup {None}]

Init ==
  /\ status = [c \in Conn |-> "unused"] /\ auto = [c \in Conn |-> TRUE]
  /\ pending = [c \in Conn |-> None] /\ row = [r \in Row |-> "free"]
  /\ cached = [t \in Thread |-> None] /\ depth = [t \in Thread |-> 0]
  /\ pc = [t \in Thread |-> "idle"] /\ nested = [t \in Thread |-> FALSE]
  /\ outer = [t \in Thread |-> None] /\ inner = [t \in Thread |-> None]
  /\ id = [t \in Thread |-> None] /\ customer = [t \in Thread |-> None]

Goto(t, label) == pc' = [pc EXCEPT ![t] = label]

-----------------------------------------------------------------------------
(***************************************************************************)
(* The connection of the thread.                                           *)
(***************************************************************************)
\* openThreadConnection returns c; getConnection may fail, and the depth is
\* incremented all the same
Open(t, c) ==
  /\ \/ cached[t] # None /\ c = cached[t] /\ UNCHANGED <<status, cached>>
     \/ /\ cached[t] = None /\ c \in Conn /\ status[c] = "unused"
        /\ status' = [status EXCEPT ![c] = "open"]
        /\ cached' = [cached EXCEPT ![t] = c]
     \/ cached[t] = None /\ c = None /\ UNCHANGED <<status, cached>>
  /\ depth' = [depth EXCEPT ![t] = @ + 1]

\* connection c ends its transaction: its row is committed or undone
Settle(c, fate) ==
  /\ row' = [r \in Row |-> IF r = pending[c] THEN fate ELSE row[r]]
  /\ pending' = [pending EXCEPT ![c] = None]

\* mutant: every call clears the ThreadLocal
CloseMutant(t) ==
  /\ depth' = [depth EXCEPT ![t] = @ - 1]
  /\ cached' = [cached EXCEPT ![t] = None]
  /\ IF depth[t] = 1 /\ cached[t] # None
     THEN \/ /\ status' = [status EXCEPT ![cached[t]] = "closed"]
             /\ \E fate \in {"committed", "undone"} : Settle(cached[t], fate)
          \/ /\ status' = [status EXCEPT ![cached[t]] = "leaked"]
             /\ UNCHANGED <<row, pending>>
     ELSE UNCHANGED <<status, row, pending>>
  /\ UNCHANGED auto

\* closeThreadConnection; close may fail, and the ThreadLocal is cleared all the
\* same
Close(t) ==
  /\ depth' = [depth EXCEPT ![t] = @ - 1]
  /\ IF depth[t] = 1 /\ cached[t] # None
     THEN /\ cached' = [cached EXCEPT ![t] = None]
          /\ \/ /\ status' = [status EXCEPT ![cached[t]] = "closed"]
                /\ \E fate \in {"committed", "undone"} : Settle(cached[t], fate)
             \/ /\ status' = [status EXCEPT ![cached[t]] = "leaked"]
                /\ UNCHANGED <<row, pending>>
     ELSE UNCHANGED <<cached, status, row, pending>>
  /\ UNCHANGED auto

-----------------------------------------------------------------------------
(***************************************************************************)
(* saveCustomer.                                                           *)
(***************************************************************************)
SaveCustomer(t) ==
  /\ pc[t] = "idle"
  /\ Goto(t, "saveOpen")
  /\ nested' = [nested EXCEPT ![t] = FALSE]
  /\ id' = [id EXCEPT ![t] = None] /\ customer' = [customer EXCEPT ![t] = None]
  /\ UNCHANGED <<db, cached, depth, outer, inner>>

\* without a connection, setAutoCommit throws a NullPointerException, which
\* only the finally block sees
SaveOpen(t) ==
  /\ pc[t] = "saveOpen"
  /\ \E c \in Conn \cup {None} :
       /\ Open(t, c)
       /\ outer' = [outer EXCEPT ![t] = c]
       /\ Goto(t, IF c = None THEN "saveClose" ELSE "saveAuto")
  /\ UNCHANGED <<auto, pending, row, nested, inner, id, customer>>

\* setAutoCommit(false)
SaveAuto(t) ==
  /\ pc[t] = "saveAuto"
  /\ \/ auto' = [auto EXCEPT ![outer[t]] = FALSE] /\ Goto(t, "insert")
     \/ UNCHANGED auto /\ Goto(t, "rollback")
  /\ UNCHANGED <<status, pending, row, cached, depth, locals>>

\* executeUpdate
Insert(t) ==
  /\ pc[t] = "insert"
  /\ \/ \E r \in Row : /\ row[r] = "free"
                       /\ row' = [row EXCEPT ![r] = "pending"]
                       /\ pending' = [pending EXCEPT ![outer[t]] = r]
                       /\ id' = [id EXCEPT ![t] = r]
                       /\ Goto(t, "keys")
     \/ UNCHANGED <<row, pending, id>> /\ Goto(t, "rollback")
  /\ UNCHANGED <<status, auto, cached, depth, nested, outer, inner, customer>>

\* getGeneratedKeys: a key, no key (the NullPointerException of a null result
\* set included), or an SQLException
Keys(t) ==
  /\ pc[t] = "keys"
  /\ \E label \in {"loadOpen", "saveClose", "rollback"} :
       /\ Goto(t, label)
       /\ nested' = [nested EXCEPT ![t] = label = "loadOpen"]
  /\ UNCHANGED <<db, cached, depth, outer, inner, id, customer>>

\* rsForKeys.close, after getCustomerById
KeysClose(t) ==
  /\ pc[t] = "keysClose"
  /\ Goto(t, "saveClose") \/ Goto(t, "rollback")
  /\ UNCHANGED <<db, cached, depth, locals>>

\* the catch clause; rollback of a connection in auto-commit mode does nothing
Rollback(t) ==
  /\ pc[t] = "rollback"
  /\ Settle(outer[t], "undone") \/ UNCHANGED <<row, pending>>
  /\ customer' = [customer EXCEPT ![t] = None]
  /\ Goto(t, "saveClose")
  /\ UNCHANGED <<status, auto, cached, depth, nested, outer, inner, id>>

\* the finally clause
SaveClose(t) ==
  /\ pc[t] = "saveClose"
  /\ Close(t)
  /\ outer' = [outer EXCEPT ![t] = None]
  /\ Goto(t, "idle")
  /\ UNCHANGED <<nested, inner, id, customer>>

-----------------------------------------------------------------------------
(***************************************************************************)
(* getCustomerById.                                                        *)
(***************************************************************************)
GetCustomerById(t, r) ==
  /\ pc[t] = "idle"
  /\ Goto(t, "loadOpen")
  /\ nested' = [nested EXCEPT ![t] = FALSE]
  /\ id' = [id EXCEPT ![t] = r] /\ customer' = [customer EXCEPT ![t] = None]
  /\ UNCHANGED <<db, cached, depth, outer, inner>>

LoadOpen(t) ==
  /\ pc[t] = "loadOpen"
  /\ \E c \in Conn \cup {None} :
       /\ Open(t, c)
       /\ inner' = [inner EXCEPT ![t] = c]
       /\ Goto(t, IF c = None THEN "loadClose" ELSE "loadAuto")
  /\ UNCHANGED <<auto, pending, row, nested, outer, id, customer>>

\* mutant: the connection is left in the mode it is in
LoadAutoMutant(t) ==
  /\ pc[t] = "loadAuto"
  /\ Goto(t, "select") \/ Goto(t, "loadClose")
  /\ UNCHANGED <<db, cached, depth, locals>>

\* setAutoCommit(true) commits; when it throws, it may have done so
LoadAuto(t) ==
  /\ pc[t] = "loadAuto"
  /\ \/ /\ auto' = [auto EXCEPT ![inner[t]] = TRUE]
        /\ Settle(inner[t], "committed")
        /\ Goto(t, "select")
     \/ /\ UNCHANGED auto
        /\ Settle(inner[t], "committed") \/ UNCHANGED <<row, pending>>
        /\ Goto(t, "loadClose")
  /\ UNCHANGED <<status, cached, depth, locals>>

\* the query, which sees what is committed and what its connection inserted
Select(t) ==
  /\ pc[t] = "select"
  /\ \/ /\ \/ row[id[t]] = "committed"
           \/ pending[inner[t]] = id[t]
        /\ customer' = [customer EXCEPT ![t] = id[t]]
     \/ UNCHANGED customer
  /\ Goto(t, "loadClose")
  /\ UNCHANGED <<db, cached, depth, nested, outer, inner, id>>

LoadClose(t) ==
  /\ pc[t] = "loadClose"
  /\ Close(t)
  /\ inner' = [inner EXCEPT ![t] = None]
  /\ Goto(t, IF nested[t] THEN "keysClose" ELSE "idle")
  /\ UNCHANGED <<nested, outer, id, customer>>

-----------------------------------------------------------------------------
Step(t) == \/ SaveOpen(t) \/ SaveAuto(t) \/ Insert(t) \/ Keys(t) \/ KeysClose(t)
           \/ Rollback(t) \/ SaveClose(t)
           \/ LoadOpen(t) \/ LoadAuto(t) \/ Select(t) \/ LoadClose(t)

Next == \E t \in Thread :
  \/ SaveCustomer(t)
  \/ \E r \in Row : GetCustomerById(t, r)
  \/ Step(t)

\* a thread in a call goes on; calls of the driver return
Fairness == \A t \in Thread : WF_vars(Step(t))

Spec == Init /\ [][Next]_vars
FairSpec == Spec /\ Fairness

-----------------------------------------------------------------------------
(***************************************************************************)
(* Properties.                                                             *)
(***************************************************************************)
\* the calls that have opened the connection and not closed it
Frames(t) ==
  CASE pc[t] \in {"idle", "saveOpen"} -> 0
    [] pc[t] = "loadOpen" -> IF nested[t] THEN 1 ELSE 0
    [] pc[t] \in {"loadAuto", "select", "loadClose"} -> IF nested[t] THEN 2 ELSE 1
    [] OTHER -> 1

\* The depth is the number of calls that hold the connection, on every path
\* through the exceptions, and a thread between calls holds none
\* (openThreadConnection, closeThreadConnection, the finally clauses).
DepthCountsFrames ==
  \A t \in Thread : /\ depth[t] = Frames(t)
                    /\ depth[t] = 0 => cached[t] = None

\* The connection that a call uses is the one its thread has cached, it is open,
\* and no other thread has it: getCustomerById cannot close the connection of
\* saveCustomer under it (openThreadConnection, closeThreadConnection).
InSave(t) == pc[t] \in SaveLabel \ {"saveOpen"} \/ (pc[t] \in LoadLabel /\ nested[t])
InLoad(t) == pc[t] \in LoadLabel \ {"loadOpen"}
CallsShareConnection ==
  \A t \in Thread :
    /\ InSave(t) => outer[t] = cached[t]
    /\ InLoad(t) => inner[t] = cached[t]
    /\ cached[t] # None => status[cached[t]] = "open"
    /\ \A u \in Thread \ {t} : cached[t] # None => cached[u] # cached[t]

\* A connection that was obtained is open only while a thread has it, and one in
\* the hands of a thread has nothing pending but the row of the saveCustomer
\* that is under way (saveCustomer, closeThreadConnection).
OpenIsHeld ==
  \A c \in Conn :
    /\ status[c] = "open" => \E t \in Thread : cached[t] = c
    /\ status[c] = "open" /\ pending[c] # None =>
         \E t \in Thread : outer[t] = c /\ InSave(t) /\ id[t] = pending[c]
    /\ status[c] \in {"unused", "closed"} => pending[c] = None

\* A customer that is returned is committed, and saveCustomer returns the one it
\* has inserted; the caller can look it up from any thread (saveCustomer,
\* getCustomerById; what the test of the service asserts for one thread).
Returning(t) == pc[t] \in {"idle", "saveClose"} \/ (pc[t] = "loadClose" /\ ~nested[t])
ReturnedIsCommitted ==
  \A t \in Thread : Returning(t) /\ customer[t] # None =>
    customer[t] = id[t] /\ row[id[t]] = "committed"

\* Every call returns, and every connection that was obtained is closed, or its
\* close has failed (the finally clauses).
ConnectionIsReturned ==
  /\ \A t \in Thread : pc[t] # "idle" ~> pc[t] = "idle"
  /\ \A c \in Conn : status[c] = "open" ~> status[c] # "open"

=============================================================================
