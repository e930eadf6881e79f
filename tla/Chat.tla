-------------------------------- MODULE Chat --------------------------------
(***************************************************************************)
(* The stateful chat room of the DWR sample (Chat.java) together with the  *)
(* DWR outbound adapter its messages go through.                           *)
(*                                                                         *)
(* Every remote call runs on a servlet thread.  The three message channels *)
(* are direct channels, so the adapter runs on the thread that sends.  A   *)
(* thread has a label and local variables, and one action is one access to *)
(* state that another thread can see.  The accesses to the ArrayList       *)
(* chatMessages are those of java.util.ArrayList: add reads size, writes   *)
(* size, then stores the element; clear nulls the slots one by one and     *)
(* then writes size; the copy constructor reads size and then copies the   *)
(* slots.                                                                  *)
(***************************************************************************)
EXTENDS Naturals, Sequences, FiniteSets

CONSTANTS
  Thread,     \* servlet threads
  User,       \* handles under which people join
  Session,    \* DWR script sessions, one per page load
  Msg,        \* message texts; each is sent at most once
  None,       \* Java's null
  Ops,        \* the remote calls (and "close") that happen in this instance
  MaxJoins,   \* bound: calls of join per user
  MaxResets   \* bound: calls of reset

AllOps == {"join", "getUsers", "directMessage", "getChatMessages",
           "groupMessage", "logout", "reset", "close"}

ASSUME ChatAssumption ==
  /\ None \notin Thread \cup User \cup Session \cup Msg
  /\ Ops \subseteq AllOps
  /\ MaxJoins \in Nat /\ MaxResets \in Nat

VARIABLES
  users,      \* the ConcurrentHashMap users: handle to script session id
  usersLock,  \* holder of the monitor of users
  elements,   \* elementData of the ArrayList chatMessages
  size,       \* size of the ArrayList chatMessages
  linesLock,  \* holder of the monitor of chatMessages
  session,    \* life cycle of every script session
  pushed,     \* script calls queued at every script session, ever
  pc,         \* label of every servlet thread
  who,        \* argument: the user of the call
  what,       \* argument: the message text of the call
  target,     \* join: the caller's session; directMessage: the target header
  index,      \* slot claimed by add, slots cleared by reset, lines to copy
  copy,       \* lines copied so far by getChatMessages
  todo,       \* users or sessions that a loop has still to visit
  listed,     \* users collected so far by getUsers
  posted,     \* ghost: texts used in calls of groupMessage
  whispered,  \* ghost: texts used in calls of directMessage
  joins,      \* ghost: per user, sessions of its joins in lock order
  known,      \* ghost: users listed in some reply of getUsers
  resets      \* ghost: number of calls of reset

rosterVars == <<users, usersLock, joins>>
linesVars  == <<elements, size, linesLock>>
pageVars   == <<session, pushed>>
callVars   == <<posted, whispered, known, resets>>
args       == <<who, what, target>>
work       == <<index, copy, todo, listed>>
vars == <<rosterVars, linesVars, pageVars, callVars, pc, args, work>>

Label == {"idle", "join", "joinPut", "lookup", "append", "grow", "store",
          "route", "deliver", "snapshot", "copy", "lines", "walk", "roster",
          "logout", "clearUsers", "clearLines"}

Line == Msg \cup {None}

\* a function call pushed to a page: handleRoster carries a user,
\* handleMessage a text, handleDirectMessage a text (and, as a ghost, its
\* addressee)
ScriptCall == [user : User \cup {None}, msg : Line]

TypeOK ==
  /\ users \in [User -> Session \cup {None}]
  /\ usersLock \in Thread \cup {None}
  /\ elements \in Seq(Line)
  /\ size \in Nat
  /\ linesLock \in Thread \cup {None}
  /\ session \in [Session -> {"new", "open", "closed", "invalidated"}]
  /\ pushed \in [Session -> SUBSET ScriptCall]
  /\ pc \in [Thread -> Label]
  /\ who \in [Thread -> User \cup {None}]
  /\ what \in [Thread -> Line]
  /\ target \in [Thread -> Session \cup {None}]
  /\ index \in [Thread -> Nat]
  /\ copy \in [Thread -> Seq(Line)]
  /\ todo \in [Thread -> SUBSET (User \cup Session)]
  /\ listed \in [Thread -> SUBSET User]
  /\ posted \in SUBSET Msg
  /\ whispered \in SUBSET Msg
  /\ joins \in [User -> Seq(Session \cup {None})]
  /\ known \in SUBSET User
  /\ resets \in Nat
  /\ size <= Len(elements)
  /\ \A t \in Thread :
       /\ pc[t] \in {"join", "joinPut", "lookup"} => who[t] \in User
       /\ pc[t] \in {"walk", "clearUsers"} => todo[t] \subseteq User
       /\ pc[t] \in {"grow", "store"} => index[t] < Len(elements)
       /\ pc[t] = "copy" => index[t] <= Len(elements)

Init ==
  /\ users = [u \in User |-> None]
  /\ usersLock = None
  /\ elements = <<>>
  /\ size = 0
  /\ linesLock = None
  /\ session = [s \in Session |-> "new"]
  /\ pushed = [s \in Session |-> {}]
  /\ pc = [t \in Thread |-> "idle"]
  /\ who = [t \in Thread |-> None]
  /\ what = [t \in Thread |-> None]
  /\ target = [t \in Thread |-> None]
  /\ index = [t \in Thread |-> 0]
  /\ copy = [t \in Thread |-> <<>>]
  /\ todo = [t \in Thread |-> {}]
  /\ listed = [t \in Thread |-> {}]
  /\ posted = {}
  /\ whispered = {}
  /\ joins = [u \in User |-> <<>>]
  /\ known = {}
  /\ resets = 0

Open == {s \in Session : session[s] = "open"}

At(t, label) == pc[t] = label
Goto(t, label) == pc' = [pc EXCEPT ![t] = label]

\* the call is over: its local variables are gone
Return(t) ==
  /\ Goto(t, "idle")
  /\ who' = [who EXCEPT ![t] = None]
  /\ what' = [what EXCEPT ![t] = None]
  /\ target' = [target EXCEPT ![t] = None]
  /\ index' = [index EXCEPT ![t] = 0]
  /\ copy' = [copy EXCEPT ![t] = <<>>]
  /\ todo' = [todo EXCEPT ![t] = {}]
  /\ listed' = [listed EXCEPT ![t] = {}]

-----------------------------------------------------------------------------
(***************************************************************************)
(* Pages: a page load creates a script session; the session ends when the  *)
(* page goes away (external: the DWR servlet).                             *)
(***************************************************************************)
OpenPage(s) ==
  /\ session[s] = "new"
  /\ session' = [session EXCEPT ![s] = "open"]
  /\ UNCHANGED <<rosterVars, linesVars, pushed, callVars, pc, args, work>>

ClosePage(s) ==
  /\ "close" \in Ops
  /\ session[s] = "open"
  /\ session' = [session EXCEPT ![s] = "closed"]
  /\ UNCHANGED <<rosterVars, linesVars, pushed, callVars, pc, args, work>>

(***************************************************************************)
(* Arrival of a remote call on an idle thread, made by an open page.       *)
(***************************************************************************)
Arrive(t, op, label) ==
  /\ op \in Ops
  /\ At(t, "idle")
  /\ Open # {}
  /\ Goto(t, label)
  /\ UNCHANGED <<rosterVars, linesVars, pageVars, index, copy, listed>>

CallJoin(t) == \E u \in User, s \in Open :
  /\ Len(joins[u]) + Cardinality({r \in Thread : At(r, "join") /\ who[r] = u})
       < MaxJoins
  /\ Arrive(t, "join", "join")
  /\ who' = [who EXCEPT ![t] = u]
  /\ target' = [target EXCEPT ![t] = s]
  /\ UNCHANGED <<what, todo, callVars>>

CallGetUsers(t) ==
  /\ Arrive(t, "getUsers", "walk")
  /\ todo' = [todo EXCEPT ![t] = User]
  /\ UNCHANGED <<args, callVars>>

\* a page addresses only users its roster has listed (dwr.html, handles)
CallDirectMessage(t) == \E u \in known, m \in Msg \ (posted \cup whispered) :
  /\ Arrive(t, "directMessage", "lookup")
  /\ who' = [who EXCEPT ![t] = u]
  /\ what' = [what EXCEPT ![t] = m]
  /\ whispered' = whispered \cup {m}
  /\ UNCHANGED <<target, todo, posted, known, resets>>

CallGroupMessage(t) == \E m \in Msg \ (posted \cup whispered) :
  /\ Arrive(t, "groupMessage", "append")
  /\ what' = [what EXCEPT ![t] = m]
  /\ posted' = posted \cup {m}
  /\ UNCHANGED <<who, target, todo, whispered, known, resets>>

CallGetChatMessages(t) ==
  /\ Arrive(t, "getChatMessages", "snapshot")
  /\ UNCHANGED <<args, todo, callVars>>

CallLogout(t) == \E u \in User :
  /\ Arrive(t, "logout", "logout")
  /\ who' = [who EXCEPT ![t] = u]
  /\ UNCHANGED <<what, target, todo, callVars>>

CallReset(t) ==
  /\ resets < MaxResets
  /\ Arrive(t, "reset", "clearUsers")
  /\ todo' = [todo EXCEPT ![t] = User]
  /\ resets' = resets + 1
  /\ UNCHANGED <<args, posted, whispered, known>>

-----------------------------------------------------------------------------
(***************************************************************************)
(* join: under the monitor of users, drop the old entry and put the new    *)
(* one; then announce the user on rosterChannel.                           *)
(***************************************************************************)
\* mutant: join without the remove, so putIfAbsent keeps the old session
JoinRemoveMutant(t) ==
  /\ At(t, "join")
  /\ usersLock = None
  /\ usersLock' = t
  /\ joins' = [joins EXCEPT ![who[t]] = Append(@, target[t])]
  /\ Goto(t, "joinPut")
  /\ UNCHANGED <<users, linesVars, pageVars, callVars, args, work>>

JoinRemove(t) ==
  /\ At(t, "join")
  /\ usersLock = None
  /\ usersLock' = t
  /\ users' = [users EXCEPT ![who[t]] = None]
  /\ joins' = [joins EXCEPT ![who[t]] = Append(@, target[t])]
  /\ Goto(t, "joinPut")
  /\ UNCHANGED <<linesVars, pageVars, callVars, args, work>>

PutIfAbsent(u, s) ==
  users' = IF users[u] = None THEN [users EXCEPT ![u] = s] ELSE users

\* mutant: the monitor is not released
JoinPutMutant(t) ==
  /\ At(t, "joinPut")
  /\ PutIfAbsent(who[t], target[t])
  /\ Goto(t, "route")
  /\ target' = [target EXCEPT ![t] = None]
  /\ UNCHANGED <<usersLock, joins, linesVars, pageVars, callVars, who, what,
                 work>>

JoinPut(t) ==
  /\ At(t, "joinPut")
  /\ PutIfAbsent(who[t], target[t])
  /\ usersLock' = None
  /\ Goto(t, "route")
  /\ target' = [target EXCEPT ![t] = None]
  /\ UNCHANGED <<joins, linesVars, pageVars, callVars, who, what, work>>

(***************************************************************************)
(* getUsers: walk the map's key set, a weakly consistent iterator, without *)
(* the monitor.  The session id that follows the colon in each entry is    *)
(* left out: the page drops it (dwr.html, refreshRoster).                  *)
(***************************************************************************)
WalkKey(t) == \E u \in todo[t] :
  /\ At(t, "walk")
  /\ todo' = [todo EXCEPT ![t] = @ \ {u}]
  /\ listed' = IF users[u] = None THEN listed
               ELSE [listed EXCEPT ![t] = @ \cup {u}]
  /\ UNCHANGED <<rosterVars, linesVars, pageVars, callVars, pc, args, index,
                 copy>>

ReturnRoster(t) ==
  /\ At(t, "walk")
  /\ todo[t] = {}
  /\ known' = known \cup listed[t]
  /\ Return(t)
  /\ UNCHANGED <<rosterVars, linesVars, pageVars, posted, whispered, resets>>

(***************************************************************************)
(* directMessage: the session id is read without the monitor and becomes   *)
(* the target header; a null value leaves the header out.                  *)
(***************************************************************************)
\* mutant: directMessage builds the message without the target header
LookupMutant(t) ==
  /\ At(t, "lookup")
  /\ Goto(t, "route")
  /\ UNCHANGED <<rosterVars, linesVars, pageVars, callVars, args, work>>

Lookup(t) ==
  /\ At(t, "lookup")
  /\ Goto(t, "route")
  /\ target' = [target EXCEPT ![t] = users[who[t]]]
  /\ UNCHANGED <<rosterVars, linesVars, pageVars, callVars, who, what, work>>

(***************************************************************************)
(* logout: under the monitor of users, invalidate the user's session.      *)
(***************************************************************************)
Logout(t) ==
  LET s == users[who[t]] IN
  /\ At(t, "logout")
  /\ usersLock = None
  /\ session' = IF s \in Open THEN [session EXCEPT ![s] = "invalidated"]
                ELSE session
  /\ Return(t)
  /\ UNCHANGED <<rosterVars, linesVars, pushed, callVars>>

-----------------------------------------------------------------------------
(***************************************************************************)
(* groupMessage: chatMessages.add(msg) under the monitor of chatMessages,  *)
(* then send on messageChannel without it.                                 *)
(***************************************************************************)
EnsureCapacity ==
  elements' = IF size < Len(elements) THEN elements ELSE Append(elements, None)

\* mutant: add without the monitor
AddBeginMutant(t) ==
  /\ At(t, "append")
  /\ linesLock' = t
  /\ EnsureCapacity
  /\ index' = [index EXCEPT ![t] = size]
  /\ Goto(t, "grow")
  /\ UNCHANGED <<rosterVars, size, pageVars, callVars, args, copy, todo,
                 listed>>

AddBegin(t) ==  \* monitor enter, ensureCapacity(size + 1), read size
  /\ At(t, "append")
  /\ linesLock = None
  /\ linesLock' = t
  /\ EnsureCapacity
  /\ index' = [index EXCEPT ![t] = size]
  /\ Goto(t, "grow")
  /\ UNCHANGED <<rosterVars, size, pageVars, callVars, args, copy, todo,
                 listed>>

Grow(t) ==      \* size = index + 1
  /\ At(t, "grow")
  /\ size' = index[t] + 1
  /\ Goto(t, "store")
  /\ UNCHANGED <<rosterVars, elements, linesLock, pageVars, callVars, args,
                 work>>

\* mutant: send before the element is stored, which is then forgotten
StoreMutant(t) ==
  /\ At(t, "store")
  /\ linesLock' = None
  /\ Goto(t, "route")
  /\ index' = [index EXCEPT ![t] = 0]
  /\ UNCHANGED <<rosterVars, elements, size, pageVars, callVars, args, copy,
                 todo, listed>>

Store(t) ==     \* elementData[index] = msg, monitor exit
  /\ At(t, "store")
  /\ elements' = [elements EXCEPT ![index[t] + 1] = what[t]]
  /\ linesLock' = None
  /\ Goto(t, "route")
  /\ index' = [index EXCEPT ![t] = 0]
  /\ UNCHANGED <<rosterVars, size, pageVars, callVars, args, copy, todo,
                 listed>>

(***************************************************************************)
(* getChatMessages: new ArrayList(chatMessages), without the monitor.      *)
(***************************************************************************)
\* mutant: the copy takes one slot more than size
SnapshotMutant(t) ==
  /\ At(t, "snapshot")
  /\ index' = [index EXCEPT ![t] = IF size < Len(elements) THEN size + 1
                                   ELSE size]
  /\ Goto(t, "copy")
  /\ UNCHANGED <<rosterVars, linesVars, pageVars, callVars, args, copy, todo,
                 listed>>

Snapshot(t) ==
  /\ At(t, "snapshot")
  /\ index' = [index EXCEPT ![t] = size]
  /\ Goto(t, "copy")
  /\ UNCHANGED <<rosterVars, linesVars, pageVars, callVars, args, copy, todo,
                 listed>>

Copy(t) ==
  /\ At(t, "copy")
  /\ Len(copy[t]) < index[t]
  /\ copy' = [copy EXCEPT ![t] = Append(@, elements[Len(@) + 1])]
  /\ UNCHANGED <<rosterVars, linesVars, pageVars, callVars, pc, args, index,
                 todo, listed>>

ReturnLines(t) ==
  /\ At(t, "copy")
  /\ Len(copy[t]) = index[t]
  /\ Return(t)
  /\ UNCHANGED <<rosterVars, linesVars, pageVars, callVars>>

(***************************************************************************)
(* reset: users.clear() entry by entry (the map's segments are cleared one *)
(* at a time), then chatMessages.clear(); no monitor is held.              *)
(***************************************************************************)
ClearUser(t) == \E u \in todo[t] :
  /\ At(t, "clearUsers")
  /\ users' = [users EXCEPT ![u] = None]
  /\ todo' = [todo EXCEPT ![t] = @ \ {u}]
  /\ UNCHANGED <<usersLock, joins, linesVars, pageVars, callVars, pc, args,
                 index, copy, listed>>

UsersCleared(t) ==
  /\ At(t, "clearUsers")
  /\ todo[t] = {}
  /\ Goto(t, "clearLines")
  /\ UNCHANGED <<rosterVars, linesVars, pageVars, callVars, args, work>>

ClearLine(t) ==
  /\ At(t, "clearLines")
  /\ index[t] < size
  /\ elements' = [elements EXCEPT ![index[t] + 1] = None]
  /\ index' = [index EXCEPT ![t] = @ + 1]
  /\ UNCHANGED <<rosterVars, size, linesLock, pageVars, callVars, pc, args,
                 copy, todo, listed>>

ReturnReset(t) ==
  /\ At(t, "clearLines")
  /\ index[t] >= size
  /\ size' = 0
  /\ Return(t)
  /\ UNCHANGED <<rosterVars, elements, linesLock, pageVars, callVars>>

-----------------------------------------------------------------------------
(***************************************************************************)
(* AsyncHttpRequestHandlingMessageAdapter.handleMessage: choose the script *)
(* sessions, then queue the function call at each of them.  A target that  *)
(* no longer exists is a null in the collection: addFunctionCall throws,   *)
(* and the remote call fails.                                              *)
(***************************************************************************)
Recipients(s) == IF s = None THEN Open ELSE {s} \cap Open

Route(t) ==
  /\ At(t, "route")
  /\ Recipients(target[t]) # {}
  /\ Goto(t, "deliver")
  /\ todo' = [todo EXCEPT ![t] = Recipients(target[t])]
  /\ UNCHANGED <<rosterVars, linesVars, pageVars, callVars, args, index, copy,
                 listed>>

RouteToNobody(t) ==
  /\ At(t, "route")
  /\ Recipients(target[t]) = {}
  /\ Return(t)
  /\ UNCHANGED <<rosterVars, linesVars, pageVars, callVars>>

Push(t, s) ==
  pushed' = IF s \in Open
            THEN [pushed EXCEPT ![s] = @ \cup {[user |-> who[t],
                                                msg |-> what[t]]}]
            ELSE pushed

Deliver(t) == \E s \in todo[t] :
  /\ At(t, "deliver")
  /\ Push(t, s)
  /\ todo' = [todo EXCEPT ![t] = @ \ {s}]
  /\ UNCHANGED <<rosterVars, linesVars, session, callVars, pc, args, index,
                 copy, listed>>

Delivered(t) ==
  /\ At(t, "deliver")
  /\ todo[t] = {}
  /\ Return(t)
  /\ UNCHANGED <<rosterVars, linesVars, pageVars, callVars>>

-----------------------------------------------------------------------------
CallStep(t) ==
  \/ CallJoin(t) \/ CallGetUsers(t) \/ CallDirectMessage(t)
  \/ CallGroupMessage(t) \/ CallGetChatMessages(t) \/ CallLogout(t)
  \/ CallReset(t)

Step(t) ==
  \/ JoinRemove(t) \/ JoinPut(t)
  \/ WalkKey(t) \/ ReturnRoster(t)
  \/ Lookup(t) \/ Logout(t)
  \/ AddBegin(t) \/ Grow(t) \/ Store(t)
  \/ Snapshot(t) \/ Copy(t) \/ ReturnLines(t)
  \/ ClearUser(t) \/ UsersCleared(t) \/ ClearLine(t) \/ ReturnReset(t)
  \/ Route(t) \/ RouteToNobody(t) \/ Deliver(t) \/ Delivered(t)

Next ==
  \/ \E s \in Session : OpenPage(s) \/ ClosePage(s)
  \/ \E t \in Thread : CallStep(t) \/ Step(t)

\* a servlet thread that can run does run
Fairness == \A t \in Thread : WF_vars(Step(t))

Spec == Init /\ [][Next]_vars
FairSpec == Spec /\ Fairness

-----------------------------------------------------------------------------
(***************************************************************************)
(* Properties of the transcript.                                           *)
(***************************************************************************)
Adding == {"append", "grow", "store"}
Writing(m) == \E t \in Thread : pc[t] \in Adding /\ what[t] = m

\* Without reset, a message whose add has finished is in exactly one slot of
\* the transcript: concurrent calls of groupMessage never overwrite or drop
\* each other's line (Chat.groupMessage, the synchronized add).
NoLineLost ==
  \A m \in posted : Writing(m) \/
    \E i \in 1..size : /\ elements[i] = m
                       /\ \A j \in 1..size : elements[j] = m => j = i

\* Without reset, the only slot of the transcript that can be null is the last
\* one, while the add that claimed it has not stored its element yet
\* (ArrayList.add under the monitor of chatMessages).
NoHole ==
  \A i \in 1..size : elements[i] = None =>
    i = size /\ \E t \in Thread : At(t, "store")

\* Without reset, what the unsynchronised getChatMessages has copied is a
\* prefix of the transcript as it is now, except that its last line can be a
\* null read before the writer stored the element.
ReplyIsPrefix ==
  \A t \in Thread : At(t, "copy") =>
    /\ index[t] <= size
    /\ Len(copy[t]) <= index[t]
    /\ \A i \in 1..Len(copy[t]) :
         \/ copy[t][i] = elements[i]
         \/ copy[t][i] = None /\ i = index[t]

\* Without reset, a page that is told of a message finds it when it then asks
\* for the transcript: the add comes before the send (Chat.groupMessage).
ToldIsReadable ==
  \A s \in Session : \A c \in pushed[s] :
    c.user = None => \E i \in 1..size : elements[i] = c.msg

(***************************************************************************)
(* The inductive invariant behind the transcript properties of a room that *)
(* is never reset.  The monitor is held exactly by the thread between      *)
(* AddBegin and Store; that thread's index is the slot it claims; slots    *)
(* beyond size are null; a message being added is in no slot yet.          *)
(***************************************************************************)
MonitorInv ==
  \A t \in Thread :
    /\ pc[t] \notin {"clearUsers", "clearLines"}
    /\ pc[t] \in {"grow", "store"} <=> linesLock = t
    /\ At(t, "grow") => index[t] = size /\ size < Len(elements)
    /\ At(t, "store") => index[t] + 1 = size /\ elements[size] = None
SlotInv ==
  \A i \in 1..Len(elements) :
    /\ i > size => elements[i] = None
    /\ elements[i] # None => elements[i] \in posted
AddInv ==
  \A t \in Thread : pc[t] \in Adding =>
    /\ what[t] \in posted
    /\ \A i \in 1..Len(elements) : elements[i] # what[t]
    /\ \A r \in Thread \ {t} :
         pc[r] \in Adding => what[r] # what[t]

\* While the room is never reset, the transcript is intact, with the facts on
\* the monitor and the slots that make this inductive (Chat.groupMessage).
TranscriptInv == MonitorInv /\ SlotInv /\ AddInv /\ NoLineLost /\ NoHole

Quiescent == \A t \in Thread : At(t, "idle")

\* When no call is running, the transcript has no null line: what "reasonably
\* thread-safe" (class comment of Chat) means for chatMessages when reset runs
\* beside groupMessage.
IdleTranscriptHasNoHole ==
  Quiescent => \A i \in 1..size : elements[i] # None

(***************************************************************************)
(* Properties of the roster.                                               *)
(***************************************************************************)
\* While no join is in its critical section, every user is registered under
\* the session of its last join, whatever logouts, lookups and other joins did
\* meanwhile; after a reset the user can be absent, never under an older
\* session (Chat.join).
LastJoinWins ==
  usersLock = None => \A u \in User :
    IF joins[u] = <<>> THEN users[u] = None
    ELSE \/ users[u] = joins[u][Len(joins[u])]
         \/ users[u] = None /\ resets > 0

\* In a room that was not reset, a direct message to a user who has joined once
\* is pushed to no session but the one the user joined from (Chat.join,
\* Chat.directMessage and the adapter's choice of recipients).
SettledMessageIsPrivate ==
  resets = 0 => \A s \in Session : \A c \in pushed[s] :
    c.user # None /\ c.msg # None /\ Len(joins[c.user]) = 1 => joins[c.user][1] = s

(***************************************************************************)
(* Liveness.                                                               *)
(***************************************************************************)
\* Every remote call returns: neither monitor is ever kept.
EveryCallReturns == \A t \in Thread : ~At(t, "idle") ~> At(t, "idle")

=============================================================================
