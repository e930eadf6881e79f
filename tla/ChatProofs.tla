----------------------------- MODULE ChatProofs -----------------------------
(***************************************************************************)
(* Proofs about the chat room, for any threads, users, sessions and        *)
(* messages: type correctness; of a room that is never reset, that the     *)
(* transcript loses no line, a reply is a prefix of it and a page is told  *)
(* of what it can read; that the last join of a user is the one in force,  *)
(* and that a direct message goes where it is addressed.                   *)
(***************************************************************************)
EXTENDS Chat, SequenceTheorems, TLAPS

LEMMA InitTypeOK == Init => TypeOK
  BY DEF Init, TypeOK, Label, Line, ScriptCall

LEMMA ReturnTypeOK ==
  ASSUME NEW t \in Thread, TypeOK, Return(t)
  PROVE  /\ pc' \in [Thread -> Label]
         /\ who' \in [Thread -> User \cup {None}]
         /\ what' \in [Thread -> Line]
         /\ target' \in [Thread -> Session \cup {None}]
         /\ index' \in [Thread -> Nat]
         /\ copy' \in [Thread -> Seq(Line)]
         /\ todo' \in [Thread -> SUBSET (User \cup Session)]
         /\ listed' \in [Thread -> SUBSET User]
         /\ pc'[t] = "idle"
         /\ \A r \in Thread \ {t} : /\ pc'[r] = pc[r]
                                   /\ who'[r] = who[r]
                                   /\ what'[r] = what[r]
                                   /\ index'[r] = index[r]
                                   /\ todo'[r] = todo[r]
  BY DEF TypeOK, Return, Goto, Label, Line

LEMMA RemoveOne ==
  ASSUME NEW S, NEW f \in [Thread -> SUBSET S], NEW t \in Thread, NEW x
  PROVE  [f EXCEPT ![t] = @ \ {x}] \in [Thread -> SUBSET S]
<1>1. f[t] \ {x} \in SUBSET S
  OBVIOUS
<1> QED
  BY <1>1

LEMMA StepTypeOK == TypeOK /\ [Next]_vars => TypeOK'
<1> SUFFICES ASSUME TypeOK, [Next]_vars PROVE TypeOK'
  OBVIOUS
<1> USE DEF vars, rosterVars, linesVars, pageVars, callVars, args, work, At
<1>1. ASSUME NEW s \in Session, OpenPage(s) PROVE TypeOK'
  BY <1>1 DEF OpenPage, TypeOK
<1>2. ASSUME NEW s \in Session, ClosePage(s) PROVE TypeOK'
  BY <1>2 DEF ClosePage, TypeOK
<1>3. ASSUME NEW t \in Thread, CallStep(t) PROVE TypeOK'
  <2> USE DEF Arrive, Goto, Label, TypeOK
  <2>1. CASE CallJoin(t)
    BY <2>1 DEF CallJoin, Open
  <2>2. CASE CallGetUsers(t)
    BY <2>2 DEF CallGetUsers
  <2>3. CASE CallDirectMessage(t)
    BY <2>3 DEF CallDirectMessage, Line
  <2>4. CASE CallGroupMessage(t)
    BY <2>4 DEF CallGroupMessage, Line
  <2>5. CASE CallGetChatMessages(t)
    BY <2>5 DEF CallGetChatMessages
  <2>6. CASE CallLogout(t)
    BY <2>6 DEF CallLogout
  <2>7. CASE CallReset(t)
    BY <2>7 DEF CallReset
  <2> QED
    BY <1>3, <2>1, <2>2, <2>3, <2>4, <2>5, <2>6, <2>7 DEF CallStep
<1>4. ASSUME NEW t \in Thread, Step(t) PROVE TypeOK'
  <2> USE DEF TypeOK
  <2>1. CASE JoinRemove(t)
    BY <2>1 DEF JoinRemove, Goto, Label
  <2>2. CASE JoinPut(t)
    BY <2>2 DEF JoinPut, PutIfAbsent, Goto, Label
  <2>3. CASE WalkKey(t)
    <3>1. PICK u \in todo[t] :
             /\ todo' = [todo EXCEPT ![t] = @ \ {u}]
             /\ listed' = IF users[u] = None THEN listed
                          ELSE [listed EXCEPT ![t] = @ \cup {u}]
             /\ UNCHANGED <<rosterVars, linesVars, pageVars, callVars, pc, args,
                            index, copy>>
      BY <2>3 DEF WalkKey
    <3>2. todo' \in [Thread -> SUBSET (User \cup Session)]
      BY <3>1, RemoveOne
    <3>3. listed' \in [Thread -> SUBSET User]
      BY <2>3, <3>1 DEF WalkKey
    <3> QED
      BY <2>3, <3>1, <3>2, <3>3 DEF WalkKey
  <2>4. CASE ReturnRoster(t)
    BY <2>4, ReturnTypeOK DEF ReturnRoster
  <2>5. CASE Lookup(t)
    BY <2>5 DEF Lookup, Goto, Label
  <2>6. CASE Logout(t)
    BY <2>6, ReturnTypeOK DEF Logout, Open
  <2>7. CASE AddBegin(t)
    BY <2>7 DEF AddBegin, EnsureCapacity, Goto, Label, Line
  <2>8. CASE Grow(t)
    BY <2>8 DEF Grow, Goto, Label
  <2>9. CASE Store(t)
    <3>1. elements' \in Seq(Line) /\ Len(elements') = Len(elements)
      BY <2>9, ExceptSeq DEF Store
    <3> QED
      BY <2>9, <3>1 DEF Store, Goto, Label
  <2>10. CASE Snapshot(t)
    BY <2>10 DEF Snapshot, Goto, Label
  <2>11. CASE Copy(t)
    BY <2>11 DEF Copy, Line
  <2>12. CASE ReturnLines(t)
    BY <2>12, ReturnTypeOK DEF ReturnLines
  <2>13. CASE ClearUser(t)
    <3>1. todo' \in [Thread -> SUBSET (User \cup Session)]
      BY <2>13, RemoveOne DEF ClearUser
    <3> QED
      BY <2>13, <3>1 DEF ClearUser
  <2>14. CASE UsersCleared(t)
    BY <2>14 DEF UsersCleared, Goto, Label
  <2>15. CASE ClearLine(t)
    BY <2>15 DEF ClearLine, Line
  <2>16. CASE ReturnReset(t)
    <3>1. size' \in Nat /\ size' <= Len(elements')
      BY <2>16 DEF ReturnReset
    <3> QED
      BY <2>16, <3>1, ReturnTypeOK DEF ReturnReset
  <2>17. CASE Route(t)
    <3>1. Recipients(target[t]) \in SUBSET (User \cup Session)
      BY DEF Recipients, Open
    <3> QED
      BY <2>17, <3>1 DEF Route, Goto, Label
  <2>18. CASE RouteToNobody(t)
    BY <2>18, ReturnTypeOK DEF RouteToNobody
  <2>19. CASE Deliver(t)
    <3>1. todo' \in [Thread -> SUBSET (User \cup Session)]
      BY <2>19, RemoveOne DEF Deliver
    <3>2. pushed' \in [Session -> SUBSET ScriptCall]
      <4>1. [user |-> who[t], msg |-> what[t]] \in ScriptCall
        BY DEF ScriptCall
      <4>2. PICK s \in todo[t] : Push(t, s)
        BY <2>19 DEF Deliver
      <4> QED
        BY <4>1, <4>2 DEF Push
    <3> QED
      BY <2>19, <3>1, <3>2 DEF Deliver
  <2>20. CASE Delivered(t)
    BY <2>20, ReturnTypeOK DEF Delivered
  <2> QED
    BY <1>4, <2>1, <2>2, <2>3, <2>4, <2>5, <2>6, <2>7, <2>8, <2>9, <2>10,
       <2>11, <2>12, <2>13, <2>14, <2>15, <2>16, <2>17, <2>18, <2>19, <2>20
    DEF Step
<1>5. CASE UNCHANGED vars
  BY <1>5 DEF TypeOK
<1> QED
  BY <1>1, <1>2, <1>3, <1>4, <1>5 DEF Next

\* Every state of the chat room is well typed, and the label of a thread tells
\* which of its local variables are set and within which bounds its index is
\* (so that no access to elements is out of range).
THEOREM ChatTypeOK == Spec => []TypeOK
  BY InitTypeOK, StepTypeOK, PTL DEF Spec

-----------------------------------------------------------------------------
(***************************************************************************)
(* The transcript of a room that is never reset.                           *)
(***************************************************************************)
LEMMA InitTranscript == Init => TranscriptInv
  BY ChatAssumption DEF Init, TranscriptInv, MonitorInv, SlotInv, AddInv, NoLineLost,
    NoHole, Adding, At

\* a step of a thread that is not adding a line, before or after
LEMMA OtherStep ==
  ASSUME TypeOK, TranscriptInv, NEW t \in Thread,
         UNCHANGED <<elements, size, linesLock, posted>>,
         pc[t] \notin Adding,
         pc'[t] \notin Adding \cup {"clearUsers", "clearLines"},
         \A r \in Thread \ {t} : /\ pc'[r] = pc[r]
                                 /\ what'[r] = what[r]
                                 /\ index'[r] = index[r]
  PROVE  TranscriptInv'
<1> USE DEF TranscriptInv, Adding, At
<1>1. MonitorInv'
  BY DEF MonitorInv
<1>2. SlotInv'
  BY DEF SlotInv
<1>3. AddInv'
  BY DEF AddInv
<1>4. NoLineLost'
  BY DEF NoLineLost, Writing
<1>5. NoHole'
  BY DEF NoHole
<1> QED
  BY <1>1, <1>2, <1>3, <1>4, <1>5

LEMMA GroupMessageTranscript ==
  ASSUME TypeOK, TranscriptInv, NEW t \in Thread, CallGroupMessage(t)
  PROVE  TranscriptInv'
<1>1. PICK m \in Msg \ (posted \cup whispered) :
        /\ what' = [what EXCEPT ![t] = m]
        /\ posted' = posted \cup {m}
  BY DEF CallGroupMessage
<1>2. /\ pc[t] = "idle" /\ pc' = [pc EXCEPT ![t] = "append"]
      /\ UNCHANGED <<elements, size, linesLock, index>>
  BY DEF CallGroupMessage, Arrive, At, Goto, linesVars
<1>3. pc \in [Thread -> Label] /\ what \in [Thread -> Line]
  BY DEF TypeOK
<1> USE DEF TranscriptInv, Adding, At
<1>4. MonitorInv'
  BY <1>2, <1>3 DEF MonitorInv
<1>5. SlotInv'
  BY <1>1, <1>2 DEF SlotInv
<1>6. \A i \in 1..Len(elements) : elements[i] # m
  BY <1>1, ChatAssumption DEF SlotInv
<1>7. AddInv'
  BY <1>1, <1>2, <1>3, <1>6 DEF AddInv
<1>8. NoLineLost'
  BY <1>1, <1>2, <1>3 DEF NoLineLost, Writing
<1>9. NoHole'
  BY <1>2, <1>3 DEF NoHole
<1> QED
  BY <1>4, <1>5, <1>7, <1>8, <1>9

LEMMA AddBeginTranscript ==
  ASSUME TypeOK, TranscriptInv, NEW t \in Thread, AddBegin(t)
  PROVE  TranscriptInv'
<1>1. /\ pc[t] = "append" /\ linesLock = None /\ linesLock' = t
      /\ pc' = [pc EXCEPT ![t] = "grow"]
      /\ index' = [index EXCEPT ![t] = size]
      /\ UNCHANGED <<size, what, posted>>
  BY DEF AddBegin, At, Goto, callVars, args
<1>2. /\ pc \in [Thread -> Label] /\ index \in [Thread -> Nat]
      /\ elements \in Seq(Line) /\ size \in Nat /\ size <= Len(elements)
      /\ t # None /\ None \in Line
  BY ChatAssumption DEF TypeOK, Line
<1>3. /\ elements' \in Seq(Line) /\ size < Len(elements')
      /\ Len(elements') >= Len(elements)
      /\ \A i \in 1..Len(elements) : elements'[i] = elements[i]
      /\ \A i \in 1..Len(elements') : i > Len(elements) => elements'[i] = None
  <2>1. CASE size < Len(elements)
    BY <1>2, <2>1 DEF AddBegin, EnsureCapacity
  <2>2. CASE ~(size < Len(elements))
    BY <1>2, <2>2, AppendProperties DEF AddBegin, EnsureCapacity
  <2> QED
    BY <2>1, <2>2
<1> USE DEF TranscriptInv, Adding, At
<1>4. MonitorInv'
  <2>1. \A r \in Thread : pc[r] \notin {"grow", "store"}
    BY <1>1, ChatAssumption DEF MonitorInv
  <2>2. \A r \in Thread : pc[r] \notin {"clearUsers", "clearLines"}
    BY DEF MonitorInv
  <2>3. \A r \in Thread : pc'[r] = IF r = t THEN "grow" ELSE pc[r]
    BY <1>1, <1>2
  <2> QED
    BY <1>1, <1>2, <1>3, <2>1, <2>2, <2>3 DEF MonitorInv
<1>5. SlotInv'
  <2>1. \A i \in 1..Len(elements') :
          i \in 1..Len(elements) \/ elements'[i] = None
    BY <1>2, <1>3
  <2> QED
    BY <1>1, <1>2, <1>3, <2>1 DEF SlotInv
<1>6. AddInv'
  <2>1. \A r \in Thread : what[r] \in posted => what[r] # None
    BY ChatAssumption DEF TypeOK
  <2> QED
    BY <1>1, <1>2, <1>3, <2>1 DEF AddInv
<1>7. \A i \in 1..size : elements'[i] = elements[i]
  BY <1>2, <1>3
<1>8. NoLineLost'
  <2>1. \A m \in posted : Writing(m) => Writing(m)'
    BY <1>1, <1>2 DEF Writing
  <2> QED
    BY <1>1, <1>7, <2>1 DEF NoLineLost
<1>9. NoHole'
  <2>1. \A r \in Thread : At(r, "store") => At(r, "store")'
    BY <1>1, <1>2
  <2> QED
    BY <1>1, <1>7, <2>1 DEF NoHole
<1> QED
  BY <1>4, <1>5, <1>6, <1>8, <1>9

LEMMA GrowTranscript ==
  ASSUME TypeOK, TranscriptInv, NEW t \in Thread, Grow(t)
  PROVE  TranscriptInv'
<1>1. /\ pc[t] = "grow" /\ pc' = [pc EXCEPT ![t] = "store"]
      /\ size' = index[t] + 1
      /\ UNCHANGED <<elements, linesLock, what, posted, index>>
  BY DEF Grow, At, Goto, callVars, args, work
<1>2. /\ pc \in [Thread -> Label] /\ index \in [Thread -> Nat]
      /\ elements \in Seq(Line) /\ size \in Nat
  BY DEF TypeOK
<1> USE DEF TranscriptInv, Adding, At
<1>3. size' = size + 1 /\ size + 1 \in 1..Len(elements)
  BY <1>1, <1>2 DEF MonitorInv
<1>4. elements[size + 1] = None
  BY <1>2, <1>3 DEF SlotInv
<1>5. MonitorInv'
  <2>1. linesLock = t /\ \A r \in Thread \ {t} : pc[r] \notin {"grow", "store"}
    BY <1>1 DEF MonitorInv
  <2>2. \A r \in Thread : pc'[r] = IF r = t THEN "store" ELSE pc[r]
    BY <1>1, <1>2
  <2>3. index[t] + 1 = size' /\ elements[size'] = None
    BY <1>1, <1>3, <1>4 DEF MonitorInv
  <2> QED
    BY <1>1, <2>1, <2>2, <2>3 DEF MonitorInv
<1>6. SlotInv'
  BY <1>1, <1>2, <1>3 DEF SlotInv
<1>7. AddInv'
  BY <1>1, <1>2 DEF AddInv
<1>8. NoLineLost'
  <2>1. \A m \in posted : m # None
    BY ChatAssumption DEF TypeOK
  <2> QED
    BY <1>1, <1>2, <1>3, <1>4, <2>1 DEF NoLineLost, Writing
<1>9. NoHole'
  <2>1. \A r \in Thread : pc[r] # "store"
    BY <1>1 DEF MonitorInv
  <2> QED
    BY <1>1, <1>2, <1>3, <2>1 DEF NoHole
<1> QED
  BY <1>5, <1>6, <1>7, <1>8, <1>9

LEMMA StoreTranscript ==
  ASSUME TypeOK, TranscriptInv, NEW t \in Thread, Store(t)
  PROVE  TranscriptInv'
<1>1. /\ pc[t] = "store" /\ pc' = [pc EXCEPT ![t] = "route"]
      /\ elements' = [elements EXCEPT ![index[t] + 1] = what[t]]
      /\ linesLock' = None /\ index' = [index EXCEPT ![t] = 0]
      /\ UNCHANGED <<size, what, posted>>
  BY DEF Store, At, Goto, callVars, args
<1>2. /\ pc \in [Thread -> Label] /\ index \in [Thread -> Nat]
      /\ elements \in Seq(Line) /\ size \in Nat /\ what[t] \in Line
      /\ index[t] + 1 \in 1..Len(elements)
  BY <1>1 DEF TypeOK
<1> USE DEF TranscriptInv, Adding, At
<1>3. /\ index[t] + 1 = size
      /\ linesLock = t
      /\ \A r \in Thread \ {t} : pc[r] \notin {"grow", "store"}
  BY <1>1 DEF MonitorInv
<1>4. /\ Len(elements') = Len(elements)
      /\ \A i \in 1..Len(elements) :
           elements'[i] = IF i = size THEN what[t] ELSE elements[i]
  BY <1>1, <1>2, <1>3, ExceptSeq
<1>5. /\ what[t] \in posted /\ what[t] # None
      /\ \A i \in 1..Len(elements) : elements[i] # what[t]
      /\ \A r \in Thread \ {t} : pc[r] \in Adding => what[r] # what[t]
  BY <1>1, ChatAssumption DEF AddInv, TypeOK
<1>6. MonitorInv'
  BY <1>1, <1>2, <1>3, ChatAssumption DEF MonitorInv
<1>7. SlotInv'
  BY <1>1, <1>2, <1>3, <1>4, <1>5 DEF SlotInv
<1>8. AddInv'
  BY <1>1, <1>2, <1>3, <1>4, <1>5 DEF AddInv
<1>9. NoLineLost'
  <2> SUFFICES ASSUME NEW m \in posted, ~Writing(m)'
               PROVE  \E i \in 1..size : /\ elements'[i] = m
                        /\ \A j \in 1..size : elements'[j] = m => j = i
    BY <1>1 DEF NoLineLost
  <2>0. size \in 1..Len(elements) /\ 1..size \subseteq 1..Len(elements)
    BY <1>2, <1>3
  <2>1. CASE m = what[t]
    BY <1>4, <1>5, <2>0, <2>1
  <2>2. CASE m # what[t]
    <3>1. ~Writing(m)
      BY <1>1, <1>2, <2>2 DEF Writing
    <3>2. PICK i \in 1..size : /\ elements[i] = m
                               /\ \A j \in 1..size : elements[j] = m => j = i
      BY <3>1 DEF NoLineLost
    <3>3. m # None
      BY ChatAssumption DEF TypeOK
    <3>4. elements[size] = None
      BY <1>1 DEF MonitorInv
    <3> QED
      BY <1>4, <2>0, <2>2, <3>2, <3>3, <3>4
  <2> QED
    BY <2>1, <2>2
<1>10. NoHole'
  BY <1>1, <1>2, <1>3, <1>4, <1>5 DEF NoHole
<1> QED
  BY <1>6, <1>7, <1>8, <1>9, <1>10

LEMMA StepTranscript ==
  ASSUME "reset" \notin Ops, TypeOK, TranscriptInv, [Next]_vars
  PROVE  TranscriptInv'
<1> USE DEF rosterVars, linesVars, pageVars, callVars, args, work, At, Goto
<1>0. \A t \in Thread : pc[t] \notin {"clearUsers", "clearLines"}
  BY DEF TranscriptInv, MonitorInv
<1>1. ASSUME UNCHANGED <<elements, size, linesLock, posted, pc, what, index>>
      PROVE  TranscriptInv'
  BY <1>1 DEF TranscriptInv, MonitorInv, SlotInv, AddInv, NoLineLost, NoHole,
              Writing, Adding
<1>2. ASSUME NEW s \in Session, OpenPage(s) \/ ClosePage(s)
      PROVE  TranscriptInv'
  BY <1>1, <1>2 DEF OpenPage, ClosePage
<1>3. ASSUME NEW t \in Thread, CallStep(t) PROVE TranscriptInv'
  <2>1. CASE CallGroupMessage(t)
    BY <2>1, GroupMessageTranscript
  <2>2. CASE CallReset(t)
    BY <2>2 DEF CallReset, Arrive
  <2>3. CASE \/ CallJoin(t) \/ CallGetUsers(t) \/ CallDirectMessage(t)
             \/ CallGetChatMessages(t) \/ CallLogout(t)
    <3>1. /\ UNCHANGED <<elements, size, linesLock, posted, index>>
          /\ pc[t] = "idle"
          /\ \E l \in {"join", "walk", "lookup", "snapshot", "logout"} :
               pc' = [pc EXCEPT ![t] = l]
          /\ \A r \in Thread \ {t} : what'[r] = what[r]
      BY <2>3 DEF CallJoin, CallGetUsers, CallDirectMessage,
                  CallGetChatMessages, CallLogout, Arrive, TypeOK
    <3> QED
      BY <3>1, OtherStep DEF TypeOK, Adding
  <2> QED
    BY <1>3, <2>1, <2>2, <2>3 DEF CallStep
<1>4. ASSUME NEW t \in Thread, Step(t) PROVE TranscriptInv'
  <2>1. CASE AddBegin(t)
    BY <2>1, AddBeginTranscript
  <2>2. CASE Grow(t)
    BY <2>2, GrowTranscript
  <2>3. CASE Store(t)
    BY <2>3, StoreTranscript
  <2>4. CASE \/ ClearUser(t) \/ UsersCleared(t)
             \/ ClearLine(t) \/ ReturnReset(t)
    BY <1>0, <2>4 DEF ClearUser, UsersCleared, ClearLine, ReturnReset
  <2>5. CASE WalkKey(t) \/ Copy(t) \/ Deliver(t)
    BY <1>1, <2>5 DEF WalkKey, Copy, Deliver
  <2>6. CASE \/ JoinRemove(t) \/ JoinPut(t) \/ Lookup(t) \/ Snapshot(t)
             \/ Route(t)
    <3>1. /\ UNCHANGED <<elements, size, linesLock, posted, what>>
          /\ pc[t] \in {"join", "joinPut", "lookup", "snapshot", "route"}
          /\ \E l \in {"joinPut", "route", "copy", "deliver"} :
               pc' = [pc EXCEPT ![t] = l]
          /\ \A r \in Thread \ {t} : index'[r] = index[r]
      BY <2>6 DEF JoinRemove, JoinPut, Lookup, Snapshot, Route, TypeOK
    <3> QED
      BY <3>1, OtherStep DEF TypeOK, Adding
  <2>7. CASE \/ ReturnRoster(t) \/ Logout(t) \/ ReturnLines(t)
             \/ RouteToNobody(t) \/ Delivered(t)
    <3>1. /\ UNCHANGED <<elements, size, linesLock, posted>>
          /\ pc[t] \in {"walk", "logout", "copy", "route", "deliver"}
          /\ Return(t)
      BY <2>7 DEF ReturnRoster, Logout, ReturnLines, RouteToNobody, Delivered
    <3> QED
      BY <3>1, ReturnTypeOK, OtherStep DEF Adding
  <2> QED
    BY <1>4, <2>1, <2>2, <2>3, <2>4, <2>5, <2>6, <2>7 DEF Step
<1>5. CASE UNCHANGED vars
  BY <1>1, <1>5 DEF vars
<1> QED
  BY <1>2, <1>3, <1>4, <1>5 DEF Next

\* In a room that is never reset, whatever the number of threads posting and
\* reading, no posted line is lost or duplicated and the only null slot is the
\* one being filled (Chat.groupMessage and its monitor).
THEOREM TranscriptIntact ==
  ASSUME "reset" \notin Ops
  PROVE  Spec => [](TranscriptInv /\ NoLineLost /\ NoHole)
<1>1. Init => TranscriptInv
  BY InitTranscript
<1>2. TypeOK /\ TranscriptInv /\ [Next]_vars => TranscriptInv'
  BY StepTranscript
<1>3. TranscriptInv => NoLineLost /\ NoHole
  BY DEF TranscriptInv
<1> QED
  BY <1>1, <1>2, <1>3, ChatTypeOK, PTL DEF Spec

-----------------------------------------------------------------------------
(***************************************************************************)
(* What readers of the transcript get, and what pages are told of it.      *)
(***************************************************************************)
\* A thread copies lines only inside getChatMessages.
ReplyInv ==
  /\ ReplyIsPrefix
  /\ \A t \in Thread : ~At(t, "copy") => copy[t] = <<>>

Readable(m) == \E i \in 1..size : elements[i] = m

\* A message on its way to the pages, or told to one, is in the transcript.
ToldInv ==
  /\ \A t \in Thread : pc[t] \in {"route", "deliver"} /\ who[t] = None =>
       what[t] # None /\ Readable(what[t])
  /\ \A s \in Session : \A c \in pushed[s] :
       c.user = None => c.msg # None /\ Readable(c.msg)

\* no step touches the local variables of another thread
LEMMA OtherThreads ==
  ASSUME TypeOK, NEW t \in Thread, CallStep(t) \/ Step(t),
         NEW r \in Thread \ {t}
  PROVE  /\ pc'[r] = pc[r] /\ who'[r] = who[r] /\ what'[r] = what[r]
         /\ target'[r] = target[r] /\ index'[r] = index[r]
         /\ copy'[r] = copy[r] /\ todo'[r] = todo[r] /\ listed'[r] = listed[r]
<1> USE DEF rosterVars, linesVars, pageVars, callVars, args, work, At, Goto,
            TypeOK
<1>1. CASE CallStep(t)
  <2>1. CASE CallJoin(t)
    BY <2>1 DEF CallJoin, Arrive
  <2>2. CASE CallDirectMessage(t)
    BY <2>2 DEF CallDirectMessage, Arrive
  <2>3. CASE CallGroupMessage(t)
    BY <2>3 DEF CallGroupMessage, Arrive
  <2>4. CASE CallLogout(t)
    BY <2>4 DEF CallLogout, Arrive
  <2>5. CASE CallGetUsers(t) \/ CallGetChatMessages(t) \/ CallReset(t)
    BY <2>5 DEF CallGetUsers, CallGetChatMessages, CallReset, Arrive
  <2> QED
    BY <1>1, <2>1, <2>2, <2>3, <2>4, <2>5 DEF CallStep
<1>2. CASE \/ JoinRemove(t) \/ JoinPut(t) \/ WalkKey(t) \/ Lookup(t)
           \/ AddBegin(t) \/ Grow(t) \/ Store(t) \/ Snapshot(t) \/ Copy(t)
  BY <1>2 DEF JoinRemove, JoinPut, WalkKey, Lookup, AddBegin, Grow, Store,
              Snapshot, Copy
<1>3. CASE \/ ClearUser(t) \/ UsersCleared(t) \/ ClearLine(t) \/ Route(t)
           \/ Deliver(t)
  BY <1>3 DEF ClearUser, UsersCleared, ClearLine, Route, Deliver
<1>4. CASE \/ ReturnRoster(t) \/ Logout(t) \/ ReturnLines(t) \/ ReturnReset(t)
           \/ RouteToNobody(t) \/ Delivered(t)
  <2>1. Return(t)
    BY <1>4 DEF ReturnRoster, Logout, ReturnLines, ReturnReset, RouteToNobody,
                Delivered
  <2> QED
    BY <2>1 DEF Return
<1> QED
  BY <1>1, <1>2, <1>3, <1>4 DEF Step

\* in a room that is never reset, a line that was read stays where it is; only
\* the slot that a writer has claimed is still to be filled
LEMMA SlotsStay ==
  ASSUME TypeOK, TranscriptInv, NEW t \in Thread, CallStep(t) \/ Step(t)
  PROVE  /\ size <= size' /\ size \in Nat /\ size' \in Nat
         /\ \A i \in 1..size : \/ elements'[i] = elements[i]
                               \/ elements[i] = None /\ i = size
<1> USE DEF rosterVars, linesVars, pageVars, callVars, args, work, At
<1>1. size \in Nat /\ elements \in Seq(Line) /\ size <= Len(elements)
  BY DEF TypeOK
<1>2. pc[t] \notin {"clearUsers", "clearLines"}
  BY DEF TranscriptInv, MonitorInv
<1>3. ASSUME UNCHANGED <<elements, size>>
      PROVE  /\ size <= size' /\ size \in Nat /\ size' \in Nat
             /\ \A i \in 1..size : elements'[i] = elements[i]
  BY <1>1, <1>3
<1>4. CASE AddBegin(t)
  BY <1>1, <1>4, AppendProperties DEF AddBegin, EnsureCapacity
<1>5. CASE Grow(t)
  BY <1>1, <1>5 DEF Grow, TranscriptInv, MonitorInv
<1>6. CASE Store(t)
  <2>1. index[t] + 1 = size /\ elements[size] = None
    BY <1>6 DEF Store, TranscriptInv, MonitorInv
  <2> QED
    BY <1>1, <1>6, <2>1 DEF Store
<1>7. CASE CallStep(t)
  BY <1>3, <1>7 DEF CallStep, CallJoin, CallGetUsers, CallDirectMessage,
              CallGroupMessage, CallGetChatMessages, CallLogout, CallReset,
              Arrive
<1>8. CASE ~(AddBegin(t) \/ Grow(t) \/ Store(t)) /\ Step(t)
  <2>1. UNCHANGED <<elements, size>>
    BY <1>2, <1>8 DEF Step, JoinRemove, JoinPut, WalkKey, ReturnRoster, Lookup,
         Logout, Snapshot, Copy, ReturnLines, ClearUser, UsersCleared,
         ClearLine, ReturnReset, Route, RouteToNobody, Deliver, Delivered
  <2> QED
    BY <1>3, <2>1
<1> QED
  BY <1>4, <1>5, <1>6, <1>7, <1>8

LEMMA InitReply == Init => ReplyInv /\ ToldInv
  BY DEF Init, ReplyInv, ReplyIsPrefix, ToldInv, At

\* the state that both invariants read
LEMMA QuietStep ==
  ASSUME ReplyInv, ToldInv,
         UNCHANGED <<elements, size, pc, who, what, index, copy, pushed>>
  PROVE  ReplyInv' /\ ToldInv'
<1>1. ReplyInv'
  BY DEF ReplyInv, ReplyIsPrefix, At
<1>2. ToldInv'
  BY DEF ToldInv, Readable
<1> QED
  BY <1>1, <1>2

LEMMA StepReply ==
  ASSUME TypeOK, TypeOK', TranscriptInv, ReplyInv,
         NEW t \in Thread, CallStep(t) \/ Step(t)
  PROVE  ReplyInv'
<1> USE DEF rosterVars, linesVars, pageVars, callVars, args, work, At, Goto
<1>1. SUFFICES ASSUME NEW r \in Thread
               PROVE  /\ pc'[r] = "copy" =>
                           /\ index'[r] <= size'
                           /\ Len(copy'[r]) <= index'[r]
                           /\ \A i \in 1..Len(copy'[r]) :
                                \/ copy'[r][i] = elements'[i]
                                \/ copy'[r][i] = None /\ i = index'[r]
                      /\ pc'[r] # "copy" => copy'[r] = <<>>
  BY DEF ReplyInv, ReplyIsPrefix
<1>2. /\ size <= size' /\ size \in Nat /\ size' \in Nat
      /\ \A i \in 1..size : \/ elements'[i] = elements[i]
                            \/ elements[i] = None /\ i = size
  BY SlotsStay
<1>3. /\ pc \in [Thread -> Label] /\ index \in [Thread -> Nat]
      /\ copy \in [Thread -> Seq(Line)]
  BY DEF TypeOK
<1>4. /\ pc[r] = "copy" =>
           /\ index[r] <= size
           /\ Len(copy[r]) <= index[r]
           /\ \A i \in 1..Len(copy[r]) :
                \/ copy[r][i] = elements[i]
                \/ copy[r][i] = None /\ i = index[r]
      /\ pc[r] # "copy" => copy[r] = <<>>
  BY DEF ReplyInv, ReplyIsPrefix
<1>5. CASE UNCHANGED <<pc[r], index[r], copy[r]>>
  <2>1. CASE pc[r] = "copy"
    <3>1. Len(copy[r]) \in Nat /\ index[r] \in Nat
      BY <1>3
    <3>2. \A i \in 1..Len(copy[r]) : i \in 1..size /\ (i = size => i = index[r])
      BY <1>2, <1>4, <2>1, <3>1
    <3> QED
      BY <1>2, <1>4, <1>5, <2>1, <3>1, <3>2
  <2>2. CASE pc[r] # "copy"
    BY <1>4, <1>5, <2>2
  <2> QED
    BY <2>1, <2>2
<1>6. CASE r = t /\ Snapshot(t)
  BY <1>2, <1>3, <1>4, <1>6 DEF Snapshot
<1>7. CASE r = t /\ Copy(t)
  <2>1. /\ pc'[t] = "copy" /\ pc[t] = "copy" /\ index'[t] = index[t]
        /\ elements' = elements /\ size' = size
        /\ Len(copy[t]) < index[t]
        /\ copy'[t] = Append(copy[t], elements[Len(copy[t]) + 1])
    BY <1>3, <1>7 DEF Copy
  <2>2. /\ Len(copy'[t]) = Len(copy[t]) + 1
        /\ \A i \in 1..Len(copy[t]) : copy'[t][i] = copy[t][i]
        /\ copy'[t][Len(copy[t]) + 1] = elements[Len(copy[t]) + 1]
    BY <1>3, <2>1, AppendProperties
  <2>3. Len(copy[t]) \in Nat /\ index[t] \in Nat
    BY <1>3
  <2>4. \A i \in 1..Len(copy'[t]) : i \in 1..Len(copy[t]) \/ i = Len(copy[t]) + 1
    BY <2>2, <2>3
  <2> QED
    BY <1>2, <1>4, <1>7, <2>1, <2>2, <2>3, <2>4
<1>8. CASE r = t /\ ~Snapshot(t) /\ ~Copy(t)
  <2>1. CASE CallStep(t)
    BY <1>3, <1>4, <1>8, <2>1
    DEF CallStep, CallJoin, CallGetUsers, CallDirectMessage, CallGroupMessage,
        CallGetChatMessages, CallLogout, CallReset, Arrive
  <2>2. CASE \/ JoinRemove(t) \/ JoinPut(t) \/ WalkKey(t) \/ Lookup(t)
             \/ AddBegin(t) \/ Grow(t) \/ Store(t)
             \/ ClearUser(t) \/ UsersCleared(t) \/ ClearLine(t) \/ Route(t)
             \/ Deliver(t)
    BY <1>3, <1>4, <1>8, <2>2
    DEF JoinRemove, JoinPut, WalkKey, Lookup, AddBegin, Grow, Store, ClearUser,
        UsersCleared, ClearLine, Route, Deliver
  <2>3. CASE \/ ReturnRoster(t) \/ Logout(t) \/ ReturnLines(t)
             \/ ReturnReset(t) \/ RouteToNobody(t) \/ Delivered(t)
    <3>1. Return(t)
      BY <2>3 DEF ReturnRoster, Logout, ReturnLines, ReturnReset,
                  RouteToNobody, Delivered
    <3> QED
      BY <1>3, <1>8, <3>1 DEF Return
  <2> QED
    BY <1>8, <2>1, <2>2, <2>3 DEF Step
<1>9. CASE r # t
  BY <1>5, <1>9, OtherThreads
<1> QED
  BY <1>6, <1>7, <1>8, <1>9


LEMMA ReadableStays ==
  ASSUME TypeOK, TranscriptInv, NEW t \in Thread, CallStep(t) \/ Step(t),
         NEW m, m # None, Readable(m)
  PROVE  \E i \in 1..size' : elements'[i] = m
<1>1. PICK i \in 1..size : elements[i] = m
  BY DEF Readable
<1>2. elements'[i] = m /\ i \in 1..size'
  BY <1>1, SlotsStay
<1> QED
  BY <1>2

LEMMA StepTold ==
  ASSUME TypeOK, TranscriptInv, ToldInv,
         NEW t \in Thread, CallStep(t) \/ Step(t)
  PROVE  ToldInv'
<1> USE DEF rosterVars, linesVars, pageVars, callVars, args, work, At, Goto
<1>1. /\ pc \in [Thread -> Label] /\ who \in [Thread -> User \cup {None}]
      /\ what \in [Thread -> Line] /\ pushed \in [Session -> SUBSET ScriptCall]
      /\ None \notin User
  BY ChatAssumption DEF TypeOK
<1>2. ASSUME NEW r \in Thread, pc'[r] \in {"route", "deliver"}, who'[r] = None
      PROVE  what'[r] # None /\ Readable(what[r])'
  <2>1. CASE UNCHANGED <<pc[r], who[r], what[r]>>
    <3>1. what[r] # None /\ Readable(what[r])
      BY <1>2, <2>1 DEF ToldInv
    <3> QED
      BY <2>1, <3>1, ReadableStays DEF Readable
  <2>2. CASE r = t /\ Store(t)
    <3>1. /\ index[t] + 1 = size /\ what[t] # None
          /\ elements' = [elements EXCEPT ![index[t] + 1] = what[t]]
          /\ size' = size /\ what' = what
      BY <2>2, ChatAssumption
      DEF Store, TranscriptInv, MonitorInv, AddInv, Adding, TypeOK
    <3>2. size \in 1..Len(elements)
      BY <2>2, <3>1 DEF Store, TypeOK
    <3>3. elements'[size] = what[t] /\ size \in 1..size'
      BY <3>1, <3>2 DEF TypeOK
    <3> QED
      BY <2>2, <3>1, <3>3 DEF Readable
  <2>3. CASE r = t /\ (JoinPut(t) \/ Lookup(t))
    <3>1. who[t] \in User /\ who' = who
      BY <2>3 DEF JoinPut, Lookup, TypeOK
    <3> QED
      BY <1>1, <1>2, <2>3, <3>1
  <2>4. CASE r = t /\ Route(t)
    <3>1. what[t] # None /\ Readable(what[t])
      BY <1>2, <2>4 DEF Route, ToldInv
    <3> QED
      BY <2>4, <3>1, ReadableStays DEF Route, Readable
  <2>5. CASE r = t /\ ~(Store(t) \/ JoinPut(t) \/ Lookup(t) \/ Route(t))
    <3>1. CASE CallStep(t)
      BY <1>1, <1>2, <2>5, <3>1
      DEF CallStep, CallJoin, CallGetUsers, CallDirectMessage,
          CallGroupMessage, CallGetChatMessages, CallLogout, CallReset, Arrive
    <3>2. CASE \/ JoinRemove(t) \/ AddBegin(t) \/ Grow(t) \/ Snapshot(t)
               \/ UsersCleared(t)
      BY <1>1, <1>2, <2>5, <3>2
      DEF JoinRemove, AddBegin, Grow, Snapshot, UsersCleared
    <3>3. CASE \/ WalkKey(t) \/ Copy(t) \/ ClearUser(t) \/ ClearLine(t)
               \/ Deliver(t)
      BY <2>1, <2>5, <3>3 DEF WalkKey, Copy, ClearUser, ClearLine, Deliver
    <3>4. CASE \/ ReturnRoster(t) \/ Logout(t) \/ ReturnLines(t)
               \/ ReturnReset(t) \/ RouteToNobody(t) \/ Delivered(t)
      <4>1. Return(t)
        BY <3>4 DEF ReturnRoster, Logout, ReturnLines, ReturnReset,
                    RouteToNobody, Delivered
      <4> QED
        BY <1>1, <1>2, <2>5, <4>1 DEF Return
    <3> QED
      BY <2>5, <3>1, <3>2, <3>3, <3>4 DEF Step
  <2>6. CASE r # t
    BY <2>1, <2>6, OtherThreads
  <2> QED
    BY <2>2, <2>3, <2>4, <2>5, <2>6
<1>3. ASSUME NEW s \in Session, NEW c \in pushed'[s], c.user = None
      PROVE  c.msg # None /\ \E i \in 1..size' : elements'[i] = c.msg
  <2>1. CASE c \in pushed[s]
    BY <1>3, <2>1, ReadableStays DEF ToldInv
  <2>2. CASE c \notin pushed[s]
    <3>1. Deliver(t)
      BY <2>2 DEF CallStep, CallJoin, CallGetUsers, CallDirectMessage,
         CallGroupMessage, CallGetChatMessages, CallLogout, CallReset, Arrive,
         Step, JoinRemove, JoinPut, WalkKey, ReturnRoster, Lookup, Logout,
         AddBegin, Grow, Store, Snapshot, Copy, ReturnLines, ClearUser,
         UsersCleared, ClearLine, ReturnReset, Route, RouteToNobody, Delivered
    <3>2. c = [user |-> who[t], msg |-> what[t]] /\ pc[t] = "deliver"
      BY <1>1, <2>2, <3>1 DEF Deliver, Push
    <3>3. what[t] # None /\ Readable(what[t])
      BY <1>3, <3>2 DEF ToldInv
    <3> QED
      BY <3>2, <3>3, ReadableStays
  <2> QED
    BY <2>1, <2>2
<1> QED
  BY <1>2, <1>3 DEF ToldInv, Readable

LEMMA StepReaders ==
  ASSUME "reset" \notin Ops, TypeOK, TypeOK', TranscriptInv, ReplyInv, ToldInv,
         [Next]_vars
  PROVE  ReplyInv' /\ ToldInv'
<1>1. CASE \/ \E s \in Session : OpenPage(s) \/ ClosePage(s)
           \/ UNCHANGED vars
  BY <1>1, QuietStep DEF OpenPage, ClosePage, vars, rosterVars, linesVars,
     pageVars, callVars, args, work
<1>2. ASSUME NEW t \in Thread, CallStep(t) \/ Step(t)
      PROVE  ReplyInv' /\ ToldInv'
  BY <1>2, StepReply, StepTold
<1> QED
  BY <1>1, <1>2 DEF Next

LEMMA ReadersInvariant ==
  ASSUME "reset" \notin Ops
  PROVE  Spec => [](ReplyInv /\ ToldInv)
<1>1. Init => ReplyInv /\ ToldInv
  BY InitReply
<1>2. TypeOK /\ TypeOK' /\ TranscriptInv /\ ReplyInv /\ ToldInv /\ [Next]_vars
        => ReplyInv' /\ ToldInv'
  BY StepReaders
<1> QED
  BY <1>1, <1>2, ChatTypeOK, TranscriptIntact, PTL DEF Spec

\* In a room that is never reset, what getChatMessages copies without the
\* monitor is always the beginning of the transcript as it then is, whatever
\* number of threads add to it; only its last line can be a null
\* (Chat.getChatMessages).
THEOREM ReplyIsAPrefix ==
  ASSUME "reset" \notin Ops
  PROVE  Spec => []ReplyIsPrefix
<1>1. ReplyInv => ReplyIsPrefix
  BY DEF ReplyInv
<1> QED
  BY <1>1, ReadersInvariant, PTL

\* In a room that is never reset, a page that was told of a message finds it in
\* the transcript from then on (Chat.groupMessage adds before it sends).
THEOREM ToldMessageIsReadable ==
  ASSUME "reset" \notin Ops
  PROVE  Spec => []ToldIsReadable
<1>1. ToldInv => ToldIsReadable
  BY DEF ToldInv, ToldIsReadable, Readable
<1> QED
  BY <1>1, ReadersInvariant, PTL

-----------------------------------------------------------------------------
(***************************************************************************)
(* The roster.                                                             *)
(***************************************************************************)
LastJoin(u) == joins[u][Len(joins[u])]

\* The monitor of users is held exactly between JoinRemove and JoinPut; its
\* holder is the last to have joined under its handle and the handle is free;
\* any other handle belongs to its last join or, after a reset, to nobody.
RosterInv ==
  /\ \A t \in Thread :
       /\ At(t, "joinPut") <=> usersLock = t
       /\ At(t, "joinPut") => /\ joins[who[t]] # <<>>
                              /\ LastJoin(who[t]) = target[t]
                              /\ users[who[t]] = None
       /\ At(t, "clearUsers") => resets > 0
  /\ \A u \in User :
       IF joins[u] = <<>> THEN users[u] = None
       ELSE \/ users[u] = LastJoin(u)
            \/ /\ users[u] = None
               /\ resets > 0 \/ \E t \in Thread : At(t, "joinPut") /\ who[t] = u

\* what no step but those of join, reset and ClearUser disturbs
LEMMA RosterKept ==
  ASSUME TypeOK, RosterInv, NEW t \in Thread,
         UNCHANGED <<users, usersLock, joins>>, resets' >= resets,
         pc[t] # "joinPut", pc'[t] # "joinPut",
         pc'[t] = "clearUsers" => resets' > 0,
         resets' \in Nat,
         \A r \in Thread \ {t} : /\ pc'[r] = pc[r] /\ who'[r] = who[r]
                                 /\ target'[r] = target[r]
  PROVE  RosterInv'
<1>1. resets \in Nat
  BY DEF TypeOK
<1>2. ASSUME NEW r \in Thread
      PROVE  /\ (pc'[r] = "joinPut") <=> (usersLock' = r)
             /\ pc'[r] = "joinPut" => /\ joins'[who'[r]] # <<>>
                                      /\ LastJoin(who[r])' = target'[r]
                                      /\ users'[who'[r]] = None
             /\ pc'[r] = "clearUsers" => resets' > 0
  BY <1>1 DEF RosterInv, At, LastJoin
<1>3. ASSUME NEW u \in User
      PROVE  IF joins'[u] = <<>> THEN users'[u] = None
             ELSE \/ users'[u] = LastJoin(u)'
                  \/ /\ users'[u] = None
                     /\ \/ resets' > 0
                        \/ \E r \in Thread : pc'[r] = "joinPut" /\ who'[r] = u
  <2>1. \A r \in Thread : pc[r] = "joinPut" =>
          pc'[r] = "joinPut" /\ who'[r] = who[r]
    OBVIOUS
  <2> QED
    BY <1>1, <2>1 DEF RosterInv, At, LastJoin
<1> QED
  BY <1>2, <1>3 DEF RosterInv, At, LastJoin

LEMMA StepRoster == TypeOK /\ RosterInv /\ [Next]_vars => RosterInv'
<1> SUFFICES ASSUME TypeOK, RosterInv, [Next]_vars PROVE RosterInv'
  OBVIOUS
<1> USE DEF rosterVars, linesVars, pageVars, callVars, args, work, At, Goto
<1>1. /\ pc \in [Thread -> Label] /\ who \in [Thread -> User \cup {None}]
      /\ target \in [Thread -> Session \cup {None}]
      /\ users \in [User -> Session \cup {None}]
      /\ joins \in [User -> Seq(Session \cup {None})] /\ resets \in Nat
      /\ None \notin Thread
  BY ChatAssumption DEF TypeOK
<1>2. CASE \/ \E s \in Session : OpenPage(s) \/ ClosePage(s)
           \/ UNCHANGED vars
  <2>1. UNCHANGED <<users, usersLock, joins, pc, who, target, resets>>
    BY <1>2 DEF OpenPage, ClosePage, vars
  <2> QED
    BY <2>1 DEF RosterInv, LastJoin
<1>3. ASSUME NEW t \in Thread, CallStep(t) PROVE RosterInv'
  <2>1. \A r \in Thread \ {t} : /\ pc'[r] = pc[r] /\ who'[r] = who[r]
                                /\ target'[r] = target[r]
    BY <1>3, OtherThreads
  <2>2. /\ UNCHANGED <<users, usersLock, joins>> /\ pc[t] = "idle"
        /\ pc'[t] # "joinPut" /\ resets' >= resets /\ resets' \in Nat
        /\ pc'[t] = "clearUsers" => resets' > 0
    <3>1. CASE CallReset(t)
      BY <1>1, <3>1 DEF CallReset, Arrive
    <3>2. CASE CallJoin(t)
      BY <1>1, <3>2 DEF CallJoin, Arrive
    <3>3. CASE CallDirectMessage(t) \/ CallGroupMessage(t)
      BY <1>1, <3>3 DEF CallDirectMessage, CallGroupMessage, Arrive
    <3>4. CASE CallGetUsers(t) \/ CallGetChatMessages(t) \/ CallLogout(t)
      BY <1>1, <3>4 DEF CallGetUsers, CallGetChatMessages, CallLogout, Arrive
    <3> QED
      BY <1>3, <3>1, <3>2, <3>3, <3>4 DEF CallStep
  <2> QED
    BY <2>1, <2>2, RosterKept
<1>4. ASSUME NEW t \in Thread, JoinRemove(t) PROVE RosterInv'
  <2> DEFINE u == who[t]
  <2>1. /\ u \in User /\ usersLock = None /\ usersLock' = t
        /\ users' = [users EXCEPT ![u] = None]
        /\ joins' = [joins EXCEPT ![u] = Append(@, target[t])]
        /\ pc' = [pc EXCEPT ![t] = "joinPut"]
        /\ UNCHANGED <<who, target, resets>>
    BY <1>4 DEF JoinRemove, TypeOK
  <2> HIDE DEF u
  <2>2. joins'[u] # <<>> /\ joins'[u][Len(joins'[u])] = target[t]
    <3>1. joins[u] \in Seq(Session \cup {None})
      BY <1>1, <2>1
    <3>2. target[t] \in Session \cup {None} /\ joins'[u] = Append(joins[u], target[t])
      BY <1>1, <2>1
    <3> QED
      BY <3>1, <3>2, AppendProperties
  <2>3. \A r \in Thread : pc[r] # "joinPut"
    BY <1>1, <2>1 DEF RosterInv
  <2>4. ASSUME NEW r \in Thread
        PROVE  /\ (pc'[r] = "joinPut") <=> (usersLock' = r)
               /\ pc'[r] = "joinPut" => /\ joins'[who'[r]] # <<>>
                                        /\ LastJoin(who[r])' = target'[r]
                                        /\ users'[who'[r]] = None
               /\ pc'[r] = "clearUsers" => resets' > 0
    BY <1>1, <2>1, <2>2, <2>3 DEF RosterInv, LastJoin, u
  <2>5. ASSUME NEW v \in User
        PROVE  IF joins'[v] = <<>> THEN users'[v] = None
               ELSE \/ users'[v] = LastJoin(v)'
                    \/ /\ users'[v] = None
                       /\ \/ resets' > 0
                          \/ \E r \in Thread : pc'[r] = "joinPut" /\ who'[r] = v
    <3>1. CASE v = u
      BY <1>1, <2>1, <3>1 DEF u
    <3>2. CASE v # u
      BY <1>1, <2>1, <2>3, <3>2 DEF RosterInv, LastJoin
    <3> QED
      BY <3>1, <3>2
  <2> QED
    BY <2>4, <2>5 DEF RosterInv
<1>5. ASSUME NEW t \in Thread, JoinPut(t) PROVE RosterInv'
  <2> DEFINE u == who[t]
  <2>1. /\ u \in User /\ usersLock = t /\ usersLock' = None
        /\ users[u] = None /\ joins[u] # <<>> /\ LastJoin(u) = target[t]
        /\ users' = [users EXCEPT ![u] = target[t]]
        /\ pc' = [pc EXCEPT ![t] = "route"]
        /\ target' = [target EXCEPT ![t] = None]
        /\ UNCHANGED <<who, joins, resets>>
    BY <1>5 DEF JoinPut, PutIfAbsent, RosterInv, TypeOK
  <2> HIDE DEF u
  <2>2. \A r \in Thread \ {t} : pc[r] # "joinPut"
    BY <2>1 DEF RosterInv
  <2>3. \A r \in Thread : pc'[r] # "joinPut" /\ usersLock' # r
    BY <1>1, <2>1, <2>2
  <2>4. \A r \in Thread : pc'[r] = "clearUsers" => resets' > 0
    BY <1>1, <2>1 DEF RosterInv
  <2>5. ASSUME NEW v \in User
        PROVE  IF joins'[v] = <<>> THEN users'[v] = None
               ELSE \/ users'[v] = LastJoin(v)'
                    \/ users'[v] = None /\ resets' > 0
    <3>1. CASE v = u
      BY <1>1, <2>1, <3>1 DEF LastJoin
    <3>2. CASE v # u
      <4>1. ~\E r \in Thread : pc[r] = "joinPut" /\ who[r] = v
        BY <2>2, <3>2 DEF u
      <4> QED
        BY <1>1, <2>1, <3>2, <4>1 DEF RosterInv, LastJoin
    <3> QED
      BY <3>1, <3>2
  <2> QED
    BY <2>3, <2>4, <2>5 DEF RosterInv
<1>6. ASSUME NEW t \in Thread, ClearUser(t) PROVE RosterInv'
  <2>1. PICK v \in todo[t] : users' = [users EXCEPT ![v] = None]
    BY <1>6 DEF ClearUser
  <2>2. /\ pc[t] = "clearUsers" /\ resets > 0
        /\ UNCHANGED <<usersLock, joins, pc, who, target, resets>>
    BY <1>6 DEF ClearUser, RosterInv
  <2>3. \A w \in User : users'[w] = users[w] \/ users'[w] = None
    BY <1>1, <2>1
  <2>4. \A r \in Thread : pc[r] = "joinPut" => who[r] \in User
    BY DEF TypeOK
  <2> QED
    BY <2>2, <2>3, <2>4 DEF RosterInv, LastJoin
<1>7. ASSUME NEW t \in Thread, Step(t),
             ~(JoinRemove(t) \/ JoinPut(t) \/ ClearUser(t))
      PROVE  RosterInv'
  <2>1. \A r \in Thread \ {t} : /\ pc'[r] = pc[r] /\ who'[r] = who[r]
                                /\ target'[r] = target[r]
    BY <1>7, OtherThreads
  <2>2. CASE \/ WalkKey(t) \/ Lookup(t)
             \/ AddBegin(t) \/ Grow(t) \/ Store(t) \/ Snapshot(t) \/ Copy(t)
             \/ UsersCleared(t) \/ ClearLine(t) \/ Route(t) \/ Deliver(t)
    <3>1. /\ UNCHANGED <<users, usersLock, joins, resets>>
          /\ pc[t] # "joinPut" /\ pc'[t] \notin {"joinPut", "clearUsers"}
      BY <1>1, <2>2 DEF WalkKey, Lookup, AddBegin, Grow, Store, Snapshot, Copy,
                        UsersCleared, ClearLine, Route, Deliver
    <3> QED
      BY <1>1, <2>1, <3>1, RosterKept
  <2>3. CASE \/ ReturnRoster(t) \/ Logout(t) \/ ReturnLines(t) \/ ReturnReset(t)
             \/ RouteToNobody(t) \/ Delivered(t)
    <3>1. /\ UNCHANGED <<users, usersLock, joins, resets>> /\ Return(t)
          /\ pc[t] # "joinPut"
      BY <2>3 DEF ReturnRoster, Logout, ReturnLines, ReturnReset,
                  RouteToNobody, Delivered
    <3> QED
      BY <1>1, <2>1, <3>1, RosterKept DEF Return
  <2> QED
    BY <1>7, <2>2, <2>3 DEF Step
<1> QED
  BY <1>2, <1>3, <1>4, <1>5, <1>6, <1>7 DEF Next

LEMMA RosterInvariant == Spec => []RosterInv
<1>1. Init => RosterInv
  BY ChatAssumption DEF Init, RosterInv, At
<1>2. TypeOK /\ RosterInv /\ [Next]_vars => RosterInv'
  BY StepRoster
<1> QED
  BY <1>1, <1>2, ChatTypeOK, PTL DEF Spec

\* Whatever joins, logouts, lookups and resets overlap, while no join is between
\* its remove and its putIfAbsent every user is registered under the session of
\* its last join or, after a reset, under none (Chat.join).
THEOREM LastJoinIsRegistered == Spec => []LastJoinWins
<1>1. TypeOK /\ RosterInv => LastJoinWins
  <2> SUFFICES ASSUME TypeOK, RosterInv, usersLock = None, NEW u \in User
               PROVE  IF joins[u] = <<>> THEN users[u] = None
                      ELSE \/ users[u] = joins[u][Len(joins[u])]
                           \/ users[u] = None /\ resets > 0
    BY DEF LastJoinWins
  <2>1. \A t \in Thread : ~At(t, "joinPut")
    BY ChatAssumption DEF RosterInv
  <2> QED
    BY <2>1 DEF RosterInv, LastJoin
<1> QED
  BY <1>1, RosterInvariant, ChatTypeOK, PTL


-----------------------------------------------------------------------------
(***************************************************************************)
(* Direct messages.                                                        *)
(***************************************************************************)
\* Only directMessage has both a user and a text among its arguments, and the
\* sessions that join writes are those of pages.
ArgsInv ==
  /\ \A t \in Thread :
       /\ At(t, "idle") => who[t] = None /\ what[t] = None
       /\ pc[t] \in {"join", "joinPut"} => what[t] = None /\ target[t] \in Session
       /\ pc[t] \in Adding => who[t] = None
  /\ joins \in [User -> Seq(Session)]

\* a user who has joined; if only once, the entry is that of the join
Registered(u) ==
  joins[u] # <<>> /\ (Len(joins[u]) = 1 => users[u] = joins[u][1])

Direct(t) == who[t] # None /\ what[t] # None

\* In a room that was not reset, the users that pages know of are registered; a
\* direct message on its way to one that has joined once is addressed to the
\* session of the join, and so are those that were pushed.
PrivacyInv ==
  resets = 0 =>
    /\ \A u \in known : Registered(u)
    /\ \A t \in Thread : \A u \in listed[t] : Registered(u)
    /\ \A t \in Thread :
         /\ At(t, "lookup") => who[t] \in known
         /\ pc[t] \in {"route", "deliver"} /\ Direct(t) => who[t] \in known
         /\ At(t, "route") /\ Direct(t) /\ Len(joins[who[t]]) = 1 =>
              target[t] = joins[who[t]][1]
         /\ At(t, "deliver") /\ Direct(t) /\ Len(joins[who[t]]) = 1 =>
              todo[t] \subseteq {joins[who[t]][1]}
    /\ \A s \in Session : \A c \in pushed[s] :
         c.user # None /\ c.msg # None =>
           /\ joins[c.user] # <<>>
           /\ Len(joins[c.user]) = 1 => joins[c.user][1] = s


LEMMA StepArgs == TypeOK /\ ArgsInv /\ [Next]_vars => ArgsInv'
<1> SUFFICES ASSUME TypeOK, ArgsInv, [Next]_vars PROVE ArgsInv'
  OBVIOUS
<1> USE DEF rosterVars, linesVars, pageVars, callVars, args, work, At, Goto
<1>1. CASE \/ \E s \in Session : OpenPage(s) \/ ClosePage(s)
           \/ UNCHANGED vars
  BY <1>1 DEF OpenPage, ClosePage, vars, ArgsInv
<1>2. ASSUME NEW t \in Thread, CallStep(t) \/ Step(t) PROVE ArgsInv'
  <2>1. /\ pc \in [Thread -> Label] /\ who \in [Thread -> User \cup {None}]
        /\ what \in [Thread -> Line]
        /\ target \in [Thread -> Session \cup {None}]
        /\ joins \in [User -> Seq(Session)]
    BY DEF TypeOK, ArgsInv
  <2>2. \A r \in Thread \ {t} : /\ pc'[r] = pc[r] /\ who'[r] = who[r]
                                /\ what'[r] = what[r] /\ target'[r] = target[r]
    BY <1>2, OtherThreads
  <2>3. SUFFICES ASSUME NEW l, pc'[t] = l
                 PROVE  /\ l = "idle" => who'[t] = None /\ what'[t] = None
                        /\ l \in {"join", "joinPut"} =>
                             what'[t] = None /\ target'[t] \in Session
                        /\ l \in Adding => who'[t] = None
                        /\ joins' \in [User -> Seq(Session)]
    BY <2>2 DEF ArgsInv
  <2> USE DEF Adding
  <2>4. CASE CallStep(t)
    <3>1. pc[t] = "idle" /\ who[t] = None /\ what[t] = None /\ joins' = joins
      BY <2>4 DEF ArgsInv, CallStep, CallJoin, CallGetUsers, CallDirectMessage,
         CallGroupMessage, CallGetChatMessages, CallLogout, CallReset, Arrive
    <3>2. CASE CallJoin(t)
      BY <2>1, <2>3, <3>1, <3>2 DEF CallJoin, Arrive, Open
    <3>3. CASE CallDirectMessage(t)
      BY <2>1, <2>3, <3>1, <3>3 DEF CallDirectMessage, Arrive
    <3>4. CASE CallGroupMessage(t)
      BY <2>1, <2>3, <3>1, <3>4 DEF CallGroupMessage, Arrive
    <3>5. CASE \/ CallGetUsers(t) \/ CallGetChatMessages(t) \/ CallLogout(t)
               \/ CallReset(t)
      BY <2>1, <2>3, <3>1, <3>5 DEF CallGetUsers, CallGetChatMessages,
         CallLogout, CallReset, Arrive
    <3> QED
      BY <2>4, <3>2, <3>3, <3>4, <3>5 DEF CallStep
  <2>5. CASE JoinRemove(t)
    <3>1. target[t] \in Session /\ what[t] = None /\ UNCHANGED <<what, target>>
      BY <2>5 DEF JoinRemove, ArgsInv
    <3>2. joins' \in [User -> Seq(Session)]
      BY <2>1, <2>5, <3>1, AppendProperties DEF JoinRemove
    <3> QED
      BY <2>1, <2>3, <2>5, <3>1, <3>2 DEF JoinRemove
  <2>6. CASE AddBegin(t) \/ Grow(t) \/ Store(t)
    <3>1. who[t] = None /\ who' = who /\ joins' = joins
          /\ pc'[t] \in {"grow", "store", "route"}
      BY <2>1, <2>6 DEF AddBegin, Grow, Store, ArgsInv
    <3> QED
      BY <2>1, <2>3, <3>1
  <2>7. CASE \/ JoinPut(t) \/ Lookup(t) \/ Snapshot(t) \/ UsersCleared(t)
             \/ Route(t)
    <3>1. joins' = joins
          /\ pc'[t] \in {"route", "copy", "clearLines", "deliver"}
      BY <2>1, <2>7 DEF JoinPut, Lookup, Snapshot, UsersCleared, Route
    <3> QED
      BY <2>1, <2>3, <3>1
  <2>8. CASE WalkKey(t) \/ Copy(t) \/ ClearUser(t) \/ ClearLine(t) \/ Deliver(t)
    <3>1. joins' = joins
          /\ pc'[t] \in {"walk", "copy", "clearUsers", "clearLines", "deliver"}
      BY <2>1, <2>8 DEF WalkKey, Copy, ClearUser, ClearLine, Deliver
    <3> QED
      BY <2>1, <2>3, <3>1
  <2>9. CASE \/ ReturnRoster(t) \/ Logout(t) \/ ReturnLines(t)
             \/ ReturnReset(t) \/ RouteToNobody(t) \/ Delivered(t)
    <3>1. Return(t) /\ joins' = joins
      BY <2>9 DEF ReturnRoster, Logout, ReturnLines, ReturnReset,
                  RouteToNobody, Delivered
    <3> QED
      BY <2>1, <2>3, <3>1 DEF Return
  <2> QED
    BY <1>2, <2>4, <2>5, <2>6, <2>7, <2>8, <2>9 DEF Step
<1> QED
  BY <1>1, <1>2 DEF Next

\* in a room that was not reset, a registered user stays registered, and the
\* last join stays the only one until there is another
LEMMA RegisteredStays ==
  ASSUME TypeOK, ArgsInv, RosterInv, NEW t \in Thread, CallStep(t) \/ Step(t),
         resets = 0, NEW u \in User, joins[u] # <<>>
  PROVE  /\ joins'[u] # <<>>
         /\ Len(joins'[u]) = 1 => joins'[u] = joins[u]
         /\ Registered(u) => Registered(u)'
<1> USE DEF rosterVars, linesVars, pageVars, callVars, args, work, At
<1>1. joins[u] \in Seq(Session) /\ users \in [User -> Session \cup {None}]
      /\ joins \in [User -> Seq(Session)]
  BY DEF TypeOK, ArgsInv
<1>2. CASE JoinRemove(t)
  <2>1. CASE who[t] = u
    <3>1. joins'[u] = Append(joins[u], target[t]) /\ target[t] \in Session
      BY <1>1, <1>2, <2>1 DEF JoinRemove, ArgsInv
    <3>2. Len(joins'[u]) = Len(joins[u]) + 1 /\ joins'[u] # <<>>
      BY <1>1, <3>1, AppendProperties
    <3>3. Len(joins'[u]) # 1
      BY <1>1, <3>2, EmptySeq
    <3> QED
      BY <3>2, <3>3 DEF Registered
  <2>2. CASE who[t] # u
    <3>1. joins'[u] = joins[u] /\ users'[u] = users[u]
      BY <1>1, <1>2, <2>2 DEF JoinRemove
    <3> QED
      BY <3>1 DEF Registered
  <2> QED
    BY <2>1, <2>2
<1>3. CASE JoinPut(t)
  <2>1. joins' = joins
    BY <1>3 DEF JoinPut
  <2>2. CASE who[t] = u
    <3>1. /\ users[u] = None /\ users'[u] = target[t]
          /\ LastJoin(u) = target[t]
      BY <1>1, <1>3, <2>2 DEF JoinPut, PutIfAbsent, RosterInv
    <3> QED
      BY <2>1, <3>1 DEF Registered, LastJoin
  <2>3. CASE who[t] # u
    <3>1. users'[u] = users[u]
      BY <1>1, <1>3, <2>3 DEF JoinPut, PutIfAbsent
    <3> QED
      BY <2>1, <3>1 DEF Registered
  <2> QED
    BY <2>2, <2>3
<1>4. CASE ClearUser(t)
  BY <1>4 DEF ClearUser, RosterInv, TypeOK
<1>5. CASE CallStep(t)
  <2>1. users' = users /\ joins' = joins
    BY <1>5 DEF CallStep, CallJoin, CallGetUsers, CallDirectMessage,
       CallGroupMessage, CallGetChatMessages, CallLogout, CallReset, Arrive
  <2> QED
    BY <2>1 DEF Registered
<1>6. CASE Step(t) /\ ~(JoinRemove(t) \/ JoinPut(t) \/ ClearUser(t))
  <2>1. users' = users /\ joins' = joins
    BY <1>6 DEF Step, WalkKey, ReturnRoster, Lookup, Logout, AddBegin, Grow,
       Store, Snapshot, Copy, ReturnLines, UsersCleared, ClearLine,
       ReturnReset, Route, RouteToNobody, Deliver, Delivered
  <2> QED
    BY <2>1 DEF Registered
<1> QED
  BY <1>2, <1>3, <1>4, <1>5, <1>6

\* what the pages know and what getUsers has found
LEMMA StepKnown ==
  ASSUME TypeOK, ArgsInv, RosterInv, PrivacyInv, resets = 0,
         NEW t \in Thread, CallStep(t) \/ Step(t)
  PROVE  /\ known \subseteq known'
         /\ \A u \in known' : Registered(u)'
         /\ \A r \in Thread : \A u \in listed'[r] : Registered(u)'
<1> USE DEF rosterVars, linesVars, pageVars, callVars, args, work, At
<1>1. /\ listed \in [Thread -> SUBSET User] /\ known \in SUBSET User
      /\ \A u \in known : Registered(u)
      /\ \A r \in Thread : \A u \in listed[r] : Registered(u)
  BY DEF TypeOK, PrivacyInv
<1>2. \A u \in User : Registered(u) => Registered(u)'
  BY RegisteredStays DEF Registered
<1>3. CASE WalkKey(t)
  <2>1. PICK u \in todo[t] :
          listed' = IF users[u] = None THEN listed
                    ELSE [listed EXCEPT ![t] = @ \cup {u}]
    BY <1>3 DEF WalkKey
  <2>2. known' = known /\ u \in User
    BY <1>3 DEF WalkKey, TypeOK
  <2>3. users[u] # None => Registered(u)
    BY <2>2 DEF RosterInv, LastJoin, Registered
  <2>4. \A r \in Thread : \A v \in listed'[r] :
          v \in listed[r] \/ (v = u /\ users[u] # None)
    BY <1>1, <2>1
  <2> QED
    BY <1>1, <1>2, <2>2, <2>3, <2>4
<1>4. CASE ReturnRoster(t)
  <2>1. /\ known' = known \cup listed[t]
        /\ listed' = [listed EXCEPT ![t] = {}]
    BY <1>4 DEF ReturnRoster, Return
  <2>2. \A r \in Thread : listed'[r] \subseteq listed[r]
    BY <1>1, <2>1
  <2> QED
    BY <1>1, <1>2, <2>1, <2>2
<1>5. CASE ~(WalkKey(t) \/ ReturnRoster(t))
  <2>1. known' = known
    BY <1>5 DEF CallStep, CallJoin, CallGetUsers, CallDirectMessage,
       CallGroupMessage, CallGetChatMessages, CallLogout, CallReset, Arrive,
       Step, JoinRemove, JoinPut, Lookup, Logout, AddBegin, Grow, Store,
       Snapshot, Copy, ReturnLines, ClearUser, UsersCleared, ClearLine,
       ReturnReset, Route, RouteToNobody, Deliver, Delivered
  <2>2. \A r \in Thread : listed'[r] \subseteq listed[r]
    <3>1. CASE listed' = listed
      BY <3>1
    <3>2. CASE Return(t)
      BY <1>1, <3>2 DEF Return
    <3> QED
      BY <1>5, <3>1, <3>2 DEF CallStep, CallJoin, CallGetUsers,
         CallDirectMessage, CallGroupMessage, CallGetChatMessages, CallLogout,
         CallReset, Arrive, Step, JoinRemove, JoinPut, Lookup, Logout, AddBegin,
         Grow, Store, Snapshot, Copy, ReturnLines, ClearUser, UsersCleared,
         ClearLine, ReturnReset, Route, RouteToNobody, Deliver, Delivered
  <2> QED
    BY <1>1, <1>2, <2>1, <2>2
<1> QED
  BY <1>3, <1>4, <1>5


\* the direct messages on their way
LEMMA StepAddressed ==
  ASSUME TypeOK, ArgsInv, RosterInv, PrivacyInv, resets = 0,
         NEW t \in Thread, CallStep(t) \/ Step(t), NEW r \in Thread
  PROVE  /\ pc'[r] = "lookup" => who'[r] \in known'
         /\ pc'[r] \in {"route", "deliver"} /\ Direct(r)' =>
              /\ who'[r] \in known'
              /\ Len(joins'[who'[r]]) = 1 =>
                   IF pc'[r] = "route" THEN target'[r] = joins'[who'[r]][1]
                   ELSE todo'[r] \subseteq {joins'[who'[r]][1]}
<1> USE DEF rosterVars, linesVars, pageVars, callVars, args, work, At, Goto
<1>1. /\ pc \in [Thread -> Label] /\ who \in [Thread -> User \cup {None}]
      /\ what \in [Thread -> Line] /\ target \in [Thread -> Session \cup {None}]
      /\ todo \in [Thread -> SUBSET (User \cup Session)]
      /\ joins \in [User -> Seq(Session)]
      /\ known \in SUBSET User /\ None \notin User \cup Session
  BY ChatAssumption DEF TypeOK, ArgsInv
<1>2. known \subseteq known' /\ \A u \in known : Registered(u)
  BY StepKnown DEF PrivacyInv
<1>3. \A u \in known : /\ joins'[u] # <<>>
                       /\ Len(joins'[u]) = 1 => joins'[u] = joins[u]
  BY <1>1, <1>2, RegisteredStays DEF Registered
<1>4. /\ pc[r] = "lookup" => who[r] \in known
      /\ pc[r] \in {"route", "deliver"} /\ Direct(r) =>
           /\ who[r] \in known
           /\ Len(joins[who[r]]) = 1 =>
                IF pc[r] = "route" THEN target[r] = joins[who[r]][1]
                ELSE todo[r] \subseteq {joins[who[r]][1]}
  BY DEF PrivacyInv
<1>5. CASE UNCHANGED <<pc[r], who[r], what[r], target[r], todo[r]>>
  BY <1>2, <1>3, <1>4, <1>5 DEF Direct
<1>6. CASE r = t /\ CallDirectMessage(t)
  <2>1. who'[t] \in known /\ pc'[t] = "lookup"
    BY <1>1, <1>6 DEF CallDirectMessage, Arrive
  <2> QED
    BY <1>2, <1>6, <2>1
<1>7. CASE r = t /\ Lookup(t)
  <2>1. /\ pc[t] = "lookup" /\ pc'[t] = "route"
        /\ target'[t] = users[who[t]] /\ UNCHANGED <<who, what, joins>>
    BY <1>1, <1>7 DEF Lookup
  <2>2. who[t] \in known /\ Registered(who[t])
    BY <1>2, <1>4, <1>7, <2>1
  <2> QED
    BY <1>2, <1>7, <2>1, <2>2 DEF Registered
<1>8. CASE r = t /\ (JoinPut(t) \/ Store(t))
  <2>1. pc'[t] = "route" /\ UNCHANGED <<who, what>>
    BY <1>1, <1>8 DEF JoinPut, Store
  <2>2. who[t] = None \/ what[t] = None
    BY <1>8 DEF JoinPut, Store, ArgsInv, Adding
  <2> QED
    BY <1>8, <2>1, <2>2 DEF Direct
<1>9. CASE r = t /\ Route(t)
  <2>1. /\ pc[t] = "route" /\ pc'[t] = "deliver"
        /\ todo'[t] = Recipients(target[t]) /\ UNCHANGED <<who, what, joins>>
    BY <1>1, <1>9 DEF Route
  <2>2. SUFFICES ASSUME Direct(t)
                 PROVE  /\ who[t] \in known
                        /\ Len(joins[who[t]]) = 1 =>
                             todo'[t] \subseteq {joins[who[t]][1]}
    BY <1>2, <1>9, <2>1 DEF Direct
  <2>3. /\ who[t] \in known
        /\ Len(joins[who[t]]) = 1 => target[t] = joins[who[t]][1]
    BY <1>4, <1>9, <2>1, <2>2
  <2>4. ASSUME Len(joins[who[t]]) = 1
        PROVE  todo'[t] \subseteq {joins[who[t]][1]}
    <3>1. joins[who[t]] \in Seq(Session)
      BY <1>1, <2>3
    <3>2. target[t] = joins[who[t]][1] /\ target[t] \in Session
      BY <2>3, <2>4, <3>1
    <3> QED
      BY <1>1, <2>1, <3>2 DEF Recipients
  <2> QED
    BY <2>3, <2>4
<1>10. CASE r = t /\ Deliver(t)
  <2>1. /\ pc[t] = "deliver" /\ pc'[t] = "deliver"
        /\ todo'[t] \subseteq todo[t] /\ UNCHANGED <<who, what, joins>>
    BY <1>1, <1>10 DEF Deliver
  <2> QED
    BY <1>2, <1>4, <1>10, <2>1 DEF Direct
<1>11. CASE r = t /\ ~(\/ CallDirectMessage(t) \/ Lookup(t) \/ JoinPut(t)
                       \/ Store(t) \/ Route(t) \/ Deliver(t))
  <2>1. pc'[t] \notin {"lookup", "route", "deliver"}
    <3>1. CASE CallStep(t)
      BY <1>1, <1>11, <3>1 DEF CallStep, CallJoin, CallGetUsers,
         CallGroupMessage, CallGetChatMessages, CallLogout, CallReset, Arrive
    <3>2. CASE \/ JoinRemove(t) \/ AddBegin(t) \/ Grow(t) \/ Snapshot(t)
               \/ UsersCleared(t) \/ WalkKey(t) \/ Copy(t) \/ ClearUser(t)
               \/ ClearLine(t)
      BY <1>1, <3>2 DEF JoinRemove, AddBegin, Grow, Snapshot, UsersCleared,
                        WalkKey, Copy, ClearUser, ClearLine
    <3>3. CASE \/ ReturnRoster(t) \/ Logout(t) \/ ReturnLines(t)
               \/ ReturnReset(t) \/ RouteToNobody(t) \/ Delivered(t)
      <4>1. Return(t)
        BY <3>3 DEF ReturnRoster, Logout, ReturnLines, ReturnReset,
                    RouteToNobody, Delivered
      <4> QED
        BY <1>1, <4>1 DEF Return
    <3> QED
      BY <1>11, <3>1, <3>2, <3>3 DEF Step
  <2> QED
    BY <1>11, <2>1
<1>12. CASE r # t
  BY <1>5, <1>12, OtherThreads
<1> QED
  BY <1>6, <1>7, <1>8, <1>9, <1>10, <1>11, <1>12

\* the direct messages that were pushed
LEMMA StepPushed ==
  ASSUME TypeOK, ArgsInv, RosterInv, PrivacyInv, resets = 0,
         NEW t \in Thread, CallStep(t) \/ Step(t),
         NEW s \in Session, NEW c \in pushed'[s], c.user # None, c.msg # None
  PROVE  /\ joins'[c.user] # <<>>
         /\ Len(joins'[c.user]) = 1 => joins'[c.user][1] = s
<1> USE DEF rosterVars, linesVars, pageVars, callVars, args, work, At
<1>1. pushed \in [Session -> SUBSET ScriptCall] /\ known \in SUBSET User
  BY DEF TypeOK
<1>2. CASE c \in pushed[s]
  <2>1. c.user \in User
    BY <1>1, <1>2 DEF ScriptCall
  <2>2. /\ joins[c.user] # <<>>
        /\ Len(joins[c.user]) = 1 => joins[c.user][1] = s
    BY <1>2 DEF PrivacyInv
  <2> QED
    BY <2>1, <2>2, RegisteredStays
<1>3. CASE c \notin pushed[s]
  <2>1. Deliver(t)
    BY <1>3 DEF CallStep, CallJoin, CallGetUsers, CallDirectMessage,
       CallGroupMessage, CallGetChatMessages, CallLogout, CallReset, Arrive,
       Step, JoinRemove, JoinPut, WalkKey, ReturnRoster, Lookup, Logout,
       AddBegin, Grow, Store, Snapshot, Copy, ReturnLines, ClearUser,
       UsersCleared, ClearLine, ReturnReset, Route, RouteToNobody, Delivered
  <2>2. /\ pc[t] = "deliver" /\ s \in todo[t] /\ joins' = joins
        /\ c = [user |-> who[t], msg |-> what[t]]
    BY <1>1, <1>3, <2>1 DEF Deliver, Push
  <2>3. Direct(t) /\ c.user = who[t]
    BY <2>2 DEF Direct
  <2>4. /\ who[t] \in known
        /\ Len(joins[who[t]]) = 1 => todo[t] \subseteq {joins[who[t]][1]}
    BY <2>2, <2>3 DEF PrivacyInv
  <2>5. joins[who[t]] # <<>>
    BY <2>4 DEF PrivacyInv, Registered
  <2> QED
    BY <2>2, <2>3, <2>4, <2>5
<1> QED
  BY <1>2, <1>3

LEMMA StepPrivacy ==
  TypeOK /\ ArgsInv /\ RosterInv /\ PrivacyInv /\ [Next]_vars => PrivacyInv'
<1> SUFFICES ASSUME TypeOK, ArgsInv, RosterInv, PrivacyInv, [Next]_vars
             PROVE  PrivacyInv'
  OBVIOUS
<1>1. CASE \/ \E s \in Session : OpenPage(s) \/ ClosePage(s)
           \/ UNCHANGED vars
  <2>1. UNCHANGED <<resets, known, listed, pc, who, what, target, todo, joins,
                    users, pushed>>
    BY <1>1 DEF OpenPage, ClosePage, vars, rosterVars, pageVars, callVars,
                args, work
  <2> QED
    BY <2>1 DEF PrivacyInv, Registered, Direct, At
<1>2. ASSUME NEW t \in Thread, CallStep(t) \/ Step(t), resets' = 0
      PROVE  PrivacyInv'
  <2>1. resets = 0
    <3>1. resets' = resets \/ resets' = resets + 1
      BY <1>2 DEF CallStep, CallJoin, CallGetUsers, CallDirectMessage,
         CallGroupMessage, CallGetChatMessages, CallLogout, CallReset, Arrive,
         Step, JoinRemove, JoinPut, WalkKey, ReturnRoster, Lookup, Logout,
         AddBegin, Grow, Store, Snapshot, Copy, ReturnLines, ClearUser,
         UsersCleared, ClearLine, ReturnReset, Route, RouteToNobody, Deliver,
         Delivered, callVars
    <3> QED
      BY <1>2, <3>1 DEF TypeOK
  <2>2. /\ \A u \in known' : Registered(u)'
        /\ \A r \in Thread : \A u \in listed'[r] : Registered(u)'
    BY <1>2, <2>1, StepKnown
  <2>3. \A r \in Thread :
          /\ pc'[r] = "lookup" => who'[r] \in known'
          /\ pc'[r] \in {"route", "deliver"} /\ Direct(r)' =>
               /\ who'[r] \in known'
               /\ Len(joins'[who'[r]]) = 1 =>
                    IF pc'[r] = "route" THEN target'[r] = joins'[who'[r]][1]
                    ELSE todo'[r] \subseteq {joins'[who'[r]][1]}
    BY <1>2, <2>1, StepAddressed
  <2>4. \A s \in Session : \A c \in pushed'[s] :
          c.user # None /\ c.msg # None =>
            /\ joins'[c.user] # <<>>
            /\ Len(joins'[c.user]) = 1 => joins'[c.user][1] = s
    BY <1>2, <2>1, StepPushed
  <2> QED
    BY <2>2, <2>3, <2>4 DEF PrivacyInv, At
<1>3. CASE resets' # 0
  BY <1>3 DEF PrivacyInv
<1> QED
  BY <1>1, <1>2, <1>3 DEF Next

\* Whatever joins, lookups and logouts overlap, in a room that was not reset a
\* direct message reaches no page but the one its addressee has joined from, if
\* that was once only (Chat.join, Chat.directMessage, the adapter's recipients).
THEOREM DirectMessageIsPrivate == Spec => []SettledMessageIsPrivate
<1>1. Init => ArgsInv /\ PrivacyInv
  <2> SUFFICES ASSUME Init PROVE ArgsInv /\ PrivacyInv
    OBVIOUS
  <2>1. <<>> \in Seq(Session)
    BY EmptySeq
  <2> QED
    BY <2>1 DEF Init, ArgsInv, PrivacyInv, Adding, At
<1>2. TypeOK /\ ArgsInv /\ [Next]_vars => ArgsInv'
  BY StepArgs
<1>3. TypeOK /\ ArgsInv /\ RosterInv /\ PrivacyInv /\ [Next]_vars => PrivacyInv'
  BY StepPrivacy
<1>4. PrivacyInv => SettledMessageIsPrivate
  BY DEF PrivacyInv, SettledMessageIsPrivate
<1> QED
  BY <1>1, <1>2, <1>3, <1>4, ChatTypeOK, RosterInvariant, PTL DEF Spec

=============================================================================
