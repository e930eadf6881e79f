----------------------------- MODULE PageProofs -----------------------------
(***************************************************************************)
(* Proofs about a page: its events, what it loads, where its boxes are and *)
(* which of its elements a filter means.                                   *)
(*                                                                         *)
(* PageEvents: the flag that makes jQuery deaf, and the stack of the       *)
(* dispatches within each other.  DeafInv ties the two together: an echo is*)
(* the innermost dispatch, with nothing to run, and the flag is up as long *)
(* as there is one.                                                        *)
(*                                                                         *)
(* ChangeEvents: change and submit where they do not bubble.  What the     *)
(* handlers know of a field follows from what testChange heard of it last, *)
(* and ChangeInv says what that is, for the field the user is in and for   *)
(* the other buttons of its group.                                         *)
(*                                                                         *)
(* PageLoad: which answer a part of the page shows, and which its callback *)
(* finds there.  BoxModel and Placement: what is measured and what is set, *)
(* for any boxes.  ElementTests: attributes and numbers, for any strings   *)
(* and equations.                                                          *)
(***************************************************************************)
EXTENDS PageEvents, ChangeEvents, PageLoad, Placement, ElementTests, WellFoundedInduction, TLAPS

IsFrame(f) ==
  f = [kind |-> f.kind, target |-> f.target, node |-> f.node, path |-> f.path, todo |-> f.todo,
       stopped |-> f.stopped, prevented |-> f.prevented, liveFired |-> f.liveFired]

Echo(f) == f.kind = "echo"

\* What the stack says of the flag; an echo is the innermost dispatch and has
\* nothing to run.
Deaf(frames, flag) ==
  /\ flag \in BOOLEAN
  /\ flag <=> \E i \in DOMAIN frames : Echo(frames[i])
  /\ \A i \in DOMAIN frames : Echo(frames[i]) => frames[i].todo = <<>> /\ i = 1

Frames(frames) == (\E S : frames \in Seq(S)) /\ \A i \in DOMAIN frames : IsFrame(frames[i])

\* no echo among them
Quiet(frames) == Frames(frames) /\ \A i \in DOMAIN frames : ~Echo(frames[i])

DeafInv == Frames(stack) /\ Deaf(stack, triggered)
-----------------------------------------------------------------------------
LEMMA LeastNatural ==
  ASSUME NEW T \in SUBSET Nat, T # {}
  PROVE  \E m \in T : \A k \in T : m <= k
<1>1. IsWellFoundedOn(OpToRel(<, Nat), Nat)
  BY NatLessThanWellFounded
<1>2. PICK m \in T : \A k \in T : ~ (<<k, m>> \in OpToRel(<, Nat))
  BY <1>1, WFMin, Zenon
<1>3. \A k \in T : ~ (k < m)
  BY <1>2 DEF OpToRel
<1> QED BY <1>3

LEMMA QuietIsDeafless ==
  ASSUME NEW frames, Quiet(frames)
  PROVE  Frames(frames) /\ Deaf(frames, FALSE)
  BY DEF Quiet, Deaf

LEMMA NoEchoOnTop ==
  ASSUME DeafInv, stack # <<>> => ~Echo(Top)
  PROVE  Quiet(stack) /\ triggered = FALSE
<1>1. PICK S : stack \in Seq(S)
  BY DEF DeafInv, Frames
<1>2. stack # <<>> => Top = stack[1]
  BY <1>1 DEF Top
<1>3. stack = <<>> => DOMAIN stack = {}
  OBVIOUS
<1>4. \A i \in DOMAIN stack : ~Echo(stack[i])
  BY <1>2, <1>3 DEF DeafInv, Deaf
<1>5. triggered = FALSE
  BY <1>4 DEF DeafInv, Deaf
<1> QED BY <1>4, <1>5 DEF DeafInv, Quiet

LEMMA TopIsFrame ==
  ASSUME Frames(stack), stack # <<>>
  PROVE  IsFrame(Top) /\ Top = stack[1] /\ 1 \in DOMAIN stack
<1>1. PICK S : stack \in Seq(S)
  BY DEF Frames
<1>2. 1 \in DOMAIN stack /\ Top = stack[1]
  BY <1>1 DEF Top
<1> QED BY <1>2 DEF Frames

\* A frame in front of frames.
LEMMA Fronted ==
  ASSUME NEW S, NEW q \in Seq(S), NEW f
  PROVE  \E T : /\ <<f>> \o q \in Seq(T)
                /\ DOMAIN (<<f>> \o q) = 1 .. Len(q) + 1 /\ DOMAIN q = 1 .. Len(q) /\ Len(q) \in Nat
                /\ (<<f>> \o q)[1] = f /\ \A i \in 2 .. Len(q) + 1 : (<<f>> \o q)[i] = q[i - 1]
<1>1. PICK T : T = S \cup {f}
  OBVIOUS
<1>2. q \in Seq(T) /\ <<f>> \in Seq(T) /\ Len(<<f>>) = 1 /\ <<f>>[1] = f /\ f \in T
  BY <1>1
<1>3. PICK one \in Seq(T) : one = <<f>>
  BY <1>2
<1>4. PICK r : r = one \o q
  OBVIOUS
<1>5. r \in Seq(T) /\ DOMAIN r = 1 .. Len(q) + 1 /\ r[1] = f /\ \A i \in 2 .. Len(q) + 1 : r[i] = q[i - 1]
  BY <1>2, <1>3, <1>4
<1>6. DOMAIN q = 1 .. Len(q) /\ Len(q) \in Nat
  OBVIOUS
<1> QED BY <1>3, <1>4, <1>5, <1>6

LEMMA FrontedIsQuiet ==
  ASSUME NEW q, Quiet(q), NEW f, IsFrame(f)
  PROVE  /\ Frames(<<f>> \o q)
         /\ ~Echo(f) => Quiet(<<f>> \o q)
         /\ Echo(f) /\ f.todo = <<>> => Deaf(<<f>> \o q, TRUE)
<1>1. PICK S : q \in Seq(S)
  BY DEF Quiet, Frames
<1>2. PICK r : r = <<f>> \o q
  OBVIOUS
<1>3. PICK T : /\ r \in Seq(T)
               /\ DOMAIN r = 1 .. Len(q) + 1 /\ DOMAIN q = 1 .. Len(q) /\ Len(q) \in Nat
               /\ r[1] = f /\ \A i \in 2 .. Len(q) + 1 : r[i] = q[i - 1]
  BY <1>1, <1>2, Fronted
<1>4. \A i \in DOMAIN r : i = 1 \/ (i - 1 \in DOMAIN q /\ r[i] = q[i - 1])
  BY <1>3
<1>5. \A i \in DOMAIN r : i = 1 \/ (IsFrame(r[i]) /\ ~Echo(r[i]))
  BY <1>4 DEF Quiet, Frames
<1>6. 1 \in DOMAIN r /\ r[1] = f
  BY <1>3
<1>7. Frames(r)
  BY <1>3, <1>5, <1>6 DEF Frames
<1>8. ~Echo(f) => Quiet(r)
  BY <1>5, <1>6, <1>7 DEF Quiet
<1>9. Echo(f) /\ f.todo = <<>> => Deaf(r, TRUE)
  BY <1>5, <1>6 DEF Deaf
<1> QED BY <1>2, <1>7, <1>8, <1>9

LEMMA TailIsQuiet ==
  ASSUME DeafInv, stack # <<>>
  PROVE  Quiet(Tail(stack))
<1>1. PICK S : stack \in Seq(S)
  BY DEF DeafInv, Frames
<1>2. PICK q : q = Tail(stack)
  OBVIOUS
<1>3. q \in Seq(S) /\ DOMAIN q = 1 .. Len(stack) - 1 /\ Len(stack) \in Nat /\ DOMAIN stack = 1 .. Len(stack)
      /\ \A i \in DOMAIN q : q[i] = stack[i + 1]
  BY <1>1, <1>2
<1>4. \A i \in DOMAIN q : i + 1 \in DOMAIN stack /\ i + 1 # 1
  BY <1>3
<1>5. \A i \in DOMAIN q : IsFrame(q[i]) /\ ~Echo(q[i])
  BY <1>3, <1>4 DEF DeafInv, Frames, Deaf
<1> QED BY <1>2, <1>3, <1>5 DEF Quiet, Frames

LEMMA NewFrameIsFrame ==
  ASSUME NEW kind, NEW p, NEW n
  PROVE  /\ IsFrame(NewFrame(kind, p, n)) /\ NewFrame(kind, p, n).kind = kind
         /\ kind = "echo" => NewFrame(kind, p, n).todo = <<>>
<1>1. \A handles : Handle(p, handles, TRUE) = <<>>
  BY DEF Handle
<1> QED BY <1>1 DEF NewFrame, IsFrame

LEMMA UnwoundIsQuiet ==
  ASSUME NEW frames, Quiet(frames)
  PROVE  Quiet(Unwound(frames))
<1>1. PICK S : frames \in Seq(S)
  BY DEF Quiet, Frames
<1> DEFINE native == {i \in DOMAIN frames : frames[i].kind = "native"}
           i == CHOOSE j \in native : \A k \in native : j <= k
<1>2. CASE native = {}
  <2>1. Unwound(frames) = <<>> /\ DOMAIN <<>> = {} /\ <<>> \in Seq(S)
    BY <1>2 DEF Unwound
  <2> QED BY <2>1 DEF Quiet, Frames
<1>3. CASE native # {}
  <2>1. i \in native
    <3>1. Len(frames) \in Nat /\ DOMAIN frames = 1 .. Len(frames)
      BY <1>1
    <3>2. native \in SUBSET Nat
      BY <3>1
    <3>3. PICK m \in native : \A k \in native : m <= k
      BY <1>3, <3>2, LeastNatural
    <3> QED BY <3>3
  <2>2. PICK j : j = i
    OBVIOUS
  <2>3. PICK f : f = [frames[j] EXCEPT !.todo = <<>>]
    OBVIOUS
  <2>4. j \in DOMAIN frames /\ IsFrame(frames[j]) /\ ~Echo(frames[j])
    BY <2>1, <2>2 DEF Quiet, Frames
  <2>5. IsFrame(f) /\ ~Echo(f)
    BY <2>3, <2>4 DEF IsFrame, Echo
  <2>6. PICK q : q = SubSeq(frames, j + 1, Len(frames))
    OBVIOUS
  <2>7. Quiet(q)
    <3>1. q \in Seq(S) /\ \A k \in DOMAIN q : k + j \in DOMAIN frames /\ q[k] = frames[k + j]
      BY <1>1, <2>4, <2>6
    <3> QED BY <3>1 DEF Quiet, Frames
  <2>8. Unwound(frames) = <<f>> \o q
    BY <1>3, <2>2, <2>3, <2>6 DEF Unwound
  <2> QED BY <2>5, <2>7, <2>8, FrontedIsQuiet
<1> QED BY <1>2, <1>3

LEMMA QuietStep ==
  ASSUME Quiet(stack'), triggered' = FALSE
  PROVE  DeafInv'
<1>1. PICK s, t : s = stack' /\ t = triggered'
  OBVIOUS
<1>2. Frames(s) /\ Deaf(s, t)
  BY <1>1, QuietIsDeafless
<1> QED BY <1>1, <1>2 DEF DeafInv, Frames, Deaf, IsFrame, Echo

\* The top frame becomes another that is no echo.
LEMMA TopChanges ==
  ASSUME Quiet(stack), stack # <<>>, triggered = FALSE,
         NEW f, IsFrame(f), ~Echo(f), stack' = SetTop(f), triggered' = FALSE
  PROVE  DeafInv'
<1>1. DeafInv
  BY QuietIsDeafless DEF DeafInv
<1>2. Quiet(Tail(stack))
  BY <1>1, TailIsQuiet
<1>3. Quiet(stack')
  BY <1>2, FrontedIsQuiet DEF SetTop
<1> QED BY <1>3, QuietStep

\* A handler that waits to run: its dispatch is no echo.
LEMMA RunsNoEcho ==
  ASSUME DeafInv, stack # <<>>, Top.todo # <<>>
  PROVE  /\ Quiet(stack) /\ triggered = FALSE /\ IsFrame(Top) /\ ~Echo(Top)
<1>1. Top = stack[1] /\ 1 \in DOMAIN stack /\ IsFrame(Top)
  BY TopIsFrame DEF DeafInv
<1>2. ~Echo(Top)
  BY <1>1 DEF DeafInv, Deaf
<1> QED BY <1>1, <1>2, NoEchoOnTop

LEMMA ClickKeeps ==
  ASSUME DeafInv, NEW n \in Node, Click(n)
  PROVE  DeafInv'
<1>1. Quiet(stack) /\ triggered = FALSE
  BY NoEchoOnTop DEF Click
<1>2. PICK f : f = NewFrame("native", page, n)
  OBVIOUS
<1>3. IsFrame(f) /\ ~Echo(f)
  BY <1>2, NewFrameIsFrame DEF Echo
<1>4. stack' = <<f>> \o <<>> /\ Quiet(<<>>) /\ triggered' = FALSE
  <2>1. stack = <<>> /\ stack' = <<f>> /\ triggered' = triggered
    BY <1>2 DEF Click
  <2>2. <<f>> \o <<>> = <<f>>
    <3>1. <<f>> \in Seq({f})
      OBVIOUS
    <3> QED BY <3>1
  <2> QED BY <1>1, <2>1, <2>2
<1> QED BY <1>3, <1>4, FrontedIsQuiet, QuietStep

LEMMA PageCallKeeps ==
  ASSUME DeafInv, NEW n \in Node, NEW c \in Call, PageCall(n, c)
  PROVE  DeafInv'
<1>1. Quiet(stack) /\ triggered = FALSE /\ triggered' = FALSE /\ stack = <<>>
  BY NoEchoOnTop DEF PageCall
<1>2. CASE c.op = "trigger"
  <2>1. PICK f : f = NewFrame("trigger", page, n)
    OBVIOUS
  <2>2. IsFrame(f) /\ ~Echo(f)
    BY <2>1, NewFrameIsFrame DEF Echo
  <2>3. stack' = <<f>> \o <<>>
    <3>1. stack' = <<f>>
      BY <1>2, <2>1 DEF PageCall
    <3>2. <<f>> \in Seq({f})
      OBVIOUS
    <3> QED BY <3>1, <3>2
  <2> QED BY <1>1, <2>2, <2>3, FrontedIsQuiet, QuietStep
<1>3. CASE c.op # "trigger"
  <2>1. stack' = stack
    BY <1>3 DEF PageCall
  <2> QED BY <1>1, <2>1, QuietStep
<1> QED BY <1>2, <1>3

LEMMA RunCallingKeeps ==
  ASSUME DeafInv, NEW n \in Node, NEW c \in Call, RunCalling(n, c)
  PROVE  DeafInv'
<1>1. /\ stack # <<>> /\ Quiet(stack) /\ triggered = FALSE /\ triggered' = FALSE
      /\ IsFrame(Top) /\ ~Echo(Top)
  BY RunsNoEcho DEF RunCalling
<1>2. PICK rest : rest = [Top EXCEPT !.todo = Tail(@)]
  OBVIOUS
<1>3. IsFrame(rest) /\ ~Echo(rest)
  BY <1>1, <1>2 DEF IsFrame, Echo
<1>4. CASE c.op = "trigger"
  <2>1. PICK f : f = NewFrame("trigger", page, n)
    OBVIOUS
  <2>2. IsFrame(f) /\ ~Echo(f)
    BY <2>1, NewFrameIsFrame DEF Echo
  <2>3. stack' = <<f>> \o SetTop(rest)
    BY <1>2, <1>4, <2>1 DEF RunCalling
  <2>4. Quiet(SetTop(rest))
    BY <1>1, <1>3, TailIsQuiet, FrontedIsQuiet DEF SetTop
  <2> QED BY <1>1, <2>2, <2>3, <2>4, FrontedIsQuiet, QuietStep
<1>5. CASE c.op # "trigger"
  <2>1. stack' = SetTop(rest)
    BY <1>2, <1>5 DEF RunCalling
  <2> QED BY <1>1, <1>3, <2>1, TopChanges
<1> QED BY <1>4, <1>5

LEMMA RunPlainKeeps ==
  ASSUME DeafInv, NEW result \in Result, RunPlain(result)
  PROVE  DeafInv'
<1>1. /\ stack # <<>> /\ Quiet(stack) /\ triggered = FALSE /\ triggered' = FALSE
      /\ IsFrame(Top) /\ ~Echo(Top)
  BY RunsNoEcho DEF RunPlain
<1>2. PICK entry, rest :
        /\ rest = [Top EXCEPT !.todo = Tail(@)]
        /\ stack' = IF result = "throw" THEN Unwound(SetTop(rest)) ELSE SetTop(Ended(rest, entry, result))
  BY Zenon DEF RunPlain
<1>3. IsFrame(rest) /\ ~Echo(rest)
  BY <1>1, <1>2 DEF IsFrame, Echo
<1>4. CASE result = "throw"
  <2>1. Quiet(SetTop(rest))
    BY <1>1, <1>3, TailIsQuiet, FrontedIsQuiet DEF SetTop
  <2> QED BY <1>1, <1>2, <1>4, <2>1, UnwoundIsQuiet, QuietStep
<1>5. CASE result # "throw"
  <2>1. result \in {"ok", "false"}
    BY <1>5, ResultsAreKnown
  <2>2. PICK f : f = Ended(rest, entry, result)
    OBVIOUS
  <2>3. IsFrame(f) /\ ~Echo(f)
    <3>1. CASE result = "ok"
      BY <1>3, <2>2, <3>1 DEF Ended
    <3>2. CASE result = "false"
      <4>1. PICK todo : f = [rest EXCEPT !.stopped = TRUE, !.prevented = TRUE, !.todo = todo]
        BY <2>2, <3>2 DEF Ended
      <4> QED BY <1>3, <4>1 DEF IsFrame, Echo
    <3> QED BY <2>1, <3>1, <3>2
  <2> QED BY <1>1, <1>2, <1>5, <2>2, <2>3, TopChanges
<1> QED BY <1>4, <1>5

LEMMA RunLiveKeeps ==
  ASSUME DeafInv, RunLive
  PROVE  DeafInv'
<1>1. /\ stack # <<>> /\ Quiet(stack) /\ triggered = FALSE /\ triggered' = FALSE
      /\ IsFrame(Top) /\ ~Echo(Top)
  BY RunsNoEcho DEF RunLive
<1>2. PICK rest : rest = [Top EXCEPT !.todo = Tail(@)]
  OBVIOUS
<1>3. IsFrame(rest) /\ ~Echo(rest)
  BY <1>1, <1>2 DEF IsFrame, Echo
<1>4. \/ stack' = SetTop(rest)
      \/ \E on, todo : stack' = SetTop([rest EXCEPT !.liveFired = on, !.todo = todo])
  BY <1>2 DEF RunLive
<1>5. CASE stack' = SetTop(rest)
  BY <1>1, <1>3, <1>5, TopChanges
<1>6. CASE \E on, todo : stack' = SetTop([rest EXCEPT !.liveFired = on, !.todo = todo])
  <2>1. PICK on, todo : stack' = SetTop([rest EXCEPT !.liveFired = on, !.todo = todo])
    BY <1>6
  <2>2. PICK f : f = [rest EXCEPT !.liveFired = on, !.todo = todo]
    OBVIOUS
  <2>3. IsFrame(f) /\ ~Echo(f)
    BY <1>3, <2>2 DEF IsFrame, Echo
  <2> QED BY <1>1, <2>1, <2>2, <2>3, TopChanges
<1> QED BY <1>4, <1>5, <1>6

\* An echo on top has nothing to run, and the flag is up.
LEMMA EchoOnTop ==
  ASSUME DeafInv, stack # <<>>, Echo(Top)
  PROVE  triggered = TRUE
<1>1. Top = stack[1] /\ 1 \in DOMAIN stack
  BY TopIsFrame DEF DeafInv
<1> QED BY <1>1 DEF DeafInv, Deaf

LEMMA FinishKeeps ==
  ASSUME DeafInv, stack # <<>>, Finish(Top)
  PROVE  DeafInv'
<1>1. Quiet(stack')
  BY TailIsQuiet DEF Finish
<1>2. triggered' = FALSE
  <2>1. CASE Echo(Top)
    BY <2>1 DEF Finish, Echo
  <2>2. CASE ~Echo(Top)
    BY <2>2, NoEchoOnTop DEF Finish, Echo
  <2> QED BY <2>1, <2>2
<1> QED BY <1>1, <1>2, QuietStep

\* The top frame goes on to another node, where it finds handlers to run only
\* if jQuery is not deaf.
LEMMA MovesOn ==
  ASSUME DeafInv, stack # <<>>, triggered' = triggered,
         NEW f, IsFrame(f), f.kind = Top.kind, triggered => f.todo = <<>>, stack' = SetTop(f)
  PROVE  DeafInv'
<1>1. CASE Echo(Top)
  <2>1. triggered' = TRUE /\ Echo(f) /\ f.todo = <<>>
    BY <1>1, EchoOnTop DEF Echo
  <2>2. PICK s, t : s = stack' /\ t = triggered'
    OBVIOUS
  <2>3. Frames(s) /\ Deaf(s, t)
    BY <2>1, <2>2, TailIsQuiet, FrontedIsQuiet DEF SetTop
  <2> QED BY <2>2, <2>3 DEF DeafInv, Frames, Deaf, IsFrame, Echo
<1>2. CASE ~Echo(Top)
  <2>1. Quiet(stack) /\ triggered = FALSE /\ ~Echo(f)
    BY <1>2, NoEchoOnTop DEF Echo
  <2> QED BY <2>1, TopChanges
<1> QED BY <1>1, <1>2

LEMMA NextNativeKeeps ==
  ASSUME DeafInv, NextNative
  PROVE  DeafInv'
<1>1. stack # <<>> /\ IsFrame(Top)
  BY TopIsFrame DEF NextNative, DeafInv
<1>2. CASE Top.stopped \/ Top.path = <<>>
  BY <1>1, <1>2, FinishKeeps DEF NextNative
<1>3. CASE ~(Top.stopped \/ Top.path = <<>>)
  <2>1. PICK node, todo, f :
          /\ f = [Top EXCEPT !.node = node, !.path = Tail(@), !.todo = todo]
          /\ todo = Handle(page, Listening(page, node), triggered)
          /\ stack' = SetTop(f) /\ triggered' = triggered
    BY <1>3, Zenon DEF NextNative
  <2>2. triggered => todo = <<>>
    BY <2>1 DEF Handle
  <2>3. IsFrame(f) /\ f.kind = Top.kind /\ f.todo = todo
    BY <1>1, <2>1 DEF IsFrame
  <2> QED BY <1>1, <2>1, <2>2, <2>3, MovesOn
<1> QED BY <1>2, <1>3

LEMMA NextTriggeredKeeps ==
  ASSUME DeafInv, NextTriggered
  PROVE  DeafInv'
<1>1. stack # <<>> /\ IsFrame(Top) /\ ~Echo(Top)
  BY TopIsFrame DEF NextTriggered, DeafInv, Echo
<1>2. PICK up : up = BubbleTo(Top.node)
  OBVIOUS
<1>3. \/ /\ stack' = SetTop([Top EXCEPT !.node = up, !.todo = Handle(page, OwnHandle(page, up), triggered)])
         /\ triggered' = triggered
      \/ DefaultAction
      \/ Finish(Top)
  BY <1>2 DEF NextTriggered
<1>4. CASE /\ stack' = SetTop([Top EXCEPT !.node = up, !.todo = Handle(page, OwnHandle(page, up), triggered)])
           /\ triggered' = triggered
  <2>1. PICK todo : todo = Handle(page, OwnHandle(page, up), triggered)
    OBVIOUS
  <2>2. triggered => todo = <<>>
    BY <2>1 DEF Handle
  <2>3. PICK f : f = [Top EXCEPT !.node = up, !.todo = todo]
    OBVIOUS
  <2>4. IsFrame(f) /\ f.kind = Top.kind /\ f.todo = todo
    BY <1>1, <2>3 DEF IsFrame
  <2> QED BY <1>1, <1>4, <2>1, <2>2, <2>3, <2>4, MovesOn
<1>5. CASE DefaultAction
  <2>1. PICK f : f = NewFrame("echo", page, Top.target)
    OBVIOUS
  <2>2. IsFrame(f) /\ Echo(f) /\ f.todo = <<>>
    BY <2>1, NewFrameIsFrame DEF Echo
  <2>3. PICK s, t : s = stack' /\ t = triggered'
    OBVIOUS
  <2>4. Frames(s) /\ Deaf(s, t)
    BY <1>1, <1>5, <2>1, <2>2, <2>3, TailIsQuiet, FrontedIsQuiet DEF SetTop, DefaultAction
  <2> QED BY <2>3, <2>4 DEF DeafInv, Frames, Deaf, IsFrame, Echo
<1>6. CASE Finish(Top)
  BY <1>1, <1>6, FinishKeeps
<1> QED BY <1>3, <1>4, <1>5, <1>6

\* While the browser carries out the default action of a trigger jQuery hears
\* no event, and at every other time it hears all of them: no exception, no
\* nesting of dispatches and no return of false leaves it deaf
\* (jQuery.event.trigger, handle, triggered).
THEOREM DeafOnlyWhileEchoing == EventsSpec => []DeafOnlyToEchoes
<1>1. EventsInit => DeafInv
  <2> SUFFICES ASSUME EventsInit PROVE DeafInv
    OBVIOUS
  <2>1. stack = <<>> /\ triggered = FALSE
    BY DEF EventsInit
  <2>2. stack \in Seq(Nat) /\ DOMAIN stack = {}
    BY <2>1
  <2> QED BY <2>1, <2>2 DEF DeafInv, Frames, Deaf
<1>2. DeafInv /\ [EventsNext]_eventsVars => DeafInv'
  <2> SUFFICES ASSUME DeafInv, [EventsNext]_eventsVars PROVE DeafInv'
    OBVIOUS
  <2>1. ASSUME NEW n \in Node, Click(n) PROVE DeafInv'
    BY <2>1, ClickKeeps
  <2>2. ASSUME NEW n \in Node, NEW c \in Call, PageCall(n, c) PROVE DeafInv'
    BY <2>2, PageCallKeeps
  <2>3. ASSUME NEW n \in Node, NEW c \in Call, RunCalling(n, c) PROVE DeafInv'
    BY <2>3, RunCallingKeeps
  <2>4. ASSUME NEW result \in Result, RunPlain(result) PROVE DeafInv'
    BY <2>4, RunPlainKeeps
  <2>5. CASE RunLive
    BY <2>5, RunLiveKeeps
  <2>6. CASE NextNative
    BY <2>6, NextNativeKeeps
  <2>7. CASE NextTriggered
    BY <2>7, NextTriggeredKeeps
  <2>8. CASE UNCHANGED eventsVars
    BY <2>8 DEF eventsVars, DeafInv, Frames, IsFrame, Deaf, Echo
  <2> QED BY <2>1, <2>2, <2>3, <2>4, <2>5, <2>6, <2>7, <2>8 DEF EventsNext
<1>3. DeafInv => DeafOnlyToEchoes
  BY DEF DeafInv, Deaf, Echo, DeafOnlyToEchoes
<1> QED BY <1>1, <1>2, <1>3, PTL DEF EventsSpec

(***************************************************************************)
(* change and submit.                                                      *)
(***************************************************************************)
Radio(f) == Control[f].type = "radio"
Editable(f) == ~Control[f].readOnly

\* HTML knows no radio button that is read-only, though a script can set the
\* property: testChange would not look at it, and the others of its group would
\* go untold.
RadiosAreEditable == \A f \in Fields : Radio(f) => Editable(f)

\* Of a group of radio buttons one is checked at most.
ContentOK(c) ==
  /\ c = [f \in Fields |-> c[f]]
  /\ \A f \in Fields : Radio(f) => c[f] \in BOOLEAN
  /\ \A f \in Fields : \A g \in Others(f) : ~(c[f] = TRUE /\ c[g] = TRUE)

LibraryType(l) ==
  /\ l = [heard |-> l.heard, known |-> l.known, silent |-> l.silent, again |-> l.again]
  /\ l.heard = [f \in Fields |-> l.heard[f]] /\ l.known = [f \in Fields |-> l.known[f]]

\* The handlers know every value.
KnowsAll(l, val) ==
  /\ LibraryType(l) /\ l.again = FALSE
  /\ \A g \in Fields : g \notin l.silent /\ Editable(g) => l.known[g] = val[g]

\* What was heard of the field with the focus is what the handlers know of it;
\* if it has changed in silence, the next change will be seen, or the others
\* of its group have changed in silence, too.
HeardOf(l, val, on) ==
  Editable(on) =>
    /\ on \notin l.silent => l.heard[on] = <<l.known[on]>>
    /\ on \in l.silent => l.heard[on] = <<val[on]>> \/ Others(on) \subseteq l.silent

\* The handlers know every value but that of the field with the focus, and of
\* a radio button that one, too.
KnowsTheRest(l, val, on) ==
  /\ LibraryType(l) /\ l.again = FALSE
  /\ \A g \in Fields : (g # on \/ Radio(g)) /\ g \notin l.silent /\ Editable(g) => l.known[g] = val[g]
  /\ on \in Fields => HeardOf(l, val, on)

ChangeInv ==
  /\ active \in Fields \cup {NoControl} /\ bound \in BOOLEAN /\ ContentOK(content)
  /\ ~bound => LibraryType(Library) /\ known = content /\ silent = {} /\ again = FALSE
  /\ bound => KnowsTheRest(Library, content, active)
  /\ bound /\ submit => KnowsAll(Library, content)

LEMMA OthersAreRadios ==
  ASSUME NEW f \in Fields
  PROVE  /\ \A g \in Others(f) : g \in Fields /\ g # f /\ Radio(g) /\ Radio(f) /\ f \in Others(g)
         /\ \A g \in Others(f) : \A h \in Others(g) : h = f \/ h \in Others(f)
  BY DEF Others, Radio

\* When testChange is called for a field all is known, but for buttons that the
\* field, when it is told, is known to have unchecked.
Testable(l, val, f) ==
  /\ LibraryType(l) /\ l.again = FALSE
  /\ Editable(f) /\ f \notin l.silent => l.heard[f] = <<l.known[f]>>
  /\ \A g \in Fields \ {f} : g \notin l.silent /\ Editable(g) =>
       \/ l.known[g] = val[g]
       \/ Editable(f) /\ g \in Others(f) /\ val[f] = TRUE /\ l.heard[f] \notin {<<>>, <<val[f]>>}

LEMMA TestedKnows ==
  ASSUME NEW f \in Fields, NEW val, ContentOK(val), NEW l, Testable(l, val, f),
         NEW type, NEW r, r = testChange(l, f, type, val)
  PROVE  /\ KnowsAll(r, val)
         /\ Editable(f) /\ type # "focusout" => r.heard[f] = <<val[f]>>
         /\ \A g \in Fields \ {f} : r.heard[g] = l.heard[g]
<1> USE DEF Testable
<1>1. PICK s : s = [l EXCEPT !.heard[f] = IF type = "focusout" /\ Control[f].type = "radio" THEN @ ELSE <<val[f]>>]
  OBVIOUS
<1>2. PICK h : h = [l.heard EXCEPT ![f] = IF type = "focusout" /\ Control[f].type = "radio" THEN @ ELSE <<val[f]>>]
  OBVIOUS
<1>3. /\ h = [g \in Fields |-> h[g]] /\ (\A g \in Fields \ {f} : h[g] = l.heard[g])
      /\ type # "focusout" => h[f] = <<val[f]>>
  BY <1>2 DEF LibraryType
<1>4. s = [heard |-> h, known |-> l.known, silent |-> l.silent, again |-> l.again]
  BY <1>1, <1>2 DEF LibraryType
<1>5. s.heard = h /\ s.known = l.known /\ s.silent = l.silent /\ s.again = FALSE
  BY <1>4
<1>6. LibraryType(s)
  BY <1>3, <1>4, <1>5 DEF LibraryType
<1>7. CASE ~Editable(f)
  <2>1. r = l
    BY <1>7 DEF testChange, Editable
  <2> QED BY <1>7, <2>1 DEF KnowsAll
<1>8. CASE Editable(f) /\ l.heard[f] \in {<<>>, <<val[f]>>}
  <2>1. r = s
    BY <1>1, <1>8 DEF testChange, Editable
  <2>2. f \notin l.silent => l.known[f] = val[f]
    BY <1>8
  <2> QED BY <1>3, <1>5, <1>6, <1>8, <2>1, <2>2 DEF KnowsAll
<1>9. CASE Editable(f) /\ l.heard[f] \notin {<<>>, <<val[f]>>}
  <2>1. r = Told(s, f, val)
    BY <1>1, <1>9 DEF testChange, Editable
  <2>2. PICK k : k = [g \in Fields |-> IF g = f THEN val[g] ELSE IF g \in Others(f) /\ val[f] THEN FALSE ELSE s.known[g]]
    OBVIOUS
  <2>3. r = [s EXCEPT !.known = k, !.silent = @ \ {f}, !.again = @ \/ (f \notin s.silent /\ s.known[f] = val[f])]
    BY <2>1, <2>2 DEF Told
  <2>4. ~(f \notin s.silent /\ s.known[f] = val[f])
    BY <1>5, <1>9
  <2>5. r = [heard |-> h, known |-> k, silent |-> l.silent \ {f}, again |-> FALSE]
    BY <1>4, <1>5, <2>3, <2>4
  <2>6. ASSUME NEW g \in Fields, g \notin l.silent \ {f}, Editable(g)
        PROVE  k[g] = val[g]
    <3>1. CASE g = f
      BY <2>2, <3>1
    <3>2. CASE g # f /\ g \in Others(f) /\ val[f]
      <4>1. Radio(f) /\ Radio(g)
        BY <3>2, OthersAreRadios
      <4>2. val[f] = TRUE
        BY <3>2, <4>1 DEF ContentOK
      <4>3. val[g] = FALSE
        BY <3>2, <4>1, <4>2 DEF ContentOK
      <4> QED BY <2>2, <3>2, <4>3
    <3>3. CASE g # f /\ ~(g \in Others(f) /\ val[f])
      <4>1. k[g] = l.known[g]
        BY <1>5, <2>2, <3>3
      <4>2. g \notin l.silent /\ ~(g \in Others(f) /\ val[f] = TRUE)
        BY <2>6, <3>3
      <4> QED BY <2>6, <3>3, <4>1, <4>2
    <3> QED BY <3>1, <3>2, <3>3
  <2>7. k = [g \in Fields |-> k[g]]
    BY <2>2
  <2>8. r.heard = h /\ r.known = k /\ r.silent = l.silent \ {f} /\ r.again = FALSE
    BY <2>5
  <2> QED BY <1>3, <2>5, <2>6, <2>7, <2>8 DEF KnowsAll, LibraryType
<1> QED BY <1>7, <1>8, <1>9

LEMMA LibraryIsTyped ==
  /\ Library.heard = heard /\ Library.known = known
  /\ Library.silent = silent /\ Library.again = again
  BY DEF Library

\* All is known, and what is heard of the field with the focus is fresh.
LEMMA FreshFocus ==
  ASSUME NEW l, NEW val, NEW on, KnowsAll(l, val), on \in Fields /\ Editable(on) => l.heard[on] = <<val[on]>>
  PROVE  KnowsTheRest(l, val, on)
  BY DEF KnowsAll, KnowsTheRest, HeardOf

\* A field that the user is in is tested.
LEMMA TestedInFocus ==
  ASSUME NEW on \in Fields, NEW val, ContentOK(val), NEW l, KnowsTheRest(l, val, on),
         NEW type, NEW r, r = testChange(l, on, type, val)
  PROVE  KnowsAll(r, val) /\ (type # "focusout" => KnowsTheRest(r, val, on))
         /\ \A g \in Fields \ {on} : r.heard[g] = l.heard[g]
<1>1. Testable(l, val, on)
  BY DEF KnowsTheRest, HeardOf, Testable
<1>4. /\ KnowsAll(r, val)
      /\ Editable(on) /\ type # "focusout" => r.heard[on] = <<val[on]>>
      /\ \A g \in Fields \ {on} : r.heard[g] = l.heard[g]
  BY <1>1, TestedKnows
<1> QED BY <1>4, FreshFocus

LEMMA FocusLeaves ==
  ASSUME NEW on \in Fields \cup {NoControl}, NEW val, ContentOK(val), NEW l, KnowsTheRest(l, val, on),
         NEW r, r = focusout(l, on, val)
  PROVE  KnowsAll(r, val) /\ \A g \in Fields \ {on} : r.heard[g] = l.heard[g]
<1>0. NoControl \notin Fields
  BY NoControlIsNone DEF Fields
<1>1. CASE on = NoControl
  <2>1. r = l
    BY <1>1 DEF focusout
  <2> QED BY <1>0, <1>1, <2>1 DEF KnowsAll, KnowsTheRest
<1>2. CASE on # NoControl
  <2>1. r = testChange(l, on, "focusout", val) /\ on \in Fields
    BY <1>2 DEF focusout
  <2> QED BY <2>1, TestedInFocus
<1> QED BY <1>1, <1>2

LEMMA KeydownKeeps ==
  ASSUME NEW on \in Fields, NEW val, ContentOK(val), NEW l, KnowsTheRest(l, val, on),
         NEW key, NEW r, r = keydown(l, on, key, val)
  PROVE  KnowsTheRest(r, val, on) /\ (key = "enter" /\ Control[on].type = "text" => KnowsAll(r, val))
<1>1. r = testChange(l, on, "keydown", val) \/ (r = l /\ ~(key = "enter" /\ Control[on].type = "text"))
  BY DEF keydown
<1>2. CASE r = testChange(l, on, "keydown", val)
  <2>1. PICK type : type = "keydown"
    OBVIOUS
  <2> QED BY <1>2, <2>1, TestedInFocus
<1>3. CASE r = l /\ ~(key = "enter" /\ Control[on].type = "text")
  BY <1>3
<1> QED BY <1>1, <1>2, <1>3

\* Picking a box or an option: of its group no other remains.
PickedOne(c, f, v) ==
  /\ ContentOK(c) /\ c[f] = v
  /\ \A g \in Fields : g # f /\ (g \notin Others(f) \/ v # TRUE) => c[g] = content[g]
  /\ \A g \in Others(f) : v = TRUE => c[g] = FALSE

LEMMA PicksOne ==
  ASSUME NEW f \in Fields, NEW v \in Contents(f), ContentOK(content), NEW c, c = Picks(f, v)
  PROVE  PickedOne(c, f, v)
<1>1. \A g \in Others(f) : g \in Fields /\ g # f /\ Radio(g) /\ Radio(f)
  BY OthersAreRadios
<1>2. Radio(f) => v \in BOOLEAN
  BY DEF Radio, Contents, Ticked
<1>3. c = [g \in Fields |-> IF g = f THEN v ELSE IF g \in Others(f) /\ v THEN FALSE ELSE content[g]]
  BY DEF Picks
<1>4. c[f] = v
  BY <1>3
<1>5. \A g \in Fields : g # f /\ (g \notin Others(f) \/ v # TRUE) => c[g] = content[g]
  BY <1>1, <1>2, <1>3
<1>6. \A g \in Others(f) : v = TRUE => c[g] = FALSE
  BY <1>1, <1>3
<1>7. \A g \in Fields : Radio(g) => c[g] \in BOOLEAN
  BY <1>2, <1>4, <1>5, <1>6 DEF ContentOK
<1>8. ASSUME NEW a \in Fields, NEW b \in Others(a), c[a] = TRUE, c[b] = TRUE PROVE FALSE
  <2>1. b \in Fields /\ b # a /\ a \in Others(b) /\ (\A h \in Others(b) : h = a \/ h \in Others(a))
        /\ (\A h \in Others(a) : h = b \/ h \in Others(b))
    BY <1>8, OthersAreRadios
  <2>2. ~(content[a] = TRUE /\ content[b] = TRUE)
    BY <1>8 DEF ContentOK
  <2>3. CASE v # TRUE
    BY <1>4, <1>5, <1>8, <2>1, <2>2, <2>3
  <2>4. CASE v = TRUE
    BY <1>4, <1>5, <1>6, <1>8, <2>1, <2>2, <2>4
  <2> QED BY <2>3, <2>4
<1>9. c = [g \in Fields |-> c[g]]
  BY <1>3
<1> QED BY <1>4, <1>5, <1>6, <1>7, <1>8, <1>9 DEF ContentOK, PickedOne

\* What a deed has to leave behind.
LEMMA HearsKeeps ==
  ASSUME ChangeInv, bound' = bound, NEW new, Hears(new), ContentOK(content'),
         active' \in Fields \cup {NoControl},
         bound => KnowsTheRest(new, content', active') /\ (submit' => KnowsAll(new, content'))
  PROVE  ChangeInv'
<1>1. CASE bound
  <2>1. heard' = new.heard /\ silent' = new.silent /\ again' = new.again /\ known' = new.known
    BY <1>1 DEF Hears
  <2>2. new = [heard |-> new.heard, known |-> new.known, silent |-> new.silent, again |-> new.again]
    BY <1>1 DEF KnowsTheRest, LibraryType
  <2>3. Library' = new
    BY <2>1, <2>2 DEF Library
  <2>4. PICK l, c, a, s : l = Library' /\ c = content' /\ a = active' /\ s = submit'
    OBVIOUS
  <2>5. KnowsTheRest(l, c, a) /\ (s => KnowsAll(l, c)) /\ ContentOK(c)
    BY <1>1, <2>3, <2>4
  <2>6. KnowsTheRest(Library, content, active)' /\ (submit' => KnowsAll(Library, content)') /\ ContentOK(content)'
    BY <2>4, <2>5 DEF KnowsTheRest, KnowsAll, HeardOf, LibraryType, ContentOK
  <2>7. bound' = TRUE /\ active' \in Fields \cup {NoControl}
    BY <1>1 DEF ChangeInv
  <2> QED BY <2>6, <2>7 DEF ChangeInv
<1>2. CASE ~bound
  <2>1. heard' = heard /\ silent' = silent /\ again' = again /\ known' = content'
    BY <1>2, LibraryIsTyped DEF Hears
  <2>2. heard = [f \in Fields |-> heard[f]] /\ silent = {} /\ again = FALSE
    BY <1>2, LibraryIsTyped DEF ChangeInv, LibraryType
  <2>3. known' = [f \in Fields |-> known'[f]]
    BY <2>1 DEF ContentOK
  <2>4. LibraryType(Library)'
    BY <2>1, <2>2, <2>3 DEF LibraryType, Library
  <2>5. ContentOK(content)'
    BY DEF ContentOK
  <2> QED BY <1>2, <2>1, <2>2, <2>4, <2>5 DEF ChangeInv
<1> QED BY <1>1, <1>2 DEF ChangeInv

LEMMA ActivateKeeps ==
  ASSUME ChangeInv, NEW f \in Fields, Activate(f)
  PROVE  ChangeInv'
<1>1. /\ f # active /\ active' = f /\ content' = content /\ bound' = bound /\ submit' = FALSE
  BY DEF Activate, Deed
<1>2. PICK b : b = beforeactivate(Library, f, content)
  OBVIOUS
<1>3. PICK r : r = focusout(b, active, content)
  OBVIOUS
<1>4. Hears(r) /\ ContentOK(content)
  BY <1>2, <1>3 DEF Activate, ChangeInv
<1>5. ASSUME bound PROVE KnowsTheRest(r, content, f)
  <2>1. KnowsTheRest(Library, content, active) /\ active \in Fields \cup {NoControl}
    BY <1>5 DEF ChangeInv
  <2>2. PICK h : h = [heard EXCEPT ![f] = <<content[f]>>]
    OBVIOUS
  <2>3. b = [Library EXCEPT !.heard = h]
    BY <1>2, <2>2 DEF beforeactivate, Library
  <2>4. b.heard = h /\ b.known = known /\ b.silent = silent /\ b.again = again
        /\ b = [heard |-> h, known |-> known, silent |-> silent, again |-> again]
    BY <2>3 DEF Library
  <2>5. heard = [g \in Fields |-> heard[g]]
    BY <2>1, LibraryIsTyped DEF KnowsTheRest, LibraryType
  <2>6. h = [g \in Fields |-> h[g]] /\ h[f] = <<content[f]>> /\ \A g \in Fields \ {f} : h[g] = heard[g]
    BY <2>2, <2>5
  <2>7. KnowsTheRest(b, content, active)
    BY <1>1, <2>1, <2>4, <2>6, LibraryIsTyped DEF KnowsTheRest, LibraryType, HeardOf
  <2>8. KnowsAll(r, content) /\ \A g \in Fields \ {active} : r.heard[g] = b.heard[g]
    BY <1>3, <1>4, <2>1, <2>7, FocusLeaves
  <2>9. r.heard[f] = <<content[f]>>
    BY <1>1, <2>4, <2>6, <2>8
  <2> QED BY <2>8, <2>9, FreshFocus
<1> QED BY <1>1, <1>4, <1>5, HearsKeeps

\* The focus goes to no other field: Leave and ClickSubmit.
LEMMA FocusGoneKeeps ==
  ASSUME ChangeInv, active' = NoControl, content' = content, bound' = bound,
         Hears(focusout(Library, active, content))
  PROVE  ChangeInv'
<1>1. PICK r : r = focusout(Library, active, content)
  OBVIOUS
<1>2. ContentOK(content) /\ Hears(r)
  BY <1>1 DEF ChangeInv
<1>3. ASSUME bound PROVE KnowsAll(r, content) /\ KnowsTheRest(r, content, NoControl)
  <2>1. KnowsAll(r, content)
    BY <1>1, <1>3, FocusLeaves DEF ChangeInv
  <2>2. NoControl \notin Fields
    BY NoControlIsNone DEF Fields
  <2> QED BY <2>1, <2>2, FreshFocus
<1> QED BY <1>2, <1>3, HearsKeeps

LEMMA EnterKeeps ==
  ASSUME ChangeInv, NEW f \in Fields, Enter(f)
  PROVE  ChangeInv'
<1>1. /\ f = active /\ active' = f /\ content' = content /\ bound' = bound
      /\ submit' = (Control[f].type = "text")
  BY DEF Enter, Deed
<1>2. PICK r, key : key = "enter" /\ r = keydown(Library, f, key, content)
  OBVIOUS
<1>3. Hears(r) /\ ContentOK(content)
  BY <1>2 DEF Enter, ChangeInv
<1>4. ASSUME bound
      PROVE  KnowsTheRest(r, content, f) /\ (submit' => KnowsAll(r, content))
  BY <1>1, <1>2, <1>3, <1>4, KeydownKeeps DEF ChangeInv
<1> QED BY <1>1, <1>3, <1>4, HearsKeeps

LEMMA AlterKeeps ==
  ASSUME ChangeInv, NEW f \in Fields, NEW v \in Contents(f), Alter(f, v)
  PROVE  ChangeInv'
<1>1. /\ f = active /\ active' = f /\ bound' = bound /\ submit' = FALSE
      /\ ~Radio(f) /\ Editable(f) /\ content' = [content EXCEPT ![f] = v]
  BY DEF Alter, Deed, Ticked, Radio, Editable
<1>2. PICK r, key : key = "other" /\ r = keydown(Library, f, key, content)
  OBVIOUS
<1>3. Hears(r) /\ ContentOK(content)
  BY <1>2 DEF Alter, ChangeInv
<1>4. PICK c : c = content'
  OBVIOUS
<1>5. c = [g \in Fields |-> c[g]] /\ c[f] = v /\ \A g \in Fields \ {f} : c[g] = content[g]
  BY <1>1, <1>3, <1>4 DEF ContentOK
<1>6. Others(f) = {}
  BY <1>1, OthersAreRadios
<1>7. ContentOK(c)
  <2>1. \A a \in Fields : \A b \in Others(a) : a # f /\ b # f /\ a \in Fields /\ b \in Fields
    BY <1>1, OthersAreRadios
  <2>2. \A a \in Fields : Radio(a) => c[a] \in BOOLEAN
    BY <1>1, <1>3, <1>5 DEF ContentOK
  <2>3. \A a \in Fields : \A b \in Others(a) : ~(c[a] = TRUE /\ c[b] = TRUE)
    BY <1>3, <1>5, <2>1 DEF ContentOK
  <2> QED BY <1>5, <2>2, <2>3 DEF ContentOK
<1>8. ASSUME bound PROVE KnowsTheRest(r, c, f)
  <2>1. KnowsTheRest(Library, content, f)
    BY <1>1, <1>8 DEF ChangeInv
  <2>2. r = testChange(Library, f, "keydown", content) \/ r = Library
    BY <1>2 DEF keydown
  <2>3. KnowsTheRest(r, content, f)
    <3>1. CASE r = testChange(Library, f, "keydown", content)
      <4>1. PICK type : type = "keydown"
        OBVIOUS
      <4> QED BY <1>3, <2>1, <3>1, <4>1, TestedInFocus
    <3> QED BY <2>1, <2>2, <3>1
  <2>4. HeardOf(r, c, f)
    BY <1>6, <2>3 DEF KnowsTheRest, HeardOf
  <2> QED BY <1>1, <1>5, <2>3, <2>4 DEF KnowsTheRest
<1> QED BY <1>1, <1>3, <1>4, <1>7, <1>8, HearsKeeps

LEMMA ChooseKeeps ==
  ASSUME RadiosAreEditable, ChangeInv, NEW f \in Fields, NEW v \in Contents(f), NEW key \in BOOLEAN, Choose(f, v, key)
  PROVE  ChangeInv'
<1>1. /\ f = active /\ active' = f /\ bound' = bound /\ submit' = FALSE
      /\ ~Written(f) /\ content' = Picks(f, v)
  BY DEF Choose, Deed
<1>2. PICK c : c = content'
  OBVIOUS
<1>3. PICK l : l = IF key THEN keydown(Library, f, "space", content) ELSE Library
  OBVIOUS
<1>4. PICK r : r = click(l, f, c)
  OBVIOUS
<1>5. Hears(r) /\ ContentOK(content)
  BY <1>2, <1>3, <1>4 DEF Choose, ChangeInv
<1>6. /\ ContentOK(c) /\ c[f] = v
      /\ \A g \in Fields : g # f /\ (g \notin Others(f) \/ v # TRUE) => c[g] = content[g]
      /\ \A g \in Others(f) : v = TRUE => c[g] = FALSE
  <2>1. c = Picks(f, v)
    BY <1>1, <1>2
  <2>2. PickedOne(c, f, v)
    BY <1>5, <2>1, PicksOne
  <2> QED BY <2>2 DEF PickedOne
<1>7. ASSUME bound PROVE KnowsTheRest(r, c, f)
  <2>1. KnowsTheRest(Library, content, f)
    BY <1>1, <1>7 DEF ChangeInv
  <2>2. KnowsTheRest(l, content, f)
    <3>1. PICK k : k = "space"
      OBVIOUS
    <3>2. l = keydown(Library, f, k, content) \/ l = Library
      BY <1>3, <3>1
    <3> QED BY <1>5, <2>1, <3>2, KeydownKeeps
  <2>3. PICK type : type = "click" /\ r = testChange(l, f, type, c)
    BY <1>1, <1>4 DEF click
  <2>4. ASSUME NEW g \in Fields \ {f}, g \notin l.silent, Editable(g), l.known[g] # c[g]
        PROVE  Editable(f) /\ g \in Others(f) /\ c[f] = TRUE /\ l.heard[f] \notin {<<>>, <<c[f]>>}
    <3>1. l.known[g] = content[g]
      BY <2>2, <2>4 DEF KnowsTheRest
    <3>2. g \in Others(f) /\ v = TRUE /\ c[g] = FALSE
      BY <1>6, <2>4, <3>1
    <3>3. Radio(f) /\ Radio(g) /\ Editable(f)
      BY <3>2, OthersAreRadios DEF RadiosAreEditable
    <3>4. content[f] = FALSE
      <4>1. content[g] = TRUE
        BY <1>5, <2>4, <3>1, <3>2, <3>3 DEF ContentOK
      <4> QED BY <1>5, <3>2, <3>3, <4>1 DEF ContentOK
    <3>5. l.heard[f] = <<content[f]>>
      <4>1. HeardOf(l, content, f) /\ (f \notin l.silent => l.known[f] = content[f])
        BY <2>2, <3>3 DEF KnowsTheRest
      <4>2. ~(Others(f) \subseteq l.silent)
        BY <2>4, <3>2
      <4> QED BY <3>3, <4>1, <4>2 DEF HeardOf
    <3>6. c[f] = TRUE /\ content[f] # c[f]
      BY <1>6, <3>2, <3>4
    <3>7. ASSUME NEW a, NEW b, a # b PROVE <<a>> \notin {<<>>, <<b>>}
      BY <3>7
    <3> QED BY <3>2, <3>3, <3>5, <3>6, <3>7
  <2>5. Testable(l, c, f)
    <3>1. LibraryType(l) /\ l.again = FALSE /\ HeardOf(l, content, f)
      BY <2>2 DEF KnowsTheRest
    <3> QED BY <2>4, <3>1 DEF Testable, HeardOf
  <2>6. KnowsAll(r, c) /\ (Editable(f) /\ type # "focusout" => r.heard[f] = <<c[f]>>)
    BY <1>6, <2>3, <2>5, TestedKnows
  <2> QED BY <2>3, <2>6, FreshFocus
<1> QED BY <1>1, <1>2, <1>5, <1>6, <1>7, HearsKeeps

LEMMA ScriptKeeps ==
  ASSUME ChangeInv, NEW f \in Fields, NEW v \in Contents(f), Script(f, v)
  PROVE  ChangeInv'
<1>1. /\ active' = active /\ bound' = bound /\ submit' = FALSE /\ content' = Picks(f, v)
      /\ heard' = heard /\ again' = again
      /\ silent' = (IF bound THEN silent \cup {f} \cup Others(f) ELSE silent)
      /\ known' = IF bound THEN known ELSE content'
  BY DEF Script, Deed
<1>2. PICK c : c = content'
  OBVIOUS
<1>3. ContentOK(content)
  BY DEF ChangeInv
<1>4. /\ ContentOK(c) /\ c[f] = v
      /\ \A g \in Fields : g # f /\ (g \notin Others(f) \/ v # TRUE) => c[g] = content[g]
  <2>1. c = Picks(f, v)
    BY <1>1, <1>2
  <2>2. PickedOne(c, f, v)
    BY <1>3, <2>1, PicksOne
  <2> QED BY <2>2 DEF PickedOne
<1>5. PICK new : new = [heard |-> heard, known |-> known, silent |-> silent', again |-> again]
  OBVIOUS
<1>6. new.heard = heard /\ new.known = known /\ new.silent = silent' /\ new.again = again
  BY <1>5
<1>7. Hears(new)
  BY <1>1, <1>6, LibraryIsTyped DEF Hears
<1>8. ASSUME bound PROVE KnowsTheRest(new, c, active)
  <2>1. KnowsTheRest(Library, content, active)
    BY <1>8 DEF ChangeInv
  <2>2. LibraryType(new) /\ new.again = FALSE
    BY <1>5, <1>6, <2>1, LibraryIsTyped DEF KnowsTheRest, LibraryType
  <2>3. silent' = silent \cup {f} \cup Others(f)
    BY <1>1, <1>8
  <2>4. \A g \in Fields : g \notin silent' => c[g] = content[g] /\ g \notin silent
    BY <1>4, <2>3
  <2>5. \A g \in Fields : (g # active \/ Radio(g)) /\ g \notin new.silent /\ Editable(g) => new.known[g] = c[g]
    BY <1>6, <2>1, <2>4, LibraryIsTyped DEF KnowsTheRest
  <2>6. ASSUME active \in Fields, Editable(active), active \notin silent' PROVE heard[active] = <<known[active]>>
    BY <2>1, <2>4, <2>6, LibraryIsTyped DEF KnowsTheRest, HeardOf
  <2>7. ASSUME active \in Fields, Editable(active), active \in silent'
        PROVE  heard[active] = <<c[active]>> \/ Others(active) \subseteq silent'
    <3>1. CASE active \in {f} \cup Others(f)
      <4>1. Others(active) \subseteq {f} \cup Others(f)
        BY <3>1, OthersAreRadios
      <4> QED BY <2>3, <4>1
    <3>2. CASE active \notin {f} \cup Others(f)
      <4>1. active \in silent /\ c[active] = content[active]
        BY <1>4, <2>3, <2>7, <3>2
      <4>2. heard[active] = <<content[active]>> \/ Others(active) \subseteq silent
        BY <2>1, <2>7, <4>1, LibraryIsTyped DEF KnowsTheRest, HeardOf
      <4> QED BY <2>3, <4>1, <4>2
    <3> QED BY <3>1, <3>2
  <2>8. active \in Fields => HeardOf(new, c, active)
    BY <1>6, <2>6, <2>7 DEF HeardOf
  <2> QED BY <2>2, <2>5, <2>8 DEF KnowsTheRest
<1>9. active' \in Fields \cup {NoControl}
  BY <1>1 DEF ChangeInv
<1> QED BY <1>1, <1>2, <1>4, <1>7, <1>8, <1>9, HearsKeeps

LEMMA BindKeeps ==
  ASSUME ChangeInv, BindHandlers
  PROVE  ChangeInv'
<1>1. /\ ~bound /\ bound' = TRUE /\ submit' = FALSE /\ known' = content
      /\ silent' = (IF active = NoControl THEN {} ELSE {active} \cup Others(active))
      /\ content' = content /\ active' = active /\ heard' = heard /\ again' = again
  BY DEF BindHandlers, Deed
<1>2. NoControl \notin Fields
  BY NoControlIsNone DEF Fields
<1>3. LibraryType(Library) /\ known = content /\ again = FALSE /\ ContentOK(content)
      /\ active \in Fields \cup {NoControl}
  BY <1>1 DEF ChangeInv
<1>4. PICK new : new = Library'
  OBVIOUS
<1>5. /\ new = [heard |-> heard, known |-> content, silent |-> silent', again |-> FALSE]
      /\ new.heard = heard /\ new.known = content /\ new.silent = silent' /\ new.again = FALSE
  BY <1>1, <1>3, <1>4 DEF Library
<1>6. LibraryType(new)
  BY <1>3, <1>5, LibraryIsTyped DEF LibraryType
<1>7. active \in Fields => HeardOf(new, content, active)
  BY <1>1, <1>2, <1>5 DEF HeardOf
<1>8. KnowsTheRest(new, content, active)
  BY <1>5, <1>6, <1>7 DEF KnowsTheRest
<1>9. KnowsTheRest(Library, content, active)'
  BY <1>1, <1>4, <1>8 DEF KnowsTheRest, HeardOf, LibraryType
<1>10. ContentOK(content)'
  BY <1>1, <1>3 DEF ContentOK
<1> QED BY <1>1, <1>3, <1>9, <1>10 DEF ChangeInv

LEMMA ChangeStarts ==
  ASSUME ChangeInit
  PROVE  ChangeInv
<1> USE DEF ChangeInit
<1>1. content = [f \in Fields |-> content[f]]
  OBVIOUS
<1>2. \A f \in Fields : Radio(f) => content[f] = FALSE
  BY DEF Radio, Ticked
<1>3. ContentOK(content)
  BY <1>1, <1>2, OthersAreRadios DEF ContentOK
<1>4. LibraryType(Library)
  BY <1>1, LibraryIsTyped DEF LibraryType, Library
<1> QED BY <1>3, <1>4 DEF ChangeInv

\* A handler around a form knows what every field holds but the one the user is
\* in, and when a submit event comes that one, too; and it is told of no change
\* twice.  Changes of scripts, and the first one of a field that had the focus
\* when the handlers were bound, are excepted (testChange, special.change,
\* special.submit).
THEOREM ChangesComeInTime ==
  ASSUME RadiosAreEditable
  PROVE  ChangeSpec => []ChangesAreTold
<1>1. ChangeInit => ChangeInv
  BY ChangeStarts
<1>2. ChangeInv /\ [ChangeNext]_changeVars => ChangeInv'
  <2> SUFFICES ASSUME ChangeInv, [ChangeNext]_changeVars PROVE ChangeInv'
    OBVIOUS
  <2>1. ASSUME NEW f \in Fields, Activate(f) PROVE ChangeInv'
    BY <2>1, ActivateKeeps
  <2>2. ASSUME NEW f \in Fields, Enter(f) PROVE ChangeInv'
    BY <2>2, EnterKeeps
  <2>3. ASSUME NEW f \in Fields, NEW v \in Contents(f), Alter(f, v) PROVE ChangeInv'
    BY <2>3, AlterKeeps
  <2>4. ASSUME NEW f \in Fields, NEW v \in Contents(f), Script(f, v) PROVE ChangeInv'
    BY <2>4, ScriptKeeps
  <2>5. ASSUME NEW f \in Fields, NEW v \in Contents(f), NEW key \in BOOLEAN, Choose(f, v, key) PROVE ChangeInv'
    BY <2>5, ChooseKeeps
  <2>6. CASE Leave
    BY <2>6, FocusGoneKeeps DEF Leave
  <2>7. CASE ClickSubmit
    BY <2>7, FocusGoneKeeps DEF ClickSubmit
  <2>8. CASE BindHandlers
    BY <2>8, BindKeeps
  <2>9. CASE UNCHANGED changeVars
    BY <2>9 DEF changeVars, ChangeInv, ContentOK, KnowsTheRest, KnowsAll, HeardOf, LibraryType, Library
  <2> QED BY <2>1, <2>2, <2>3, <2>4, <2>5, <2>6, <2>7, <2>8, <2>9 DEF ChangeNext
<1>3. ASSUME ChangeInv PROVE ChangesAreTold
  <2>1. ~again
    BY <1>3, LibraryIsTyped DEF ChangeInv, KnowsTheRest
  <2>2. ASSUME bound, NEW f \in Fields, f # active \/ submit, f \notin silent, Editable(f)
        PROVE  known[f] = content[f]
    BY <1>3, <2>2, LibraryIsTyped DEF ChangeInv, KnowsTheRest, KnowsAll
  <2> QED BY <2>1, <2>2 DEF ChangesAreTold, Editable
<1> QED BY <1>1, <1>2, <1>3, PTL DEF ChangeSpec

(***************************************************************************)
(* PageLoad: load, get and post.                                           *)
(***************************************************************************)
LoadSettingsType ==
  [type : {"load", "GET", "POST"}, data : {"none", "object", "text"}, callback : BOOLEAN,
   dataType : {"none", "function", "json", "html"}]

Load ==
  [args : Args, settings : LoadSettingsType,
   status : {"sent", "success", "notmodified", "error"}, told : Seq(Nat)]

LoadTypeOK ==
  /\ loads \in Seq(Load)
  /\ shown \in [DOMAIN Within -> Nat]
  /\ answers \in Seq(Nat)

\* The answers are those of loads that are over.
AnswersOfLoads ==
  \A i \in DOMAIN answers : answers[i] \in DOMAIN loads /\ loads[answers[i]].status # "sent"

\* What a part shows: the last of the answers to its own loads.
Answering(p) ==
  {i \in DOMAIN answers : p \in ToSet(loads[answers[i]].args.parts) /\ loads[answers[i]].status # "error"}
ShowsTheLast(p) ==
  \/ Answering(p) = {} /\ shown[p] = 0
  \/ \E i \in Answering(p) : shown[p] = answers[i] /\ \A j \in Answering(p) : j <= i

Calls(a) == "function" \in {a.second, a.third}
Times(load) ==
  IF load.args.method = "load" THEN Len(load.args.parts) ELSE IF load.status = "error" THEN 0 ELSE 1

\* Of load number l: its callback was told nothing yet, or once of each part.
ToldOfParts(load, l) ==
  /\ load.settings.callback <=> Calls(load.args)
  /\ load.status = "sent" => load.told = <<>>
  /\ Calls(load.args) /\ load.status # "sent" => Len(load.told) = Times(load)
  /\ load.status = "success" => Range(load.told) \subseteq {l}

LoadInv ==
  /\ LoadTypeOK
  /\ AnswersOfLoads
  /\ \A p \in DOMAIN shown : ShowsTheLast(p)
  /\ \A l \in DOMAIN loads : ToldOfParts(loads[l], l)

LEMMA SettingsOfArgs ==
  ASSUME NEW a \in Args
  PROVE  /\ LoadSettings(a) \in LoadSettingsType /\ (LoadSettings(a).callback <=> Calls(a))
         /\ GetSettings(a) \in LoadSettingsType /\ (GetSettings(a).callback <=> Calls(a))
<1>1. /\ a.second \in {"none", "function", "object", "text"} /\ a.third \in {"none", "function", "json"}
      /\ a.fourth \in {"none", "json"} /\ a.method \in {"load", "GET", "POST"}
  BY DEF Args
<1>2. LoadSettings(a) \in LoadSettingsType /\ (LoadSettings(a).callback <=> Calls(a))
  <2>1. PICK given : given = ("function" \in {a.second, a.third})
    OBVIOUS
  <2>2. given \in BOOLEAN /\ (given <=> Calls(a))
    <3>1. given \in BOOLEAN
      BY <2>1
    <3>2. Calls(a) = given
      BY <2>1, Zenon DEF Calls
    <3> QED BY <3>1, <3>2
  <2>3. LoadSettings(a) = [type |-> IF a.second = "object" THEN "POST" ELSE "GET",
                           data |-> IF a.second = "function" THEN "none" ELSE a.second,
                           callback |-> given, dataType |-> "html"]
    BY <2>1, Zenon DEF LoadSettings
  <2> QED BY <1>1, <2>2, <2>3 DEF LoadSettingsType
<1>3. GetSettings(a) \in LoadSettingsType /\ (GetSettings(a).callback <=> Calls(a))
  BY <1>1 DEF GetSettings, LoadSettingsType, Calls
<1> QED BY <1>2, <1>3

LEMMA LoadInitInv == LoadInit => LoadInv
BY DEF LoadInit, LoadInv, LoadTypeOK, AnswersOfLoads, ShowsTheLast, Answering

LEMMA AskKeepsLoads ==
  ASSUME LoadInv, NEW a \in LoadArgs, Ask(a)
  PROVE  LoadInv'
<1>1. a \in Args
  BY LoadArgsAreKnown
<1>2. PICK new : new = [args |-> a, settings |-> IF a.method = "load" THEN LoadSettings(a) ELSE GetSettings(a),
                        status |-> "sent", told |-> <<>>]
  OBVIOUS
<1>3. new \in Load /\ (new.settings.callback <=> Calls(a)) /\ new.status = "sent" /\ new.told = <<>> /\ new.args = a
  BY <1>1, <1>2, SettingsOfArgs DEF Load
<1>4. loads \in Seq(Load) /\ loads' = Append(loads, new) /\ shown' = shown /\ answers' = answers
  BY <1>2 DEF Ask, LoadInv, LoadTypeOK
<1>5. /\ loads' \in Seq(Load) /\ DOMAIN loads' = DOMAIN loads \cup {Len(loads) + 1}
      /\ loads'[Len(loads) + 1] = new /\ \A l \in DOMAIN loads : loads'[l] = loads[l]
  BY <1>3, <1>4
<1>6. LoadTypeOK'
  BY <1>4, <1>5 DEF LoadInv, LoadTypeOK
<1>7. AnswersOfLoads'
  BY <1>4, <1>5 DEF LoadInv, AnswersOfLoads
<1>8. ASSUME NEW p \in DOMAIN shown PROVE ShowsTheLast(p)'
  <2>1. Answering(p)' = Answering(p)
    BY <1>4, <1>5 DEF LoadInv, AnswersOfLoads, Answering
  <2>2. ShowsTheLast(p)
    BY DEF LoadInv
  <2> QED BY <2>1, <2>2, <1>4 DEF ShowsTheLast
<1>9. ASSUME NEW l \in DOMAIN loads' PROVE ToldOfParts(loads'[l], l)
  <2>1. CASE l \in DOMAIN loads
    BY <2>1, <1>5 DEF LoadInv
  <2>2. CASE l = Len(loads) + 1
    BY <2>2, <1>3, <1>5 DEF ToldOfParts
  <2> QED BY <2>1, <2>2, <1>5
<1> QED BY <1>4, <1>6, <1>7, <1>8, <1>9 DEF LoadInv

LEMMA AnswerKeepsLoads ==
  ASSUME LoadInv, NEW l \in DOMAIN loads, NEW s \in {"success", "notmodified", "error"}, Answer(l, s)
  PROVE  LoadInv'
<1> DEFINE a == loads[l].args
           new == [p \in DOMAIN shown |-> IF p \in ToSet(a.parts) /\ Shows(s) THEN l ELSE shown[p]]
           called == loads[l].settings.callback /\ (a.method = "load" \/ Shows(s))
           told == IF ~called THEN loads[l].told ELSE IF a.method = "load" THEN Seen(a, shown, new) ELSE <<l>>
<1>1. /\ loads \in Seq(Load) /\ loads[l] \in Load /\ loads[l].status = "sent" /\ a \in Args /\ l \in Nat
      /\ a.parts \in Seq(DOMAIN Within) /\ shown \in [DOMAIN Within -> Nat] /\ answers \in Seq(Nat)
      /\ loads[l].told = <<>> /\ (loads[l].settings.callback <=> Calls(a))
  <2>1. loads \in Seq(Load) /\ loads[l] \in Load /\ loads[l].status = "sent" /\ l \in Nat
    <3>1. loads \in Seq(Load)
      BY DEF LoadInv, LoadTypeOK
    <3>2. loads[l].status = "sent"
      BY DEF Answer
    <3> QED BY <3>1, <3>2
  <2>2. a \in Args /\ a.parts \in Seq(DOMAIN Within)
    BY <2>1 DEF Load, Args
  <2>3. ToldOfParts(loads[l], l)
    BY DEF LoadInv
  <2> QED BY <2>1, <2>2, <2>3 DEF LoadInv, LoadTypeOK, ToldOfParts
<1>2. new \in [DOMAIN Within -> Nat] /\ shown' = new /\ answers' = Append(answers, l)
  BY <1>1 DEF Answer
<1>3. told \in Seq(Nat)
  <2>1. \A i \in DOMAIN a.parts : a.parts[i] \in DOMAIN Within
    BY <1>1
  <2>2. Seen(a, shown, new) \in [1 .. Len(a.parts) -> Nat] /\ Len(a.parts) \in Nat
    BY <1>1, <1>2, <2>1 DEF Seen
  <2>3. Seen(a, shown, new) \in Seq(Nat)
    BY <2>2
  <2> QED BY <2>3, <1>1
<1>4. PICK load : load = [loads[l] EXCEPT !.status = s, !.told = told]
  OBVIOUS
<1>5. load \in Load /\ load.args = a /\ load.settings = loads[l].settings /\ load.status = s /\ load.told = told
  <2> HIDE DEF told
  <2> QED BY <1>1, <1>3, <1>4 DEF Load
<1>6. loads' = [loads EXCEPT ![l] = load]
  BY <1>4, <1>1 DEF Answer
<1>7. loads' \in Seq(Load) /\ DOMAIN loads' = DOMAIN loads /\ loads'[l] = load
      /\ \A m \in DOMAIN loads : m # l => loads'[m] = loads[m]
  BY <1>1, <1>5, <1>6
<1>8. /\ answers' \in Seq(Nat) /\ DOMAIN answers' = DOMAIN answers \cup {Len(answers) + 1} /\ Len(answers) \in Nat
      /\ answers'[Len(answers) + 1] = l /\ \A i \in DOMAIN answers : answers'[i] = answers[i]
      /\ \A i \in DOMAIN answers : i \in Int /\ i <= Len(answers)
  BY <1>1, <1>2
<1>9. LoadTypeOK'
  BY <1>2, <1>7, <1>8 DEF LoadTypeOK
<1>10. \A i \in DOMAIN answers : answers[i] \in DOMAIN loads /\ answers[i] # l
  BY <1>1 DEF LoadInv, AnswersOfLoads
<1>11. AnswersOfLoads'
  BY <1>5, <1>7, <1>8, <1>10 DEF LoadInv, AnswersOfLoads
<1>12. ASSUME NEW p \in DOMAIN shown' PROVE ShowsTheLast(p)'
  <2>1. p \in DOMAIN shown /\ ShowsTheLast(p)
    BY <1>1, <1>2 DEF LoadInv
  <2>2. Answering(p) \subseteq DOMAIN answers
    BY DEF Answering
  <2>3. \A i \in DOMAIN answers : i \in Answering(p)' <=> i \in Answering(p)
    BY <1>7, <1>8, <1>10 DEF Answering
  <2>4. Len(answers) + 1 \in Answering(p)' <=> p \in ToSet(a.parts) /\ Shows(s)
    BY <1>5, <1>7, <1>8 DEF Answering, Shows
  <2>5. Answering(p)' \subseteq DOMAIN answers \cup {Len(answers) + 1}
    BY <1>8 DEF Answering
  <2>6. CASE p \in ToSet(a.parts) /\ Shows(s)
    <3>1. shown'[p] = answers'[Len(answers) + 1] /\ Len(answers) + 1 \in Answering(p)'
      BY <2>1, <2>4, <2>6, <1>2, <1>8
    <3>2. \A j \in Answering(p)' : j <= Len(answers) + 1
      BY <2>5, <1>8
    <3> QED BY <3>1, <3>2 DEF ShowsTheLast
  <2>7. CASE ~(p \in ToSet(a.parts) /\ Shows(s))
    <3>1. shown'[p] = shown[p]
      BY <2>1, <2>7, <1>2
    <3>2. Answering(p)' = Answering(p)
      BY <2>2, <2>3, <2>4, <2>5, <2>7
    <3> QED BY <2>1, <2>2, <3>1, <3>2, <1>8 DEF ShowsTheLast
  <2> QED BY <2>6, <2>7
<1>13. ToldOfParts(load, l)
  <2>1. load.settings.callback <=> Calls(load.args)
    BY <1>1, <1>5
  <2>2. Calls(load.args) => Len(told) = Times(load)
    <3>1. CASE a.method = "load"
      <4>1. Calls(a) => told = Seen(a, shown, new)
        BY <3>1, <1>1
      <4>2. Len(Seen(a, shown, new)) = Len(a.parts)
        BY <1>1 DEF Seen
      <4> QED BY <4>1, <4>2, <3>1, <1>5 DEF Times
    <3>2. CASE a.method # "load"
      <4>1. Calls(a) => told = IF Shows(s) THEN <<l>> ELSE <<>>
        BY <3>2, <1>1
      <4>2. Shows(s) <=> s # "error"
        BY DEF Shows
      <4> QED BY <4>1, <4>2, <3>2, <1>5 DEF Times
    <3> QED BY <3>1, <3>2
  <2>3. s = "success" => Range(told) \subseteq {l}
    <3>1. Range(<<l>>) = {l} /\ Range(<<>>) = {}
      BY DEF Range
    <3>2. ASSUME s = "success" PROVE Range(Seen(a, shown, new)) \subseteq {l}
      <4>1. \A i \in DOMAIN a.parts : a.parts[i] \in DOMAIN shown /\ a.parts[i] \in ToSet(a.parts)
        BY <1>1 DEF ToSet
      <4>2. Shows(s)
        BY <3>2 DEF Shows
      <4> QED BY <4>1, <4>2 DEF Range, Seen
    <3> QED BY <3>1, <3>2, <1>1
  <2> QED BY <2>1, <2>2, <2>3, <1>5 DEF ToldOfParts
<1>14. \A m \in DOMAIN loads' : ToldOfParts(loads'[m], m)
  BY <1>7, <1>13 DEF LoadInv
<1> QED BY <1>9, <1>11, <1>12, <1>14 DEF LoadInv

\* Whatever the order of the answers to any number of loads, a part shows the
\* last that is its own and no error, and a callback comes once for each part
\* and finds the answer there (load, get, post).
THEOREM LoadsStayShown == LoadSpec => []LoadsAreShown
<1>1. LoadInv /\ [LoadNext]_loadVars => LoadInv'
  <2> SUFFICES ASSUME LoadInv, [LoadNext]_loadVars PROVE LoadInv'
    OBVIOUS
  <2>1. CASE UNCHANGED loadVars
    BY <2>1 DEF loadVars, LoadInv, LoadTypeOK, AnswersOfLoads, ShowsTheLast, Answering
  <2> QED BY <2>1, AskKeepsLoads, AnswerKeepsLoads DEF LoadNext
<1>2. LoadInv => LoadsAreShown
  BY DEF LoadInv, LoadsAreShown, ShowsTheLast, Answering, ToldOfParts, Calls, Times
<1> QED BY LoadInitInv, <1>1, <1>2, PTL DEF LoadSpec

(***************************************************************************)
(* BoxModel and Placement: sizes and places.                               *)
(*                                                                         *)
(* Measuring changes the style of an element and changes it back, so the   *)
(* lemmas speak of an element with another style, Styled.                  *)
(***************************************************************************)
\* An element with another style.
Styled(e, s) ==
  [nodeType |-> e.nodeType, engine |-> e.engine, style |-> s, sheet |-> e.sheet, natural |-> e.natural,
   container |-> e.container, parentShown |-> e.parentShown, padding |-> e.padding, border |-> e.border,
   margin |-> e.margin, alpha |-> e.alpha, blur |-> e.blur]
Style(d, p, v, w, l) == [display |-> d, position |-> p, visibility |-> v, width |-> w, left |-> l]

IsStyle(s) == s = Style(s.display, s.position, s.visibility, s.width, s.left)

\* What is laid out is not negative.
IsWidth(w) == w = <<>> \/ w \in Width
LEMMA BoxFields ==
  ASSUME NEW e \in Box
  PROVE  /\ e = Styled(e, e.style) /\ IsStyle(e.style)
         /\ e.natural \in Nat /\ e.container \in Nat /\ e.parentShown \in BOOLEAN
         /\ Sides(e.padding) \in Nat /\ Sides(e.border) \in Nat /\ Sides(e.margin) \in Int
         /\ IsWidth(e.style.width) /\ IsWidth(e.sheet.width) /\ IsWidth(Specified(e))
         /\ e.sheet.display \in {"none", "block", "inline"}
         /\ e.style.display \in {"", "none", "block", "inline"} /\ e.style.position \in {"", "absolute"}
         /\ e.nodeType \in {1, 3}
<1>1. e = Styled(e, e.style)
  BY DEF Box, Styled
<1>2. IsStyle(e.style)
  BY DEF Box, IsStyle, Style
<1>3. e.natural \in Nat /\ e.container \in Nat /\ e.parentShown \in BOOLEAN /\ e.nodeType \in {1, 3}
  BY DEF Box
<1>4. Sides(e.padding) \in Nat /\ Sides(e.border) \in Nat /\ Sides(e.margin) \in Int
  BY DEF Box, Both, Sides
<1>5. /\ e.style.width \in {<<>>} \cup Width /\ e.sheet.width \in {<<>>} \cup Width
      /\ e.sheet.display \in {"none", "block", "inline"}
      /\ e.style.display \in {"", "none", "block", "inline"} /\ e.style.position \in {"", "absolute"}
  BY DEF Box, Unstyled
<1> QED BY <1>1, <1>2, <1>3, <1>4, <1>5 DEF IsWidth, Specified

LEMMA RestyledFields ==
  ASSUME NEW e, NEW s
  PROVE  /\ Styled(e, s).style = s
         /\ Styled(e, s).nodeType = e.nodeType /\ Styled(e, s).engine = e.engine /\ Styled(e, s).sheet = e.sheet
         /\ Styled(e, s).natural = e.natural /\ Styled(e, s).container = e.container
         /\ Styled(e, s).parentShown = e.parentShown /\ Styled(e, s).padding = e.padding
         /\ Styled(e, s).border = e.border /\ Styled(e, s).margin = e.margin
         /\ \A t : Styled(Styled(e, s), t) = Styled(e, t)
BY DEF Styled

LEMMA StyleFields ==
  ASSUME NEW d, NEW p, NEW v, NEW w, NEW l
  PROVE  /\ Style(d, p, v, w, l).display = d /\ Style(d, p, v, w, l).position = p
         /\ Style(d, p, v, w, l).visibility = v /\ Style(d, p, v, w, l).width = w /\ Style(d, p, v, w, l).left = l
BY DEF Style

LEMMA WidthIsNat ==
  ASSUME NEW w, IsWidth(w), w # <<>>
  PROVE  InPixels(w) \in Nat
BY DEF IsWidth, InPixels, Width, EmSize

\* The layout of a box, and what is measured of one that takes room.
Laid(e) ==
  /\ e.natural \in Nat /\ e.container \in Nat /\ e.parentShown \in BOOLEAN
  /\ Sides(e.padding) \in Nat /\ Sides(e.border) \in Nat /\ Sides(e.margin) \in Int
  /\ IsWidth(Specified(e))

LEMMA ContentIsNat ==
  ASSUME NEW e, Laid(e)
  PROVE  ContentWidth(e) \in Nat /\ offsetWidth(e) \in Nat
<1>1. Specified(e) # <<>> => InPixels(Specified(e)) \in Nat
  BY WidthIsNat DEF Laid
<1>2. PICK room : room = e.container - Sides(e.padding) - Sides(e.border) - Sides(e.margin)
  OBVIOUS
<1>3. room \in Int /\ e.natural \in Nat
  BY <1>2 DEF Laid
<1>4. ContentWidth(e) = IF Display(e) = "inline" /\ ~Absolute(e) THEN e.natural
                        ELSE IF Specified(e) # <<>> THEN InPixels(Specified(e))
                        ELSE IF Absolute(e) /\ e.natural < room THEN e.natural
                        ELSE IF room > 0 THEN room ELSE 0
  BY <1>2 DEF ContentWidth
<1>5. ContentWidth(e) \in Nat
  BY <1>1, <1>3, <1>4
<1> QED BY <1>5 DEF offsetWidth, Laid

LEMMA ShownIs ==
  ASSUME NEW e, NEW s, e = Styled(e, s), IsStyle(s)
  PROVE  Shown(e) = Styled(e, Style("block", "absolute", "hidden", s.width, s.left))
<1>1. PICK t : t = [s EXCEPT !.position = "absolute", !.visibility = "hidden", !.display = "block"]
  OBVIOUS
<1>2. t = Style("block", "absolute", "hidden", s.width, s.left)
  BY <1>1 DEF IsStyle, Style
<1>3. e.style = s
  BY RestyledFields
<1>4. Shown(e) = [e EXCEPT !.style = t]
  BY <1>1, <1>3 DEF Shown
<1>5. [e EXCEPT !.style = t] = Styled(e, t)
  BY DEF Styled
<1> QED BY <1>2, <1>4, <1>5

\* What is done to an element to measure it is undone.
Above0(v) == IF v > 0 THEN v ELSE 0
LEMMA MeasureIs ==
  ASSUME NEW e, NEW s, e = Styled(e, s), IsStyle(s), NEW x
  PROVE  /\ Measure(e, x).elem = e
         /\ Measure(e, x).val = Above0(IF offsetWidth(e) # 0 THEN WH(e, x) ELSE WH(Shown(e), x))
<1>1. e.style = s
  BY RestyledFields
<1>2. swap(e, x).val = WH(Shown(e), x) /\ swap(e, x).elem = e
  <2>1. PICK f : f = Shown(e)
    OBVIOUS
  <2>2. PICK t : t = Style("block", "absolute", "hidden", s.width, s.left)
    OBVIOUS
  <2>3. f = Styled(e, t) /\ f.style = t
    BY <2>1, <2>2, ShownIs, RestyledFields
  <2>4. PICK back : back = [t EXCEPT !.position = s.position, !.visibility = s.visibility, !.display = s.display]
    OBVIOUS
  <2>5. back = s
    <3>1. back = Style(s.display, s.position, s.visibility, s.width, s.left)
      BY <2>2, <2>4 DEF Style
    <3> QED BY <3>1 DEF IsStyle
  <2>6. [f EXCEPT !.style.position = s.position, !.style.visibility = s.visibility, !.style.display = s.display]
          = [f EXCEPT !.style = back]
    BY <2>3, <2>4 DEF Styled
  <2>7. [f EXCEPT !.style = back] = Styled(e, s)
    BY <2>3, <2>5 DEF Styled
  <2>8. swap(e, x) = [val |-> WH(f, x), elem |-> [f EXCEPT !.style = back]]
    BY <1>1, <2>1, <2>6 DEF swap
  <2> QED BY <2>1, <2>7, <2>8
<1>3. PICK val, elem : /\ val = IF offsetWidth(e) # 0 THEN WH(e, x) ELSE swap(e, x).val
                       /\ elem = IF offsetWidth(e) # 0 THEN e ELSE swap(e, x).elem
  OBVIOUS
<1>4. (IF offsetWidth(e) # 0 THEN [val |-> WH(e, x), elem |-> e] ELSE swap(e, x)) = [val |-> val, elem |-> elem]
  BY <1>3 DEF swap
<1>5. Measure(e, x) = [[val |-> val, elem |-> elem] EXCEPT !.val = Above0(@)]
  BY <1>4 DEF Measure, Above0
<1> QED BY <1>2, <1>3, <1>5

LEMMA LaidShown ==
  ASSUME NEW e, NEW s, e = Styled(e, s), IsStyle(s), Laid(e)
  PROVE  /\ Laid(Shown(e)) /\ Specified(Shown(e)) = Specified(e) /\ Display(Shown(e)) = "block" /\ Absolute(Shown(e))
         /\ Shown(e).parentShown = e.parentShown /\ Shown(e).natural = e.natural /\ Shown(e).container = e.container
         /\ Shown(e).padding = e.padding /\ Shown(e).border = e.border /\ Shown(e).margin = e.margin
<1>1. PICK t : t = Style("block", "absolute", "hidden", s.width, s.left)
  OBVIOUS
<1>2. t.display = "block" /\ t.position = "absolute" /\ t.width = s.width /\ e.style = s
  BY <1>1, StyleFields, RestyledFields
<1>3. PICK f : f = Shown(e)
  OBVIOUS
<1>4. f = Styled(e, t)
  BY <1>1, <1>3, ShownIs
<1>5. /\ f.style = t /\ f.sheet = e.sheet /\ f.parentShown = e.parentShown /\ f.natural = e.natural
      /\ f.container = e.container /\ f.padding = e.padding /\ f.border = e.border /\ f.margin = e.margin
  BY <1>4, RestyledFields
<1>6. Specified(f) = Specified(e) /\ Display(f) = "block" /\ Absolute(f)
  BY <1>2, <1>5 DEF Specified, Display, Absolute, Unstyled
<1>7. Laid(f)
  BY <1>5, <1>6 DEF Laid
<1> QED BY <1>3, <1>5, <1>6, <1>7

LEMMA WidthIs ==
  ASSUME NEW e, NEW s, e = Styled(e, s), IsStyle(s), Laid(e)
  PROVE  /\ width(e) = IF offsetWidth(e) # 0 THEN ContentWidth(e) ELSE IF e.parentShown THEN ContentWidth(Shown(e)) ELSE 0
         /\ width(e) \in Nat
<1>1. PICK f : f = Shown(e)
  OBVIOUS
<1>2. Laid(f) /\ Display(f) = "block" /\ f.parentShown = e.parentShown /\ f.padding = e.padding /\ f.border = e.border
  BY <1>1, LaidShown
<1>3. ContentWidth(e) \in Nat /\ ContentWidth(f) \in Nat
  BY <1>2, ContentIsNat
<1>4. /\ e.parentShown \in BOOLEAN /\ Sides(e.padding) \in Nat /\ Sides(e.border) \in Nat
  BY DEF Laid
<1>5. offsetWidth(e) # 0 => WH(e, "") = ContentWidth(e)
  BY <1>3, <1>4 DEF offsetWidth, WH
<1>6. WH(f, "") = IF e.parentShown THEN ContentWidth(f) ELSE 0 - Sides(e.padding) - Sides(e.border)
  BY <1>2, <1>3, <1>4 DEF offsetWidth, WH, Rendered
<1>7. width(e) = Above0(IF offsetWidth(e) # 0 THEN WH(e, "") ELSE WH(f, ""))
  BY <1>1, MeasureIs DEF width
<1>8. Above0(ContentWidth(e)) = ContentWidth(e) /\ Above0(ContentWidth(f)) = ContentWidth(f)
  BY <1>3 DEF Above0
<1>9. Above0(0 - Sides(e.padding) - Sides(e.border)) = 0
  BY <1>4 DEF Above0
<1>10. width(e) = IF offsetWidth(e) # 0 THEN ContentWidth(e) ELSE IF e.parentShown THEN ContentWidth(f) ELSE 0
  BY <1>5, <1>6, <1>7, <1>8, <1>9
<1> QED BY <1>1, <1>3, <1>10

\* A box whose width is given, or that is out of the flow, is as wide as
\* the one it is measured by.
LEMMA WidthOfBlock ==
  ASSUME NEW e, NEW s, e = Styled(e, s), IsStyle(s), Laid(e), e.parentShown,
         Display(e) = "block", Specified(e) # <<>> \/ Absolute(e)
  PROVE  width(e) = ContentWidth(Shown(e))
<1>1. PICK f : f = Shown(e)
  OBVIOUS
<1>2. /\ Specified(f) = Specified(e) /\ Display(f) = "block" /\ Absolute(f) /\ f.natural = e.natural
      /\ f.container = e.container /\ f.padding = e.padding /\ f.border = e.border /\ f.margin = e.margin
  BY <1>1, LaidShown
<1>3. ContentWidth(f) = ContentWidth(e)
  BY <1>2 DEF ContentWidth
<1> QED BY <1>1, <1>3, WidthIs

LEMMA LargerThan0 ==
  ASSUME NEW v \in Int
  PROVE  Max({0, v}) = Above0(v)
<1>1. Above0(v) \in {0, v} /\ \A y \in {0, v} : Above0(v) >= y
  BY DEF Above0
<1>2. \A x \in {0, v} : (\A y \in {0, v} : x >= y) => x = Above0(v)
  BY DEF Above0
<1> QED BY <1>1, <1>2 DEF Max

LEMMA LentIsReturned ==
  ASSUME NEW e, NEW s, e = Styled(e, s), IsStyle(s), NEW force
  PROVE  CurWidth(e, force)[2] = e
<1>1. e.style = s
  BY RestyledFields
<1>2. PICK lent : lent = [e EXCEPT !.style.left = Specified(e).n]
  OBVIOUS
<1>3. GivenBack(e, lent) = e
  <2>1. PICK t : t = [s EXCEPT !.left = Specified(e).n]
    OBVIOUS
  <2>2. t = Style(s.display, s.position, s.visibility, s.width, t.left)
    BY <2>1 DEF IsStyle, Style
  <2>3. lent = Styled(e, t)
    BY <1>1, <1>2, <2>1 DEF Styled
  <2>4. [t EXCEPT !.left = s.left] = s
    BY <2>2 DEF IsStyle, Style
  <2>5. GivenBack(e, lent) = [lent EXCEPT !.style.left = s.left]
    BY <1>1 DEF GivenBack
  <2>6. [lent EXCEPT !.style.left = s.left] = Styled(e, [t EXCEPT !.left = s.left])
    BY <2>3 DEF Styled
  <2> QED BY <2>4, <2>5, <2>6
<1>4. PICK v, w : v = <<e.style.width, e>> /\ w = <<Specified(e), e>>
  OBVIOUS
<1> QED BY <1>2, <1>3 DEF CurWidth

LEMMA Measured ==
  ASSUME NEW e \in Box
  PROVE  /\ \A x \in {"", "padding", "border", "margin"} : Measure(e, x).elem = e
         /\ \A force \in BOOLEAN : CurWidth(e, force)[2] = e
         /\ Rendered(e) /\ offsetWidth(e) # 0 =>
              /\ width(e) = ContentWidth(e)
              /\ innerWidth(e) = width(e) + Sides(e.padding)
              /\ outerWidth(e, FALSE) = innerWidth(e) + Sides(e.border)
              /\ outerWidth(e, TRUE) = Max({0, outerWidth(e, FALSE) + Sides(e.margin)})
         /\ HiddenByItself(e) /\ (Specified(e) # <<>> \/ Absolute(e)) =>
              width(e) = width(ShownAs(e, "block"))
         /\ Hidden(e) <=> ~Rendered(e)
<1>1. PICK s : s = e.style
  OBVIOUS
<1>2. e = Styled(e, s) /\ IsStyle(s) /\ Laid(e)
  BY <1>1, BoxFields DEF Laid
<1>3. \A x \in {"", "padding", "border", "margin"} : Measure(e, x).elem = e
  BY <1>2, MeasureIs
<1>4. \A force \in BOOLEAN : CurWidth(e, force)[2] = e
  BY <1>2, LentIsReturned
<1>5. ContentWidth(e) \in Nat /\ offsetWidth(e) \in Nat
  BY <1>2, ContentIsNat
<1>6. Sides(e.padding) \in Nat /\ Sides(e.border) \in Nat /\ Sides(e.margin) \in Int
  BY <1>2 DEF Laid
<1>7. ASSUME Rendered(e), offsetWidth(e) # 0
      PROVE  /\ width(e) = ContentWidth(e)
             /\ innerWidth(e) = width(e) + Sides(e.padding)
             /\ outerWidth(e, FALSE) = innerWidth(e) + Sides(e.border)
             /\ outerWidth(e, TRUE) = Max({0, outerWidth(e, FALSE) + Sides(e.margin)})
  <2>1. width(e) = ContentWidth(e)
    BY <1>2, <1>7, WidthIs
  <2>2. offsetWidth(e) = ContentWidth(e) + Sides(e.padding) + Sides(e.border)
    BY <1>7 DEF offsetWidth
  <2>3. \A x : Measure(e, x).val = Above0(WH(e, x))
    BY <1>2, <1>7, MeasureIs
  <2>4. innerWidth(e) = ContentWidth(e) + Sides(e.padding)
    <3>1. WH(e, "padding") = ContentWidth(e) + Sides(e.padding)
      BY <2>2, <1>5, <1>6 DEF WH
    <3> QED BY <3>1, <2>3, <1>5, <1>6 DEF innerWidth, Above0
  <2>5. outerWidth(e, FALSE) = offsetWidth(e)
    <3>1. WH(e, "border") = offsetWidth(e)
      BY DEF WH
    <3>2. outerWidth(e, FALSE) = Above0(offsetWidth(e))
      BY <3>1, <2>3, Zenon DEF outerWidth
    <3>3. Above0(offsetWidth(e)) = offsetWidth(e)
      BY <1>5 DEF Above0
    <3> QED BY <3>2, <3>3, Zenon
  <2>6. outerWidth(e, TRUE) = Max({0, outerWidth(e, FALSE) + Sides(e.margin)})
    <3>1. WH(e, "margin") = offsetWidth(e) + Sides(e.margin)
      BY DEF WH
    <3>2. outerWidth(e, TRUE) = Above0(offsetWidth(e) + Sides(e.margin))
      BY <3>1, <2>3, Zenon DEF outerWidth
    <3>3. offsetWidth(e) + Sides(e.margin) \in Int
      BY <1>5, <1>6
    <3> QED BY <3>2, <3>3, <2>5, LargerThan0
  <2> QED BY <2>1, <2>2, <2>4, <2>5, <2>6, <1>5, <1>6
<1>8. ASSUME HiddenByItself(e), Specified(e) # <<>> \/ Absolute(e)
      PROVE  width(e) = width(ShownAs(e, "block"))
  <2>1. PICK f : f = ShownAs(e, "block")
    OBVIOUS
  <2>2. PICK t : t = Style("block", s.position, s.visibility, s.width, s.left)
    OBVIOUS
  <2>3. t = [s EXCEPT !.display = "block"]
    BY <1>2, <2>2 DEF IsStyle, Style
  <2>4. f = Styled(e, t)
    BY <1>1, <1>2, <2>1, <2>3 DEF ShownAs, Styled
  <2>5. /\ f.style = t /\ f.sheet = e.sheet /\ f.parentShown = e.parentShown /\ f.natural = e.natural
        /\ f.container = e.container /\ f.padding = e.padding /\ f.border = e.border /\ f.margin = e.margin
    BY <2>4, RestyledFields
  <2>6. t.display = "block" /\ t.position = s.position /\ t.width = s.width /\ t.visibility = s.visibility /\ t.left = s.left
    BY <2>2, StyleFields
  <2>7. Specified(f) = Specified(e) /\ Display(f) = "block" /\ (Absolute(f) <=> Absolute(e))
    BY <1>1, <2>5, <2>6 DEF Specified, Display, Absolute, Unstyled
  <2>8. Laid(f) /\ f = Styled(f, t) /\ IsStyle(t)
    BY <1>2, <2>2, <2>4, <2>5, <2>6, <2>7, RestyledFields DEF Laid, IsStyle
  <2>9. f.parentShown /\ e.parentShown /\ offsetWidth(e) = 0
    BY <1>8, <2>5 DEF HiddenByItself, offsetWidth, Rendered
  <2>10. width(f) = ContentWidth(Shown(f))
    BY <1>8, <2>7, <2>8, <2>9, WidthOfBlock
  <2>11. width(e) = ContentWidth(Shown(e))
    BY <1>2, <2>9, WidthIs
  <2>12. Shown(f) = Shown(e)
    <3>1. Shown(f) = Styled(f, Style("block", "absolute", "hidden", t.width, t.left))
      BY <2>8, ShownIs
    <3>2. Shown(e) = Styled(e, Style("block", "absolute", "hidden", s.width, s.left))
      BY <1>2, ShownIs
    <3> QED BY <3>1, <3>2, <2>4, <2>6, RestyledFields
  <2> QED BY <2>1, <2>10, <2>11, <2>12
<1>9. Hidden(e) <=> ~Rendered(e)
  BY <1>5 DEF Hidden, Rendered, offsetWidth
<1> QED BY <1>3, <1>4, <1>7, <1>8, <1>9

LEMMA SizeIsKept ==
  ASSUME NEW e \in Box, NEW want \in Int, NEW after, e.nodeType = 1,
         after = SetWidth(e, [unit |-> "px", n |-> want])
  PROVE  /\ want >= 0 /\ e.parentShown => width([after EXCEPT !.style.display = "block"]) = want
         /\ want < 0 => after = e
<1>1. PICK s : s = e.style
  OBVIOUS
<1>2. e = Styled(e, s) /\ IsStyle(s) /\ Laid(e)
  BY <1>1, BoxFields DEF Laid
<1>3. PICK w : w = [unit |-> "px", n |-> want]
  OBVIOUS
<1>4. w # <<>>
  <2>1. "unit" \in DOMAIN w /\ "unit" \notin DOMAIN <<>>
    BY <1>3
  <2> QED BY <2>1
<1>5. Invalid(w) <=> want < 0
  BY <1>3, <1>4 DEF Invalid
<1>6. want < 0 => after = e
  BY <1>3, <1>5 DEF SetWidth
<1>7. ASSUME want >= 0, e.parentShown
      PROVE  width([after EXCEPT !.style.display = "block"]) = want
  <2>1. PICK t : t = Style("block", s.position, s.visibility, w, s.left)
    OBVIOUS
  <2>2. PICK f : f = [after EXCEPT !.style.display = "block"]
    OBVIOUS
  <2>3. f = Styled(e, t)
    <3>1. PICK u : u = [s EXCEPT !.width = w]
      OBVIOUS
    <3>2. u = Style(s.display, s.position, s.visibility, w, s.left)
      BY <1>2, <3>1 DEF IsStyle, Style
    <3>3. after = [e EXCEPT !.style = u]
      BY <1>1, <1>3, <1>5, <1>7, <3>1 DEF SetWidth
    <3>4. after = Styled(e, u) /\ after.style = u
      BY <1>2, <3>3, RestyledFields DEF Styled
    <3>5. [u EXCEPT !.display = "block"] = t
      BY <2>1, <3>2 DEF Style
    <3>6. f = [after EXCEPT !.style = t]
      BY <2>2, <3>4, <3>5
    <3> QED BY <3>4, <3>6 DEF Styled
  <2>4. t.display = "block" /\ t.position = s.position /\ t.visibility = s.visibility /\ t.width = w /\ t.left = s.left
    BY <2>1, StyleFields
  <2>5. /\ f.style = t /\ f.sheet = e.sheet /\ f.parentShown = e.parentShown /\ f.natural = e.natural
        /\ f.container = e.container /\ f.padding = e.padding /\ f.border = e.border /\ f.margin = e.margin
    BY <2>3, RestyledFields
  <2>6. Specified(f) = w /\ Display(f) = "block"
    BY <1>4, <2>4, <2>5 DEF Specified, Display, Unstyled
  <2>7. IsWidth(w) /\ InPixels(w) = want
    BY <1>3, <1>7 DEF IsWidth, Width, InPixels
  <2>8. Laid(f) /\ f = Styled(f, t) /\ IsStyle(t)
    BY <1>2, <2>1, <2>3, <2>4, <2>5, <2>6, <2>7, RestyledFields DEF Laid, IsStyle
  <2>9. width(f) = ContentWidth(Shown(f))
    BY <1>4, <1>7, <2>5, <2>6, <2>8, WidthOfBlock
  <2>10. Specified(Shown(f)) = w /\ Display(Shown(f)) = "block"
    BY <2>6, <2>8, LaidShown
  <2>11. ContentWidth(Shown(f)) = want
    BY <1>4, <2>7, <2>10 DEF ContentWidth
  <2> QED BY <2>2, <2>9, <2>11
<1> QED BY <1>6, <1>7

LEMMA SizesStay == BoxInit => SizesAreKept
<1> SUFFICES ASSUME BoxInit, NEW i \in DOMAIN boxes, boxes[i].nodeType = 1
             PROVE  LET e == boxes[i]
                        after == SetWidths(boxes, newSize)
                        want == IF newSize.fn THEN width(e) + (i - 1) * newSize.n ELSE newSize.n
                    IN  /\ want >= 0 /\ e.parentShown => width([after[i] EXCEPT !.style.display = "block"]) = want
                        /\ want < 0 => after[i] = e
                        /\ CurOpacity(SetOpacity(e, opacity)) = IF opacity = NoAlpha THEN 100 ELSE opacity
  BY DEF SizesAreKept
<1>1. boxes \in Seq(Box) /\ i \in Nat /\ boxes[i] \in Box /\ newSize.fn \in BOOLEAN /\ newSize.n \in Int
  BY BoxesAreKnown, SizesAreKnown DEF BoxInit
<1>2. PICK e : e = boxes[i]
  OBVIOUS
<1>3. e \in Box /\ e = Styled(e, e.style) /\ IsStyle(e.style) /\ Laid(e) /\ e.nodeType = 1
  BY <1>1, <1>2, BoxFields DEF Laid
<1>4. width(e) \in Nat
  BY <1>3, WidthIs
<1>5. PICK want : want = IF newSize.fn THEN width(e) + (i - 1) * newSize.n ELSE newSize.n
  OBVIOUS
<1>6. want \in Int
  <2>1. (i - 1) * newSize.n \in Int
    BY <1>1
  <2> QED BY <1>1, <1>4, <1>5, <2>1
<1>7. SetWidths(boxes, newSize)[i] = SetWidth(e, [unit |-> "px", n |-> want])
  BY <1>2, <1>5 DEF SetWidths, access
<1>8. PICK after : after = SetWidths(boxes, newSize)[i]
  OBVIOUS
<1>9. /\ want >= 0 /\ e.parentShown => width([after EXCEPT !.style.display = "block"]) = want
      /\ want < 0 => after = e
  BY <1>3, <1>6, <1>7, <1>8, SizeIsKept
<1>10. CurOpacity(SetOpacity(e, opacity)) = IF opacity = NoAlpha THEN 100 ELSE opacity
  BY <1>3 DEF CurOpacity, SetOpacity, Styled
<1> QED BY <1>2, <1>5, <1>8, <1>9, <1>10

\* Where an element is sent, and where it is.
LEMMA Reached ==
  ASSUME NEW s \in Scene, NEW to \in Int
  PROVE  /\ s.position # "absolute" \/ s.left # AutoLeft \/ s.resolves => offset(setOffset(s, to)) = to
         /\ \A m \in {"scrollLeft", "scrollTop"} : offset(scrollTo(s, m, to)) = offset(s)
         /\ s.position = "absolute" /\ s.left # AutoLeft =>
              position(s) = s.left - (IF Positioned(s) THEN s.parent.scroll ELSE 0)
<1>1. /\ s.position \in {"static", "relative", "absolute"} /\ s.left \in {AutoLeft} \cup Int /\ s.margin \in Int
      /\ s.parent.at \in Int /\ s.parent.border \in Int /\ s.parent.padding \in Int /\ s.parent.scroll \in Int
      /\ s.page.x \in Int /\ s.page.client \in Int /\ s.resolves \in BOOLEAN
      /\ s.parent.position \in {"static", "relative"} /\ s.parent.cell \in BOOLEAN
  BY DEF Scene
<1>2. s = [position |-> s.position, left |-> s.left, margin |-> s.margin, parent |-> s.parent, page |-> s.page,
           resolves |-> s.resolves]
  BY DEF Scene
<1>3. InFlow(s) \in Int /\ Block(s) \in Int
  BY <1>1 DEF InFlow, Block
<1>4. ASSUME s.position # "absolute" \/ s.left # AutoLeft \/ s.resolves
      PROVE  offset(setOffset(s, to)) = to
  <2>1. PICK p : p = [s EXCEPT !.position = IF @ = "static" THEN "relative" ELSE @]
    OBVIOUS
  <2>2. /\ p.position = (IF s.position = "static" THEN "relative" ELSE s.position)
        /\ p.left = s.left /\ p.margin = s.margin /\ p.parent = s.parent /\ p.page = s.page /\ p.resolves = s.resolves
        /\ p = [position |-> p.position, left |-> p.left, margin |-> p.margin, parent |-> p.parent, page |-> p.page,
                resolves |-> p.resolves]
    BY <2>1, <1>2
  <2>3. InFlow(p) = InFlow(s) /\ Block(p) = Block(s)
    BY <2>2 DEF InFlow, Block, Positioned
  <2>4. PICK left : left = (to - offsetAfter(s, p)) + Number(ComputedLeft(p))
    OBVIOUS
  <2>5. PICK q : q = [p EXCEPT !.left = left]
    OBVIOUS
  <2>6. setOffset(s, to) = q
    BY <2>1, <2>4, <2>5, Zenon DEF setOffset
  <2>7. q.position = p.position /\ q.left = left /\ q.margin = s.margin /\ q.parent = s.parent /\ q.page = s.page
    BY <2>2, <2>5
  <2>8. InFlow(q) = InFlow(s) /\ Block(q) = Block(s)
    BY <2>7 DEF InFlow, Block, Positioned
  <2>9. offset(p) = PageLeft(p) /\ offset(q) = PageLeft(q) /\ PageLeft(p) \in Int /\ PageLeft(q) \in Int /\ left \in Int
    <3>1. PageLeft(p) \in Int /\ offset(p) = PageLeft(p)
      BY <1>1, <1>3, <2>2, <2>3 DEF PageLeft, Number, offset, BoundingLeft
    <3>2. Number(ComputedLeft(p)) \in Int
      BY <1>1, <1>3, <2>2, <2>3 DEF ComputedLeft, Number
    <3>3. left \in Int
      BY <3>1, <3>2, <2>4 DEF offsetAfter
    <3>4. PageLeft(q) \in Int /\ offset(q) = PageLeft(q)
      BY <1>1, <1>3, <2>2, <2>7, <2>8, <3>3 DEF PageLeft, Number, offset, BoundingLeft
    <3> QED BY <3>1, <3>3, <3>4
  <2>10. left # AutoLeft
    BY <2>9, AutoIsNoNumber
  <2>11. CASE s.position # "absolute"
    <3>1. p.position = "relative" /\ PageLeft(p) = InFlow(s) + Number(s.left) /\ PageLeft(q) = InFlow(s) + left
      BY <2>11, <1>1, <2>2, <2>3, <2>7, <2>8, <2>10 DEF PageLeft, Number
    <3>2. left = to - (InFlow(s) + Number(s.left)) + Number(s.left)
      BY <3>1, <2>2, <2>4, <2>9 DEF ComputedLeft, offsetAfter
    <3>3. Number(s.left) \in Int
      BY <1>1 DEF Number
    <3> QED BY <3>1, <3>2, <3>3, <1>3, <2>6, <2>9
  <2>12. CASE s.position = "absolute" /\ s.left # AutoLeft
    <3>1. PageLeft(p) = Block(s) + s.left + s.margin /\ PageLeft(q) = Block(s) + left + s.margin
      BY <2>12, <2>2, <2>3, <2>7, <2>8, <2>10 DEF PageLeft
    <3>2. left = to - (Block(s) + s.left + s.margin) + s.left
      BY <3>1, <2>12, <2>2, <2>4, <2>9 DEF ComputedLeft, offsetAfter, Number
    <3> QED BY <3>1, <3>2, <1>1, <1>3, <2>6, <2>9, <2>12
  <2>13. CASE s.position = "absolute" /\ s.left = AutoLeft
    <3>1. PageLeft(p) = InFlow(s) /\ PageLeft(q) = Block(s) + left + s.margin
      BY <2>13, <2>2, <2>3, <2>7, <2>8, <2>10 DEF PageLeft
    <3>2. ComputedLeft(p) = InFlow(s) - s.margin - Block(s) /\ ComputedLeft(p) \in Int
      BY <2>13, <1>1, <1>3, <1>4, <2>2, <2>3 DEF ComputedLeft
    <3>3. left = to - InFlow(s) + (InFlow(s) - s.margin - Block(s))
      BY <3>1, <3>2, <2>4, <2>9, AutoIsNoNumber DEF offsetAfter, Number
    <3> QED BY <3>1, <3>3, <1>1, <1>3, <2>6, <2>9
  <2> QED BY <2>11, <2>12, <2>13
<1>5. ASSUME NEW m \in {"scrollLeft", "scrollTop"} PROVE offset(scrollTo(s, m, to)) = offset(s)
  <2>1. PICK q : q = scrollTo(s, m, to)
    OBVIOUS
  <2>2. /\ q.position = s.position /\ q.left = s.left /\ q.margin = s.margin /\ q.parent = s.parent
        /\ q.page.x \in Int /\ q.page.client = s.page.client
    BY <2>1, <1>1, <1>2 DEF scrollTo, Scene
  <2>3. PageLeft(q) = PageLeft(s)
    BY <2>2 DEF PageLeft, InFlow, Block, Positioned, Number
  <2>4. PageLeft(s) \in Int
    BY <1>1, <1>3 DEF PageLeft, Number
  <2> QED BY <2>1, <2>2, <2>3, <2>4, <1>1 DEF offset, BoundingLeft
<1>6. ASSUME s.position = "absolute", s.left # AutoLeft
      PROVE  position(s) = s.left - (IF Positioned(s) THEN s.parent.scroll ELSE 0)
  <2>1. offset(s) = Block(s) + s.left + s.margin
    BY <1>1, <1>3, <1>6 DEF offset, BoundingLeft, PageLeft
  <2>2. offsetParent(s) = IF Positioned(s) THEN "parent" ELSE "body"
    BY DEF offsetParent
  <2> QED BY <2>1, <2>2, <1>1, <1>6 DEF position, Block
<1> QED BY <1>4, <1>5, <1>6

\* For any boxes, style sheets and sizes: what is measured is what is laid
\* out, what is set is what is read, and an element that is sent to a place
\* of the page is there (css, style, swap, curCSS, width, offset, position).
THEOREM GeometryHolds == BoxInit /\ PlaceInit => GeometryIsTrue
<1> SUFFICES ASSUME BoxInit, PlaceInit PROVE GeometryIsTrue
  OBVIOUS
<1>1. MeasuresAreTrue
  <2>1. \A i \in DOMAIN boxes : boxes[i] \in Box
    BY BoxesAreKnown DEF BoxInit
  <2> QED BY <2>1, Measured DEF MeasuresAreTrue
<1>2. PlacesAreReached
  BY Reached, ScenesAreKnown, TargetsAreKnown DEF PlaceInit, PlacesAreReached
<1> QED BY <1>1, <1>2, SizesStay DEF GeometryIsTrue
-----------------------------------------------------------------------------
(* The tests of elements (ElementTests). *)

LEMMA MultipleIsFound ==
  ASSUME NEW a \in Nat \ {0}, NEW d \in Nat
  PROVE  (d % a = 0) <=> \E k \in 0 .. d : d = a * k
<1>1. d = (a * (d \div a)) + (d % a) /\ d \div a \in Int /\ d % a \in 0 .. a - 1
  OBVIOUS
<1>2. ASSUME d % a = 0 PROVE \E k \in 0 .. d : d = a * k
  <2>1. d = a * (d \div a) BY <1>1, <1>2
  <2>2. d \div a \in 0 .. d BY <1>1, <2>1
  <2> QED BY <2>1, <2>2
<1>3. ASSUME NEW k \in 0 .. d, d = a * k PROVE d % a = 0
  BY <1>3
<1> QED BY <1>2, <1>3

\* An equation for children selects the numbers factor * n + plus, for any factor
\* and plus, and a child with any number (Expr.filter.CHILD).
THEOREM EquationsHold ==
  ASSUME NEW eq \in [minus : BOOLEAN, factor : {NoAttr} \cup Nat, plus : {NoAttr} \cup Int],
         NEW index \in Nat \ {0}
  PROVE  EquationHolds(eq, index)
<1> DEFINE a == IF eq.factor = NoAttr THEN 1 ELSE eq.factor
           b == IF eq.plus = NoAttr THEN 0 ELSE eq.plus
           sa == IF eq.minus THEN -a ELSE a
           diff == index - b
           d == Magnitude(diff)
<1>1. a \in Nat /\ b \in Int /\ eq.minus \in BOOLEAN
  OBVIOUS
<1>2. sa \in Int /\ diff \in Int /\ d \in Nat /\ (diff >= 0 => d = diff) /\ (diff < 0 => d = -diff)
  BY <1>1 DEF Magnitude
<1>3. Nth(eq) = [first |-> sa, last |-> b]
  BY DEF Nth
<1>4. NthChild(eq, index) <=>
        IF sa = 0 THEN diff = 0
        ELSE d % Magnitude(sa) = 0 /\ (diff = 0 \/ (diff > 0 <=> sa > 0))
  BY <1>3 DEF NthChild
<1> HIDE DEF a, b, sa
<1>5. EquationHolds(eq, index) <=> (NthChild(eq, index) <=> \E k \in 0 .. d : index = (sa * k) + b)
  BY DEF EquationHolds, a, b, sa
<1>6. ASSUME NEW k \in 0 .. d PROVE index = (sa * k) + b <=> diff = sa * k
  BY <1>1, <1>2
<1>7. CASE sa = 0
  BY <1>2, <1>4, <1>5, <1>6, <1>7
<1>8. CASE sa # 0
  <2>1. PICK m \in Nat \ {0} : m = Magnitude(sa) /\ (sa > 0 => m = sa) /\ (sa < 0 => sa = -m)
    BY <1>2, <1>8 DEF Magnitude
  <2>2. (d % m = 0) <=> \E k \in 0 .. d : d = m * k
    BY <1>2, <2>1, MultipleIsFound
  <2>3. ASSUME NEW k \in 0 .. d
        PROVE  diff = sa * k <=> d = m * k /\ (diff = 0 \/ (diff > 0 <=> sa > 0))
    <3>1. CASE sa > 0
      <4>1. sa * k = m * k /\ m * k \in Nat BY <2>1, <3>1, <1>2
      <4> QED BY <4>1, <3>1, <1>2, <1>8
    <3>2. CASE sa < 0
      <4>1. sa * k = -(m * k) /\ m * k \in Nat BY <2>1, <3>2, <1>2
      <4> QED BY <4>1, <3>2, <1>2, <1>8
    <3> QED BY <3>1, <3>2, <1>2, <1>8
  <2> QED BY <1>4, <1>5, <1>6, <1>8, <2>1, <2>2, <2>3
<1> QED BY <1>7, <1>8

LEMMA PrefixOccurs ==
  ASSUME NEW S, NEW value \in Seq(S), NEW check \in Seq(S), IsPrefix(check, value)
  PROVE  Occurs(value, check)
<1>1. Len(check) <= Len(value) /\ SubSeq(check, 1, Len(check)) = SubSeq(value, 1, Len(check))
  BY DEF IsPrefix
<1>2. SubSeq(check, 1, Len(check)) = check
  OBVIOUS
<1>3. 0 \in 0 .. Len(value) - Len(check)
  BY <1>1
<1>4. SubSeq(value, 0 + 1, 0 + Len(check)) = check
  BY <1>1, <1>2
<1> QED BY <1>3, <1>4 DEF Occurs

LEMMA SuffixOccurs ==
  ASSUME NEW S, NEW value \in Seq(S), NEW check \in Seq(S), IsSuffix(check, value)
  PROVE  Occurs(value, check)
<1> DEFINE m == Len(check)
           n == Len(value)
<1>1. m \in Nat /\ n \in Nat
  OBVIOUS
<1>2. /\ Reverse(check) \in Seq(S) /\ Len(Reverse(check)) = m
      /\ \A i \in 1 .. m : Reverse(check)[i] = check[(m - i) + 1]
  BY DEF Reverse
<1>3. /\ Reverse(value) \in Seq(S) /\ Len(Reverse(value)) = n
      /\ \A i \in 1 .. n : Reverse(value)[i] = value[(n - i) + 1]
  BY DEF Reverse
<1>4. m <= n /\ SubSeq(Reverse(check), 1, m) = SubSeq(Reverse(value), 1, m)
  BY <1>2, <1>3 DEF IsSuffix, IsPrefix
<1>5. ASSUME NEW i \in 1 .. m PROVE Reverse(check)[i] = Reverse(value)[i]
  <2>1. SubSeq(Reverse(check), 1, m)[i] = Reverse(check)[i] BY <1>1, <1>2
  <2>2. SubSeq(Reverse(value), 1, m)[i] = Reverse(value)[i] BY <1>1, <1>3, <1>4
  <2> QED BY <2>1, <2>2, <1>4
<1>6. ASSUME NEW j \in 1 .. m PROVE value[(n - m) + j] = check[j]
  <2> DEFINE i == (m - j) + 1
  <2>1. i \in 1 .. m /\ i \in 1 .. n /\ (m - i) + 1 = j /\ (n - i) + 1 = (n - m) + j
    BY <1>1, <1>4
  <2> HIDE DEF i
  <2>2. Reverse(check)[i] = check[j] BY <2>1, <1>2
  <2>3. Reverse(value)[i] = value[(n - m) + j] BY <2>1, <1>3
  <2> QED BY <2>1, <2>2, <2>3, <1>5
<1> DEFINE t == SubSeq(value, (n - m) + 1, (n - m) + m)
<1>7. t = check
  <2>1. t \in Seq(S) /\ Len(t) = m BY <1>1, <1>4
  <2>2. ASSUME NEW j \in 1 .. m PROVE t[j] = check[j]
    BY <1>1, <1>4, <1>6
  <2> HIDE DEF t
  <2> QED BY <2>1, <2>2
<1>8. n - m \in 0 .. n - m
  BY <1>1, <1>4
<1>9. \E i \in 0 .. n - m : SubSeq(value, i + 1, i + m) = check
  <2> HIDE DEF m, n
  <2> QED BY <1>7, <1>8
<1> QED BY <1>9, Zenon DEF Occurs

\* A text between two spaces (e): what is found of it there is found without them.
LEMMA WordOccurs ==
  ASSUME NEW S, NEW e \in S, NEW value \in Seq(S), NEW check \in Seq(S), check # <<>>,
         Occurs(<<e>> \o value \o <<e>>, <<e>> \o check \o <<e>>)
  PROVE  Occurs(value, check)
<1> DEFINE m == Len(check)
           n == Len(value)
           v == <<e>> \o value \o <<e>>
           c == <<e>> \o check \o <<e>>
<1>1. m \in Nat \ {0} /\ n \in Nat
  OBVIOUS
<1>2. v \in Seq(S) /\ Len(v) = n + 2 /\ \A i \in 1 .. n : v[i + 1] = value[i]
  OBVIOUS
<1>3. c \in Seq(S) /\ Len(c) = m + 2 /\ \A i \in 1 .. m : c[i + 1] = check[i]
  OBVIOUS
<1> HIDE DEF v, c
<1>4. PICK i \in 0 .. Len(v) - Len(c) : SubSeq(v, i + 1, i + Len(c)) = c
  BY DEF Occurs, v, c
<1>5. i \in 0 .. n - m /\ i + Len(c) = i + m + 2
  BY <1>1, <1>2, <1>3, <1>4
<1>6. ASSUME NEW j \in 1 .. m PROVE value[i + j] = check[j]
  <2>1. SubSeq(v, i + 1, i + Len(c))[j + 1] = v[i + (j + 1)]
    BY <1>1, <1>2, <1>3, <1>5
  <2>2. i + j \in 1 .. n /\ i + (j + 1) = (i + j) + 1
    BY <1>1, <1>5
  <2> QED BY <2>1, <2>2, <1>2, <1>3, <1>4
<1> DEFINE t == SubSeq(value, i + 1, i + m)
<1>7. t = check
  <2>1. t \in Seq(S) /\ Len(t) = m BY <1>1, <1>5
  <2>2. ASSUME NEW j \in 1 .. m PROVE t[j] = check[j]
    BY <1>1, <1>5, <1>6
  <2> HIDE DEF t
  <2> QED BY <2>1, <2>2
<1> QED BY <1>5, <1>7 DEF Occurs

LEMMA OccursInItself ==
  ASSUME NEW S, NEW c \in Seq(S)
  PROVE  IsPrefix(c, c) /\ IsSuffix(c, c) /\ Occurs(c, c)
<1>1. IsPrefix(c, c)
  BY DEF IsPrefix
<1>2. IsSuffix(c, c)
  BY DEF IsSuffix, IsPrefix
<1>3. 0 \in 0 .. Len(c) - Len(c) /\ SubSeq(c, 0 + 1, 0 + Len(c)) = c
  OBVIOUS
<1> QED BY <1>1, <1>2, <1>3 DEF Occurs

LEMMA PrefixOfPrefix ==
  ASSUME NEW S, NEW e \in S, NEW value \in Seq(S), NEW check \in Seq(S), IsPrefix(Append(check, e), value)
  PROVE  IsPrefix(check, value)
<1> DEFINE c == Append(check, e)
<1>1. c \in Seq(S) /\ Len(c) = Len(check) + 1 /\ \A i \in 1 .. Len(check) : c[i] = check[i]
  OBVIOUS
<1> HIDE DEF c
<1>2. Len(c) <= Len(value) /\ SubSeq(c, 1, Len(c)) = SubSeq(value, 1, Len(c))
  BY DEF c, IsPrefix
<1>3. ASSUME NEW i \in 1 .. Len(check) PROVE value[i] = check[i]
  <2>1. SubSeq(c, 1, Len(c))[i] = c[i] BY <1>1
  <2>2. SubSeq(value, 1, Len(c))[i] = value[i] BY <1>1, <1>2
  <2> QED BY <1>1, <1>2, <2>1, <2>2
<1>4. SubSeq(check, 1, Len(check)) = SubSeq(value, 1, Len(check))
  BY <1>1, <1>2, <1>3
<1> QED BY <1>1, <1>2, <1>4 DEF IsPrefix

LEMMA BetweenSpaces ==
  ASSUME NEW S, NEW e \in S, NEW c \in Seq(S)
  PROVE  <<e>> \o c \o <<e>> \in Seq(S)
  OBVIOUS

\* The operators for attributes imply each other as they should, for values and
\* checks of any length and any letters, the space and the hyphen among them
\* (Expr.filter.ATTR).
THEOREM OperatorsAreNested ==
  ASSUME NEW S, {" ", "-"} \subseteq S, NEW value, value = NoAttr \/ value \in Seq(S), NEW check \in Seq(S)
  PROVE  OperatorsNest(value, check)
<1> SUFFICES ASSUME check # <<>> PROVE OperatorsNest(value, check)
  BY DEF OperatorsNest
<1> DEFINE H(op) == AttrHolds(value, op, check)
<1>1. CASE value = NoAttr
  BY <1>1 DEF OperatorsNest, AttrHolds
<1>2. CASE value # NoAttr
  <2>1. value \in Seq(S)
    BY <1>2
  <2>2. /\ H("=") <=> value = check
        /\ H("*=") <=> Occurs(value, check)
        /\ H("~=") <=> Occurs(<<" ">> \o value \o <<" ">>, <<" ">> \o check \o <<" ">>)
        /\ H("!=") <=> value # check
        /\ H("^=") <=> IsPrefix(check, value)
        /\ H("$=") <=> IsSuffix(check, value)
        /\ H("|=") <=> value = check \/ IsPrefix(Append(check, "-"), value)
    BY <1>2, Zenon DEF AttrHolds
  <2> HIDE DEF H
  <2>3. " " \in S /\ "-" \in S
    OBVIOUS
  <2>4. H("=") => H("^=") /\ H("$=") /\ H("|=") /\ H("~=")
    <3> SUFFICES ASSUME value = check PROVE H("^=") /\ H("$=") /\ H("|=") /\ H("~=")
      BY <2>2
    <3>1. IsPrefix(check, check) /\ IsSuffix(check, check)
      BY OccursInItself
    <3>2. <<" ">> \o check \o <<" ">> \in Seq(S)
      BY <2>3, BetweenSpaces
    <3>3. Occurs(<<" ">> \o check \o <<" ">>, <<" ">> \o check \o <<" ">>)
      BY <3>2, OccursInItself
    <3> QED BY <3>1, <3>3, <2>2
  <2>5. H("|=") => H("^=")
    <3>1. IsPrefix(check, check)
      BY OccursInItself
    <3>2. IsPrefix(Append(check, "-"), value) => IsPrefix(check, value)
      BY <2>1, <2>3, PrefixOfPrefix, Zenon
    <3> QED BY <2>2, <3>1, <3>2
  <2>6. H("^=") \/ H("$=") \/ H("~=") \/ H("|=") => H("*=")
    BY <2>1, <2>2, <2>5, PrefixOccurs, SuffixOccurs, WordOccurs
  <2>7. H("!=") <=> ~H("=")
    BY <2>2
  <2>8. OperatorsNest(value, check) <=>
          /\ H("=") => H("^=") /\ H("$=") /\ H("|=") /\ H("~=")
          /\ H("^=") \/ H("$=") \/ H("~=") \/ H("|=") => H("*=")
          /\ H("|=") => H("^=")
          /\ H("!=") <=> ~H("=")
    BY Zenon DEF OperatorsNest, H
  <2> QED BY <2>4, <2>5, <2>6, <2>7, <2>8
<1> QED BY <1>1, <1>2
=============================================================================
