------------------------------ MODULE Hovering -------------------------------
(***************************************************************************)
(* mouseenter and mouseleave, bound by hover or given to live "hover":     *)
(* the browser only tells of mouseover and mouseout, which bubble, and the *)
(* library finds out whether the pointer has crossed the border of an      *)
(* element.                                                                *)
(***************************************************************************)
EXTENDS Naturals, Sequences, FiniteSets

CONSTANTS
  Up,        \* parent of each node of the page; of the document, NoPlace
  TextNodes,    \* nodes that are texts
  Hoverable, \* elements that hover is called on
  Rows,      \* elements the selector of live fits
  Stops,     \* elements whose handlers return false
  NoPlace,   \* outside of the window
  Chrome,    \* a XUL element of the browser itself
  MaxMoves   \* bound: moves of the pointer

ASSUME MovesAreCounted == MaxMoves \in Nat

VARIABLES
  ie,      \* the browser is Internet Explorer: srcElement, fromElement, toElement
  pointer, \* node under the pointer, NoPlace or Chrome
  events,  \* events to come; the first is the one that is dispatched
  turn,    \* the node that has its turn, or NoPlace
  bound,   \* whom the library has handlers for: <<"bind", e>> or <<"live", e>>
  told,    \* the last they were told was that the pointer is in the element
  blind,   \* those that were bound too late or have missed an event
  origin,  \* where the pointer was before its last move
  astray,  \* someone was told what it knew, or of a border that was not crossed
  moves

hoverVars == <<ie, pointer, events, turn, bound, told, blind, origin, astray, moves>>

Places == DOMAIN Up
Bindings == ({"bind"} \X Hoverable) \cup ({"live"} \X Rows)

Above[n \in Places] == IF Up[n] = NoPlace THEN {n} ELSE {n} \cup Above[Up[n]]
Inside(n, e) == n \in Places /\ e \in Above[n]

HoverInit ==
  /\ ie \in BOOLEAN
  /\ pointer = NoPlace /\ events = <<>> /\ turn = NoPlace
  /\ bound = {"live"} \X Rows
  /\ told = [b \in Bindings |-> FALSE]
  /\ blind = {} /\ origin = NoPlace /\ astray = FALSE /\ moves = 0

(***************************************************************************)
(* The browser.                                                            *)
(***************************************************************************)
NativeEvent(type, node, other) ==
  IF ie
  THEN [type |-> type, target |-> NoPlace, relatedTarget |-> NoPlace, srcElement |-> node,
        fromElement |-> IF type = "mouseout" THEN node ELSE other,
        toElement |-> IF type = "mouseout" THEN other ELSE node]
  ELSE [type |-> type, target |-> node, relatedTarget |-> other, srcElement |-> NoPlace,
        fromElement |-> NoPlace, toElement |-> NoPlace]

\* only Firefox has a chrome, and Internet Explorer has no events of texts
Reachable == {NoPlace} \cup IF ie THEN Places \ TextNodes ELSE Places \cup {Chrome}

Move(n) ==
  /\ events = <<>> /\ moves < MaxMoves
  /\ n \in Reachable \ {pointer}
  /\ LET out == IF pointer \in Places THEN <<NativeEvent("mouseout", pointer, n)>> ELSE <<>>
         over == IF n \in Places THEN <<NativeEvent("mouseover", n, pointer)>> ELSE <<>>
     IN  /\ events' = out \o over
         /\ turn' = IF pointer \in Places THEN pointer ELSE IF n \in Places THEN n ELSE NoPlace
  /\ pointer' = n /\ origin' = pointer /\ moves' = moves + 1
  /\ UNCHANGED <<ie, bound, told, blind, astray>>

(***************************************************************************)
(* The library.                                                            *)
(***************************************************************************)
\* jQuery.event.fix: target and relatedTarget
fix(e) ==
  LET source == IF e.target = NoPlace THEN e.srcElement ELSE e.target
      target == IF source \in TextNodes THEN Up[source] ELSE source
  IN  [type |-> e.type, target |-> target,
       relatedTarget |-> IF e.relatedTarget = NoPlace /\ e.fromElement # NoPlace
                         THEN IF e.fromElement = target THEN e.toElement ELSE e.fromElement
                         ELSE e.relatedTarget]

\* withinElement, when it can read the parents of the other element
withinElement(e, elem) == ~Inside(e.relatedTarget, elem)

\* the nearest element the selector fits
NearestRow(n) == {r \in Rows : Inside(n, r) /\ \A s \in Rows : Inside(n, s) => Inside(r, s)}

\* liveHandler: only the nearest of the matching elements is looked at
LiveCrossed(e) == NearestRow(e.target) \ NearestRow(e.relatedTarget)

InRow(r) == \E s \in Rows \ {r} : Inside(r, s) \/ Inside(s, r)
Seeing == {b \in bound \ blind : b[1] = "bind" \/ ~InRow(b[2])}

\* whose handlers run at this node
Called(e) ==
  IF e.relatedTarget = Chrome THEN {}
  ELSE {b \in bound : b[1] = "bind" /\ b[2] = turn /\ withinElement(e, turn)}
         \cup (IF Up[turn] = NoPlace THEN {"live"} \X LiveCrossed(e) ELSE {})

\* who does not hear of this event: a handler before has stopped it, or the
\* parents of the other element cannot be read
Missing(e, called) ==
  {b \in bound :
     \/ e.relatedTarget = Chrome /\ (IF b[1] = "bind" THEN b[2] = turn ELSE Up[turn] = NoPlace)
     \/ /\ \E c \in called : c[1] = "bind" /\ c[2] \in Stops
        /\ b[1] = "live" \/ (b[2] # turn /\ Inside(turn, b[2]))}

\* eventHandle at one node, and on to the next
Bubble ==
  /\ events # <<>>
  /\ LET e == fix(Head(events))
         called == Called(e)
         entering == e.type = "mouseover"
         stopped == \E c \in called : c[1] = "bind" /\ c[2] \in Stops
         over == stopped \/ Up[turn] = NoPlace
     IN  /\ told' = [b \in Bindings |-> IF b \in called THEN entering ELSE told[b]]
         /\ astray' = (astray \/ \E b \in called \cap Seeing :
                                 told[b] = entering \/ (Inside(origin, b[2]) <=> Inside(pointer, b[2])))
         /\ blind' = (blind \ called) \cup Missing(e, called)
         /\ events' = IF over THEN Tail(events) ELSE events
         /\ turn' = IF ~over THEN Up[turn]
                  ELSE IF Len(events) = 1 THEN NoPlace ELSE pointer
  /\ UNCHANGED <<ie, pointer, origin, bound, moves>>

\* hover( fnOver, fnOut ), between events or in a handler
hover(e) ==
  /\ <<"bind", e>> \notin bound
  /\ bound' = bound \cup {<<"bind", e>>}
  /\ told' = [told EXCEPT ![<<"bind", e>>] = FALSE]
  /\ blind' = IF Inside(pointer, e) \/ events # <<>> THEN blind \cup {<<"bind", e>>} ELSE blind
  /\ UNCHANGED <<ie, pointer, events, turn, origin, astray, moves>>

\* unbind( "mouseenter mouseleave" )
Unhover(e) ==
  /\ <<"bind", e>> \in bound
  /\ bound' = bound \ {<<"bind", e>>}
  /\ blind' = blind \ {<<"bind", e>>}
  /\ UNCHANGED <<ie, pointer, events, turn, origin, told, astray, moves>>

HoverNext ==
  \/ \E n \in Places \cup {NoPlace, Chrome} : Move(n)
  \/ Bubble
  \/ \E e \in Hoverable : hover(e) \/ Unhover(e)

(***************************************************************************)
(* Properties.                                                             *)
(***************************************************************************)
\* When the events of a move have been dispatched, an element was last told
\* that the pointer is in it if and only if it is, wherever between its
\* descendants the pointer has been, and it was never told so twice or of a
\* move that did not cross its border; but not one that has missed an event,
\* nor, with live, one in another that the selector fits as well
\* (withinElement, liveHandler).
HoverIsTrue ==
  /\ events = <<>> => \A b \in Seeing : told[b] <=> Inside(pointer, b[2])
  /\ ~astray
=============================================================================
