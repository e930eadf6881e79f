------------------------------ MODULE Placement -------------------------------
(***************************************************************************)
(* Where an element is, along one axis: offset, offset( coordinates ),     *)
(* position and offsetParent in browsers with getBoundingClientRect, and   *)
(* scrollLeft and scrollTop of the window.                                 *)
(***************************************************************************)
EXTENDS BoxModel

CONSTANTS
  Scenes,  \* elements in their parents: see Scene
  Targets, \* coordinates for the page to set
  AutoLeft \* a left that is not given

\* left and margin of the element;  parent: a box at a place of the page, a
\* table cell or not;  page: how far it is scrolled, and the border of its
\* window;  resolves: the browser's computed left is a number even for auto
Scene ==
  [position : {"static", "relative", "absolute"}, left : {AutoLeft} \cup Int, margin : Int,
   parent : [position : {"static", "relative"}, cell : BOOLEAN, at : Int, border : Nat, padding : Nat, scroll : Nat],
   page : [x : Nat, y : Nat, client : Nat], resolves : BOOLEAN]

ASSUME ScenesAreKnown == Scenes \subseteq Scene
ASSUME TargetsAreKnown == Targets \subseteq Int
ASSUME AutoIsNoNumber == AutoLeft \notin Int

VARIABLES place, target

PlaceInit == place \in Scenes /\ target \in Targets

(***************************************************************************)
(* The browser.                                                            *)
(***************************************************************************)
Number(left) == IF left = AutoLeft THEN 0 ELSE left
Positioned(s) == s.parent.position # "static"
InFlow(s) == s.parent.at + s.parent.border + s.parent.padding + s.margin - s.parent.scroll
Block(s) == IF Positioned(s) THEN s.parent.at + s.parent.border - s.parent.scroll ELSE 0

PageLeft(s) ==
  CASE s.position = "static" -> InFlow(s)
    [] s.position = "relative" -> InFlow(s) + Number(s.left)
    [] s.position = "absolute" -> IF s.left = AutoLeft THEN InFlow(s) ELSE Block(s) + s.left + s.margin

BoundingLeft(s) == PageLeft(s) - s.page.x + s.page.client
ComputedLeft(s) ==
  IF s.left = AutoLeft /\ s.position = "absolute" /\ s.resolves THEN InFlow(s) - s.margin - Block(s) ELSE s.left

(***************************************************************************)
(* jQuery.                                                                 *)
(***************************************************************************)
offset(s) == BoundingLeft(s) + s.page.x - s.page.client

\* mutant: the offset is taken before the element gets its position
offsetBefore(s, positioned) == offset(s)

\* curOffset
offsetAfter(s, positioned) == offset(positioned)

\* jQuery.offset.setOffset
setOffset(s, to) ==
  LET p == [s EXCEPT !.position = IF @ = "static" THEN "relative" ELSE @]
  IN  [p EXCEPT !.left = (to - offsetAfter(s, p)) + Number(ComputedLeft(p))]

\* offsetParent: a cell is the browser's answer, too, but if it is not
\* positioned the next one is asked
offsetParent(s) ==
  LET told == IF Positioned(s) \/ s.parent.cell THEN "parent" ELSE "body"
  IN  IF told = "parent" /\ ~Positioned(s) THEN "body" ELSE told

position(s) ==
  LET parentOffset == IF offsetParent(s) = "body" THEN 0 ELSE s.parent.at + s.parent.border
  IN  (offset(s) - s.margin) - parentOffset

\* scrollLeft( val ) and scrollTop( val ) of the window
scrollTo(s, method, val) ==
  [s EXCEPT !.page.x = IF method = "scrollLeft" THEN val ELSE @, !.page.y = IF method = "scrollTop" THEN val ELSE @]

(***************************************************************************)
(* Properties                                                              *)
(***************************************************************************)
\* An element that is sent to a place of the page is there, unless it is
\* absolute, has no left, and the browser does not compute one; where it is
\* does not depend on how far the page is scrolled; and the position of an
\* absolute element in its offset parent is its left, as far as the parent is
\* not scrolled (offset, setOffset, position).
PlacesAreReached ==
  LET s == place IN
  /\ s.position # "absolute" \/ s.left # AutoLeft \/ s.resolves => offset(setOffset(s, target)) = target
  /\ \A m \in {"scrollLeft", "scrollTop"} : offset(scrollTo(s, m, target)) = offset(s)
  /\ s.position = "absolute" /\ s.left # AutoLeft =>
       position(s) = s.left - (IF Positioned(s) THEN s.parent.scroll ELSE 0)

\* What jQuery says of sizes and places is what the browser lays out, and what
\* is set is what is read afterwards (css, style, width, offset, position).
GeometryIsTrue == MeasuresAreTrue /\ SizesAreKept /\ PlacesAreReached
=============================================================================
