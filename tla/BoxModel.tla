------------------------------- MODULE BoxModel -------------------------------
(***************************************************************************)
(* The width of an element as jQuery reads and writes it: css, style,      *)
(* curCSS, swap, and width, innerWidth and outerWidth, in browsers with    *)
(* computed styles and in Internet Explorer.  Heights are the same code.   *)
(***************************************************************************)
EXTENDS Integers, Sequences, FiniteSets, SequencesExt, FiniteSetsExt

CONSTANTS
  Boxes,    \* elements: see Box
  NewSizes, \* what widths are set to, and the function steps: [fn, n]
  Opacities \* in percent, and NoAlpha

Unstyled == "" \* a style that is not set, and a width that is auto
NoAlpha == -1

\* what the left and the right side take, and a width in a style
Both(S) == [1 .. 2 -> S]
Width == [unit : {"px", "em"}, n : Nat]

\* style: inline, may be empty;  sheet: of the style sheets, with the defaults
\* of the browser;  natural: width of the content;  container: of the parent's
\* content;  frame: padding, border and margin on either side
Box ==
  [nodeType : {1, 3}, engine : {"computed", "current"},
   style : [display : {Unstyled, "none", "block", "inline"}, position : {Unstyled, "absolute"},
            visibility : {Unstyled, "hidden"}, width : {<<>>} \cup Width, left : Int],
   sheet : [display : {"none", "block", "inline"}, width : {<<>>} \cup Width],
   natural : Nat, container : Nat, parentShown : BOOLEAN,
   padding : Both(Nat), border : Both(Nat), margin : Both(Int),
   alpha : {NoAlpha} \cup 0 .. 100, blur : BOOLEAN]

ASSUME BoxesAreKnown == Boxes \subseteq Seq(Box)
ASSUME SizesAreKnown == NewSizes \subseteq [fn : BOOLEAN, n : Int]

VARIABLES
  boxes,    \* a set of elements, in the document's order
  opacity,  \* a value for them
  newSize   \* a width for them

BoxInit == boxes \in Boxes /\ opacity \in Opacities /\ newSize \in NewSizes

(***************************************************************************)
(* The browser.                                                            *)
(***************************************************************************)
EmSize == 3
InPixels(w) == IF w.unit = "px" THEN w.n ELSE EmSize * w.n
Display(e) == IF e.style.display # Unstyled THEN e.style.display ELSE e.sheet.display
Specified(e) == IF e.style.width # <<>> THEN e.style.width ELSE e.sheet.width
Sides(s) == s[1] + s[2]
Absolute(e) == e.style.position = "absolute"
Rendered(e) == e.parentShown /\ Display(e) # "none"

ContentWidth(e) ==
  LET room == e.container - Sides(e.padding) - Sides(e.border) - Sides(e.margin)
      atLeastNothing(x) == IF x > 0 THEN x ELSE 0
  IN  IF Display(e) = "inline" /\ ~Absolute(e) THEN e.natural
      ELSE IF Specified(e) # <<>> THEN InPixels(Specified(e))
      ELSE IF Absolute(e) /\ e.natural < room THEN e.natural
      ELSE atLeastNothing(room)

offsetWidth(e) == IF Rendered(e) THEN ContentWidth(e) + Sides(e.padding) + Sides(e.border) ELSE 0

(***************************************************************************)
(* jQuery.style, curCSS and swap of the width.                             *)
(***************************************************************************)
\* negative widths are ignored
Invalid(value) == value # <<>> /\ value.n < 0

\* jQuery.style with a value; texts have no style
SetWidth(e, value) ==
  IF e.nodeType = 3 \/ Invalid(value) THEN e ELSE [e EXCEPT !.style.width = value]

\* mutant: the style that was lent for the conversion stays
Returned(e, lent) == lent

\* style.left is lent to the browser, to turn ems into pixels, and given back
GivenBack(e, lent) == [lent EXCEPT !.style.left = e.style.left]

\* jQuery.curCSS: <<value, element>>
CurWidth(e, force) ==
  LET lent == [e EXCEPT !.style.left = Specified(e).n]
  IN  IF ~force /\ e.style.width # <<>> THEN <<e.style.width, e>>
      ELSE IF e.engine = "computed" THEN
             <<IF Rendered(e) /\ (Display(e) # "inline" \/ Absolute(e)) THEN [unit |-> "px", n |-> ContentWidth(e)]
               ELSE IF Specified(e) = <<>> THEN <<>> ELSE [unit |-> "px", n |-> InPixels(Specified(e))], e>>
      ELSE IF Specified(e) = <<>> \/ Specified(e).unit = "px" THEN <<Specified(e), e>>
      ELSE <<[unit |-> "px", n |-> InPixels(Specified(e))], GivenBack(e, lent)>>

\* cssShow
Shown(e) == [e EXCEPT !.style.position = "absolute", !.style.visibility = "hidden", !.style.display = "block"]

\* getWH
WH(e, extra) ==
  CASE extra = "border" -> offsetWidth(e)
    [] extra = "padding" -> offsetWidth(e) - Sides(e.border)
    [] extra = "margin" -> offsetWidth(e) + Sides(e.margin)
    [] extra = "" -> offsetWidth(e) - Sides(e.padding) - Sides(e.border)

\* jQuery.swap, to measure: [val, elem]
swap(e, extra) ==
  LET s == Shown(e)
  IN  [val |-> WH(s, extra),
       elem |-> [s EXCEPT !.style.position = e.style.position, !.style.visibility = e.style.visibility,
                          !.style.display = e.style.display]]

\* jQuery.css of the width
Measure(e, extra) ==
  LET got == IF offsetWidth(e) # 0 THEN [val |-> WH(e, extra), elem |-> e] ELSE swap(e, extra)
  IN  [got EXCEPT !.val = IF @ > 0 THEN @ ELSE 0]

\* width, innerWidth, outerWidth
width(e) == Measure(e, "").val
innerWidth(e) == Measure(e, "padding").val
outerWidth(e, margin) == Measure(e, IF margin THEN "margin" ELSE "border").val

\* access: a value for all, or a function of the width of an element and its place
access(e, i, size) == [unit |-> "px", n |-> IF size.fn THEN width(e) + i * size.n ELSE size.n]

\* width( size )
SetWidths(set, size) == [i \in DOMAIN set |-> SetWidth(set[i], access(set[i], i - 1, size))]

\* the pseudo :hidden, for an element of some height
Hidden(e) ==
  LET offsetHeight == IF Rendered(e) THEN 1 ELSE 0
  IN  IF offsetWidth(e) = 0 /\ offsetHeight = 0 THEN TRUE
      ELSE IF offsetWidth(e) > 0 /\ offsetHeight > 0 THEN FALSE
      ELSE Display(e) = "none"

\* jQuery.style of the opacity where it is a filter: one that has no alpha yet
\* is replaced as a whole
SetOpacity(e, value) == [e EXCEPT !.alpha = value, !.blur = @ /\ e.alpha # NoAlpha]

\* jQuery.curCSS of the opacity
CurOpacity(e) == IF e.alpha = NoAlpha THEN 100 ELSE e.alpha

(***************************************************************************)
(* Properties                                                              *)
(***************************************************************************)
HiddenByItself(e) == e.parentShown /\ Display(e) = "none"
\* what show() makes of it
ShownAs(e, display) == [e EXCEPT !.style.display = display]

\* A measurement says of an element what the browser lays out, the four sizes
\* being nested around the content; it leaves no trace in the element's style;
\* and of a hidden element of a given width it says what it will be as a block,
\* whereas a width that is auto is that of a box that is taken out of the flow
\* (jQuery.css, swap, curCSS).
MeasuresAreTrue ==
  \A i \in DOMAIN boxes :
    LET e == boxes[i] IN
    /\ \A x \in {"", "padding", "border", "margin"} : Measure(e, x).elem = e
    /\ \A force \in BOOLEAN : CurWidth(e, force)[2] = e
    /\ Rendered(e) /\ offsetWidth(e) # 0 =>
         /\ width(e) = ContentWidth(e)
         /\ innerWidth(e) = width(e) + Sides(e.padding)
         /\ outerWidth(e, FALSE) = innerWidth(e) + Sides(e.border)
         /\ outerWidth(e, TRUE) = Max({0, outerWidth(e, FALSE) + Sides(e.margin)})
    /\ HiddenByItself(e) /\ (Specified(e) # <<>> \/ Absolute(e)) =>
         width(e) = width(ShownAs(e, "block"))
    /\ Hidden(e) <=> ~Rendered(e)

\* Every element of a set has the width that was set, each its own if that is
\* a function, once it is a block, and it keeps the one it had if the new one
\* is negative; an opacity that is set is the one that is read (access, style).
SizesAreKept ==
  LET after == SetWidths(boxes, newSize) IN
  \A i \in DOMAIN boxes :
    LET e == boxes[i]
        want == IF newSize.fn THEN width(e) + (i - 1) * newSize.n ELSE newSize.n
    IN  e.nodeType = 1 =>
          /\ want >= 0 /\ e.parentShown =>
               width([after[i] EXCEPT !.style.display = "block"]) = want
          /\ want < 0 => after[i] = e
          /\ CurOpacity(SetOpacity(e, opacity)) = IF opacity = NoAlpha THEN 100 ELSE opacity
=============================================================================
