---------------------------- MODULE ChangeEvents -----------------------------
(***************************************************************************)
(* change and submit in browsers where they do not bubble, for handlers on *)
(* an element around a form (live, delegate, or bind to the document):     *)
(* jQuery 1.4.2 listens to beforeactivate, focusout, click, keydown and    *)
(* keypress there, keeps the value of each field as its data, and triggers *)
(* the events itself.                                                      *)
(***************************************************************************)
EXTENDS Naturals, Sequences, FiniteSets

CONSTANTS
  Control,  \* the fields: [type, readOnly, group]; the group of radio buttons
  Texts,    \* what the user types or a script writes
  NoControl,
  MaxDeeds  \* bound: what user and script do

ASSUME DeedsAreCounted == MaxDeeds \in Nat
ASSUME NoControlIsNone == NoControl \notin DOMAIN Control

VARIABLES
  content, \* value of each field: a text, the number of an option, a BOOLEAN
  active,  \* the field that has the focus, or NoControl
  bound,   \* the handlers are bound
  heard,   \* "_change_data" of each field, <<>> for undefined
  known,   \* what the handlers know of each field
  silent,  \* fields that a script has changed, or that had the focus when the
           \* handlers were bound, since their last change was told; of radio
           \* buttons the whole group
  again,   \* a handler was told what it knew
  submit,  \* the last deed was a submit event
  deeds

changeVars == <<content, active, bound, heard, known, silent, again, submit, deeds>>

Fields == DOMAIN Control
Ticked(f) == Control[f].type \in {"checkbox", "radio"}
Written(f) == Control[f].type \in {"text", "textarea"}
Indexes == {0, 1}   \* selectedIndex

Contents(f) == IF Ticked(f) THEN BOOLEAN ELSE IF Written(f) THEN Texts ELSE Indexes

ChangeInit ==
  /\ content = [f \in Fields |-> IF Ticked(f) THEN FALSE ELSE IF Written(f) THEN CHOOSE t \in Texts : TRUE ELSE 0]
  /\ active = NoControl
  /\ bound = FALSE
  /\ heard = [f \in Fields |-> <<>>]
  /\ known = content
  /\ silent = {}
  /\ again = FALSE /\ submit = FALSE
  /\ deeds = 0

(***************************************************************************)
(* What the handlers of special.change do, as functions of the state of    *)
(* the library: [heard, known, silent, again].  The values are those the   *)
(* fields have when the event comes.                                       *)
(***************************************************************************)
Library == [heard |-> heard, known |-> known, silent |-> silent, again |-> again]

\* the radio buttons that one of them unchecks
Others(f) == {g \in Fields \ {f} : Control[f].type = "radio" /\ Control[g].type = "radio" /\ Control[g].group = Control[f].group}

\* the event change: whoever hears that a radio button is checked knows of the others
Told(l, f, val) ==
  [l EXCEPT !.known = [g \in Fields |-> IF g = f THEN val[g] ELSE IF g \in Others(f) /\ val[f] THEN FALSE ELSE @[g]],
            !.silent = @ \ {f},
            !.again = @ \/ (f \notin l.silent /\ l.known[f] = val[f])]

\* mutant: the value is kept only when the focus goes
testChangeAtEnd(l, f, type, val) ==
  LET stored == [l EXCEPT !.heard[f] = IF type # "focusout" \/ Control[f].type = "radio" THEN @ ELSE <<val[f]>>]
  IN  IF Control[f].readOnly THEN l
      ELSE IF l.heard[f] \in {<<>>, <<val[f]>>} THEN stored
      ELSE Told(stored, f, val)

\* testChange
testChange(l, f, type, val) ==
  LET stored == [l EXCEPT !.heard[f] = IF type = "focusout" /\ Control[f].type = "radio" THEN @ ELSE <<val[f]>>]
  IN  IF Control[f].readOnly THEN l
      ELSE IF l.heard[f] \in {<<>>, <<val[f]>>} THEN stored
      ELSE Told(stored, f, val)

beforeactivate(l, f, val) == [l EXCEPT !.heard[f] = <<val[f]>>]

focusout(l, f, val) == IF f = NoControl THEN l ELSE testChange(l, f, "focusout", val)

\* the click of a list or of a box
click(l, f, val) == IF Written(f) THEN l ELSE testChange(l, f, "click", val)

\* enter outside a textarea, space on a box, any key in a list of several
keydown(l, f, key, val) ==
  IF \/ key = "enter" /\ Control[f].type # "textarea"
     \/ key = "space" /\ Ticked(f)
     \/ Control[f].type = "select-multiple"
  THEN testChange(l, f, "keydown", val) ELSE l

(***************************************************************************)
(* The user and the scripts of the page.                                   *)
(***************************************************************************)
\* the library hears of what happens once its handlers are bound
Hears(new) ==
  LET l == IF bound THEN new ELSE Library
  IN  /\ heard' = l.heard /\ silent' = l.silent /\ again' = l.again
      /\ known' = IF bound THEN l.known ELSE content'

Deed(isSubmit) ==
  /\ deeds < MaxDeeds
  /\ deeds' = deeds + 1
  /\ submit' = isSubmit

\* A field gets the focus: beforeactivate comes before the other field loses it.
Activate(f) ==
  /\ f # active
  /\ Deed(FALSE)
  /\ active' = f
  /\ UNCHANGED <<content, bound>>
  /\ Hears(focusout(beforeactivate(Library, f, content), active, content))

Leave ==
  /\ active # NoControl
  /\ Deed(FALSE)
  /\ active' = NoControl
  /\ UNCHANGED <<content, bound>>
  /\ Hears(focusout(Library, active, content))

\* typing, and arrow keys in a list; keys other than enter and space go to keydown too
Alter(f, v) ==
  /\ f = active /\ ~Ticked(f) /\ ~Control[f].readOnly
  /\ v # content[f]
  /\ Deed(FALSE)
  /\ content' = [content EXCEPT ![f] = v]
  /\ UNCHANGED <<active, bound>>
  /\ Hears(keydown(Library, f, "other", content))

\* a click on a box or on an option; a radio button stays checked
Picks(f, v) ==
  [g \in Fields |-> IF g = f THEN v ELSE IF g \in Others(f) /\ v THEN FALSE ELSE content[g]]

Choose(f, v, key) ==
  /\ f = active /\ ~Written(f)
  /\ v \in Contents(f) /\ (Control[f].type = "radio" => v) /\ (Control[f].type = "checkbox" => v # content[f])
  /\ Deed(FALSE)
  /\ content' = Picks(f, v)
  /\ UNCHANGED <<active, bound>>
  /\ Hears(click(IF key THEN keydown(Library, f, "space", content) ELSE Library, f, content'))

\* enter: keydown, and then keypress, which submits from a text field
Enter(f) ==
  /\ f = active
  /\ Deed(Control[f].type = "text")
  /\ UNCHANGED <<content, active, bound>>
  /\ Hears(keydown(Library, f, "enter", content))

\* a click on the submit button, which takes the focus
ClickSubmit ==
  /\ Deed(TRUE)
  /\ active' = NoControl
  /\ UNCHANGED <<content, bound>>
  /\ Hears(focusout(Library, active, content))

\* a script changes a field, and no event comes of it
Script(f, v) ==
  /\ v \in Contents(f) /\ v # content[f]
  /\ Deed(FALSE)
  /\ content' = Picks(f, v)
  /\ silent' = IF bound THEN silent \cup {f} \cup Others(f) ELSE silent
  /\ known' = IF bound THEN known ELSE content'
  /\ UNCHANGED <<active, bound, heard, again>>

\* special.change.setup and special.submit.setup, by the first handler
BindHandlers ==
  /\ ~bound
  /\ Deed(FALSE)
  /\ bound' = TRUE
  /\ known' = content
  /\ silent' = IF active = NoControl THEN {} ELSE {active} \cup Others(active)
  /\ UNCHANGED <<content, active, heard, again>>

ChangeNext ==
  \/ \E f \in Fields :
       \/ Activate(f)
       \/ Enter(f)
       \/ \E v \in Contents(f) : Alter(f, v) \/ Script(f, v)
       \/ \E v \in Contents(f), key \in BOOLEAN : Choose(f, v, key)
  \/ Leave
  \/ ClickSubmit
  \/ BindHandlers

ChangeSpec == ChangeInit /\ [][ChangeNext]_changeVars

(***************************************************************************)
(* Properties                                                              *)
(***************************************************************************)
\* The handlers know what every field holds, but for the one the user is in,
\* and when a submit event comes they know that one, too: change comes before
\* submit.  A change a script has made, and the first one of a field that had
\* the focus when the handlers were bound, may go untold.  And no handler is
\* told twice of a change: not by enter and again when the focus goes, not by
\* a key and again by the click it makes (testChange, special.change,
\* special.submit).
ChangesAreTold ==
  /\ bound =>
       \A f \in Fields :
         (f # active \/ submit) /\ f \notin silent /\ ~Control[f].readOnly => known[f] = content[f]
  /\ ~again
=============================================================================
