----------------------------- MODULE FormFields -----------------------------
(***************************************************************************)
(* The fields of a form of the page, as jQuery 1.4.2 and jquery.form.js    *)
(* read and change them: val, attr, clearForm, resetForm, enable and       *)
(* selected; the two ways to make the list of name and value pairs of a    *)
(* request of them (serializeArray and formToArray); and the class names   *)
(* of an element.                                                          *)
(***************************************************************************)
EXTENDS Naturals, Sequences, FiniteSets, SequencesExt

CONSTANTS
  Form,        \* the elements of the form in order: [name, type, value, options];
               \* an option is its value, a text if that is not specified
  Values,      \* what is typed or set
  ClassLists,  \* lists of class names, as given to addClass and the rest
  NoValue,
  MaxEdits     \* bound: changes of the form

Field == DOMAIN Form

ASSUME FormBounds == MaxEdits \in Nat

VARIABLES
  form,    \* each field: value, checked, disabled, picked (options)
  clk,     \* form.clk: the button that was clicked, while the form is submitted
  class,   \* the class names of an element, in order
  stored,  \* its data "__className__"
  edits

formVars == <<form, clk, class, stored, edits>>

Tick(f) == Form[f].type \in {"checkbox", "radio"}
IsSelect(f) == Form[f].type \in {"select-one", "select-multiple"}
Textual == {"text", "password", "textarea", "hidden"}

FormDefault ==
  [f \in Field |-> [value |-> Form[f].value, checked |-> FALSE, disabled |-> FALSE,
                    picked |-> IF Form[f].type = "select-one" THEN {1} ELSE {}]]

(***************************************************************************)
(* What the browser does.                                                  *)
(***************************************************************************)
\* one radio button of a name is checked
Check(s, f, to) ==
  [g \in Field |->
    IF g = f THEN [s[g] EXCEPT !.checked = to]
    ELSE IF to /\ Form[f].type = "radio" /\ Form[g].type = "radio" /\ Form[g].name = Form[f].name
    THEN [s[g] EXCEPT !.checked = FALSE] ELSE s[g]]

\* option.selected = to; a list for one option turns to the first one when none is left
PickOption(s, f, o, to) ==
  LET one == Form[f].type = "select-one"
      left == IF ~to THEN s[f].picked \ {o} ELSE IF one THEN {o} ELSE s[f].picked \cup {o}
  IN  [s EXCEPT ![f].picked = IF one /\ left = {} THEN {1} ELSE left]

Reset(s) == [f \in Field |-> [FormDefault[f] EXCEPT !.disabled = s[f].disabled]]

(***************************************************************************)
(* Reading.  The value of a field is a list: of one for most, of any       *)
(* number for a list of several options, and NoValue for no value.            *)
(***************************************************************************)
Picked(s, f) == SelectSeq([o \in DOMAIN Form[f].options |-> o], LAMBDA o : o \in s[f].picked)
OptionValues(s, f) == LET p == Picked(s, f) IN [i \in DOMAIN p |-> Form[f].options[p[i]]]

\* jQuery.fn.val()
Val(s, f) ==
  IF ~IsSelect(f) THEN <<s[f].value>>
  ELSE IF s[f].picked = {} THEN NoValue ELSE OptionValues(s, f)

\* mutant: a disabled field has its value
UnsuccessfulEnabled(s, c, f) ==
  \/ Form[f].name = NoValue
  \/ Form[f].type \in {"reset", "button"}
  \/ Tick(f) /\ ~s[f].checked
  \/ Form[f].type \in {"submit", "image"} /\ c # f
  \/ IsSelect(f) /\ s[f].picked = {}

\* $.fieldValue of a field, if it must be successful
Unsuccessful(s, c, f) ==
  \/ Form[f].name = NoValue \/ s[f].disabled
  \/ Form[f].type \in {"reset", "button"}
  \/ Tick(f) /\ ~s[f].checked
  \/ Form[f].type \in {"submit", "image"} /\ c # f
  \/ IsSelect(f) /\ s[f].picked = {}

FieldValue(s, c, f, successful) ==
  IF successful /\ Unsuccessful(s, c, f) THEN NoValue
  ELSE IF IsSelect(f) THEN (IF s[f].picked = {} THEN NoValue ELSE OptionValues(s, f))
  ELSE <<s[f].value>>

Pairs(f, v) == IF v = NoValue THEN <<>> ELSE [i \in DOMAIN v |-> [name |-> Form[f].name, part |-> "", value |-> v[i]]]

\* jQuery.fn.serializeArray: by name, state and type
Serialized(s, f) ==
  Form[f].name # NoValue /\ ~s[f].disabled /\ (s[f].checked \/ IsSelect(f) \/ Form[f].type \in Textual)

SerializeArray(s) ==
  FlattenSeq([f \in Field |-> IF Serialized(s, f) THEN Pairs(f, Val(s, f)) ELSE <<>>])

\* the value of an image is followed by where it was clicked
ImagePairs(s, f) ==
  LET Where(part) == [name |-> Form[f].name, part |-> part, value |-> NoValue]
  IN  Pairs(f, <<s[f].value>>) \o <<Where(".x"), Where(".y")>>

\* $.fn.formToArray; an image is not among the elements of a form, and comes
\* last unless the order of the document is asked for
FormToArray(s, c, semantic) ==
  LET image == c # NoValue /\ Form[c].type = "image"
      Of(f) == IF Form[f].name = NoValue \/ (Form[f].type = "image" /\ ~semantic) THEN <<>>
               ELSE IF semantic /\ c # NoValue /\ Form[f].type = "image"
               THEN (IF ~s[f].disabled /\ c = f THEN ImagePairs(s, f) ELSE <<>>)
               ELSE Pairs(f, FieldValue(s, c, f, TRUE))
  IN  FlattenSeq([f \in Field |-> Of(f)])
        \o IF ~semantic /\ image /\ Form[c].name # NoValue /\ ~s[c].disabled THEN ImagePairs(s, c) ELSE <<>>

(***************************************************************************)
(* Changing.                                                               *)
(***************************************************************************)
\* val( array ) and val( string ): values is the list, one says it is a string
SetVal(s, f, values, one) ==
  CASE Tick(f) /\ ~one -> Check(s, f, s[f].value \in ToSet(values))
    [] IsSelect(f) ->
         LET all == FoldLeftDomain(LAMBDA r, o : PickOption(r, f, o, Form[f].options[o] \in ToSet(values)),
                                   s, Form[f].options)
         IN  IF values = <<>> THEN [all EXCEPT ![f].picked = {}] ELSE all
    [] OTHER -> [s EXCEPT ![f].value = IF values = <<>> THEN "" ELSE Head(values)]

\* clearForm: buttons, hidden fields and files stay
ClearFields(s) ==
  [f \in Field |->
    CASE Form[f].type \in {"text", "password", "textarea"} -> [s[f] EXCEPT !.value = ""]
      [] Tick(f) -> [s[f] EXCEPT !.checked = FALSE]
      [] IsSelect(f) -> [s[f] EXCEPT !.picked = {}]
      [] OTHER -> s[f]]

\* $.fn.selected of an option: in a list for one the others are deselected
\* first, each a call of its own
SelectedOption(s, f, o, to) ==
  LET off == IF to /\ Form[f].type = "select-one"
             THEN FoldLeftDomain(LAMBDA r, p : PickOption(r, f, p, FALSE), s, Form[f].options) ELSE s
  IN  PickOption(off, f, o, to)

\* addClass: names the element does not have; a name given twice is added twice
AddClass(c, names) ==
  IF c = <<>> THEN names ELSE c \o SelectSeq(names, LAMBDA n : n \notin ToSet(c))

\* removeClass: one occurrence of each
RemoveClass(c, names) ==
  FoldLeft(LAMBDA r, n : IF n \in ToSet(r) THEN RemoveAt(r, SelectInSeq(r, LAMBDA m : m = n)) ELSE r, c, names)

ToggleNames(c, names) ==
  FoldLeft(LAMBDA r, n : IF n \in ToSet(r) THEN RemoveClass(r, <<n>>) ELSE AddClass(r, <<n>>), c, names)

(***************************************************************************)
(* Actions                                                                 *)
(***************************************************************************)
FormInit ==
  /\ form = FormDefault
  /\ clk = NoValue
  /\ class = <<>> /\ stored = <<>>
  /\ edits = 0

Edit(new) ==
  /\ edits < MaxEdits
  /\ edits' = edits + 1
  /\ form' = new
  /\ UNCHANGED <<clk, class, stored>>

\* the user
TypeIn(f, v) == Form[f].type \in Textual /\ Edit([form EXCEPT ![f].value = v])
Tick1(f) == Tick(f) /\ Edit(Check(form, f, Form[f].type = "radio" \/ ~form[f].checked))
PickOne(f, o) == IsSelect(f) /\ o \in DOMAIN Form[f].options /\ Edit(PickOption(form, f, o, o \notin form[f].picked))

\* a click of a button, and the timer that forgets it (FormSubmit)
ClickButton(f) ==
  /\ Form[f].type \in {"submit", "image"} /\ clk = NoValue
  /\ clk' = f
  /\ UNCHANGED <<form, class, stored, edits>>
ForgetClick ==
  /\ clk # NoValue /\ clk' = NoValue
  /\ UNCHANGED <<form, class, stored, edits>>

\* the program; attr( "disabled", ... ) and enable() set the same property
SetValue(f, v) == Edit(SetVal(form, f, <<v>>, TRUE)) \/ Edit(SetVal(form, f, <<v>>, FALSE)) \/ Edit(SetVal(form, f, <<>>, FALSE))
ClearForm == Edit(ClearFields(form))
ResetForm == Edit(Reset(form))
Enable(f, b) == Edit([form EXCEPT ![f].disabled = ~b])
Selected(f, b) ==
  \/ Tick(f) /\ Edit(Check(form, f, b))
  \/ \E o \in DOMAIN Form[f].options : IsSelect(f) /\ Edit(SelectedOption(form, f, o, b))

Restyle(c) ==
  /\ edits < MaxEdits
  /\ edits' = edits + 1
  /\ class' = c
  /\ UNCHANGED <<form, clk>>

ChangeClass(names) ==
  /\ \/ Restyle(AddClass(class, names))
     \/ Restyle(RemoveClass(class, names))
     \/ Restyle(ToggleNames(class, names))
     \/ Restyle(<<>>)                       \* removeClass()
  /\ UNCHANGED stored

\* toggleClass() and toggleClass( boolean ): all names go, or come back
ToggleAll(off) ==
  /\ Restyle(IF class # <<>> \/ off THEN <<>> ELSE stored)
  /\ stored' = IF class # <<>> THEN class ELSE stored

FormNext ==
  \/ \E f \in Field :
       \/ \E v \in Values : TypeIn(f, v) \/ SetValue(f, v)
       \/ Tick1(f) \/ ClickButton(f)
       \/ \E o \in 1 .. 3 : PickOne(f, o)
       \/ \E b \in BOOLEAN : Enable(f, b) \/ Selected(f, b)
  \/ ForgetClick \/ ClearForm \/ ResetForm
  \/ \E names \in ClassLists : ChangeClass(names)
  \/ \E off \in BOOLEAN : ToggleAll(off)

(***************************************************************************)
(* Properties                                                              *)
(***************************************************************************)
FormTypeOK ==
  /\ form \in [Field -> [value : Values \cup {Form[f].value : f \in Field} \cup {""}, checked : BOOLEAN,
                         disabled : BOOLEAN, picked : SUBSET (1 .. 3)]]
  /\ clk \in Field \cup {NoValue}

\* Without a click, the two ways to read a form give the same pairs in the
\* same order, whatever was done to the fields: jQuery chooses by the type and
\* then asks for the value, the form plugin asks every field whether it is
\* successful; only files are the plugin's alone (serializeArray, fieldValue).
\* With a click only the button is added.
SerializersAgree ==
  LET plugin == FormToArray(form, clk, FALSE)
      files == {Form[f].name : f \in {g \in Field : Form[g].type = "file"}}
      button == IF clk = NoValue THEN {} ELSE {Form[clk].name}
  IN  SelectSeq(plugin, LAMBDA p : p.name \notin files \cup button) = SerializeArray(form)

\* An element gets no class name twice of lists without a name twice, so one
\* removal or one toggle is enough to be rid of it (addClass, removeClass).
ClassesAreDistinct ==
  (\A names \in ClassLists : IsInjective(names)) => IsInjective(class) /\ IsInjective(stored)

=============================================================================
