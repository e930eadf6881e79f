---------------------------- MODULE MCDocuments -----------------------------
(***************************************************************************)
(* What a page shows and how it is kept up to date, for TLC: the parts of  *)
(* jQuery that read and change the document, and the comet connections.  A *)
(* behaviour is one of one part, the scene, and the others rest.           *)
(***************************************************************************)
EXTENDS Selectors, ChangeEvents, SimpleFilters, DeepCopy, Placement, PageLoad, AtmosphereClient, TLC

CONSTANT m1

VARIABLE scene

boxVars == <<boxes, opacity, newSize>>
stillVars == <<tested, extending, boxVars, place, target>>
documentsVars == <<scene, selectorVars, changeVars, loadVars, clientVars, stillVars>>

OneMsg == {m1}
AllTransports == {"long-polling", "streaming", "websocket"}

OneDocument == {CHOOSE d \in Documents : TRUE}
OneQuestion == {CHOOSE q \in Questions : \A i \in DOMAIN q.part : ~q.part[i].nth}
OneExtension == [heap : {CHOOSE h \in Heaps : TRUE}, call : {CHOOSE c \in Calls : TRUE}]
OneScene == {CHOOSE s \in Scenes : TRUE}
OneSize == {CHOOSE n \in NewSizes : TRUE}

DocumentsInit ==
  /\ scene \in {"selectors", "change", "loads", "filters", "copies", "boxes", "places", "push"}
  /\ ChangeInit /\ LoadInit /\ ClientInit
  /\ scene # "push" => browser = "standard"
  /\ IF scene = "selectors" THEN SelectorsInit ELSE Asked(OneDocument, OneQuestion)
  /\ IF scene = "filters" THEN SieveInit ELSE tested = [kind |-> "value", value |-> NoAttr, check |-> <<>>]
  /\ IF scene = "copies" THEN ExtendInit ELSE extending \in OneExtension
  /\ IF scene = "boxes" THEN BoxInit
     ELSE boxes = <<>> /\ opacity = NoAlpha /\ newSize \in OneSize
  /\ IF scene = "places" THEN PlaceInit ELSE place \in OneScene /\ target = 0

DocumentsNext ==
  /\ UNCHANGED <<scene, stillVars>>
  /\ \/ scene = "selectors" /\ SelectorsNext /\ UNCHANGED <<changeVars, loadVars, clientVars>>
     \/ scene = "change" /\ ChangeNext /\ UNCHANGED <<selectorVars, loadVars, clientVars>>
     \/ scene = "loads" /\ LoadNext /\ UNCHANGED <<selectorVars, changeVars, clientVars>>
     \/ scene = "push" /\ ClientNext /\ UNCHANGED <<selectorVars, changeVars, loadVars>>

DocumentsSpec == DocumentsInit /\ [][DocumentsNext]_documentsVars

\* A query finds what its selector says: nothing that does not match, and
\* nothing missed where the nearest candidate is as good as any (Sizzle).
FindsTheMatches ==
  scene = "selectors" => SelectorsTypeOK /\ FindsOnlyMatches /\ FindsAllMatches

(***************************************************************************)
(* Instances.                                                              *)
(***************************************************************************)
Shapes == {<<p1, 1, p3, p4>> : p1 \in {Null, Doc}, p3 \in {1, 2}, p4 \in {1, 2, 3}}
Trees == {p \in Shapes : p[4] = 2 => p[3] # 1}

SomeDocuments ==
  {[parent |-> p, tag |-> t, class |-> c, id |-> 3] :
     p \in Trees, t \in {<<"a", x, y, z>> : x \in {"a", "b"}, y \in {"a", "b"}, z \in {"a", "b"}},
     c \in {{3}, {2, 4}}}

Star == [tag |-> "*", class |-> FALSE, id |-> FALSE, nth |-> FALSE]
A == [Star EXCEPT !.tag = "a"]
B == [Star EXCEPT !.tag = "b"]
C == [Star EXCEPT !.class = TRUE]
X == [Star EXCEPT !.id = TRUE]
N == [Star EXCEPT !.nth = TRUE]

Several(S, n) == [1 .. n -> S]
Asking(rel, part, contexts) == [rel |-> rel, part |-> part, contexts |-> contexts]
Contexts == {<<Doc>>, <<1>>, <<2, 1>>}

SomeQuestions ==
  {Asking(<<r>>, <<p>>, c) : r \in Combinator, p \in {A, B, C, X, N}, c \in Contexts}
    \cup {Asking(<<"", r>>, p, c) : r \in Combinator, p \in Several({A, C, X, N}, 2), c \in {<<Doc>>, <<2, 1>>}}
    \cup {Asking(<<"", q, r>>, p, c) : q \in Combinator, r \in Combinator,
             p \in (Several({B, C}, 3) \ {<<B, B, B>>}) \cup {<<X, A, C>>, <<X, C, B>>, <<A, N, B>>}, c \in {<<Doc>>}}
    \cup {Asking(<<l, r>>, p, <<2>>) : l \in {">", "+", "~"}, r \in Combinator, p \in Several({A, C}, 2)}

AControl(t, r, g) == [type |-> t, readOnly |-> r, group |-> g]
SomeControls ==
  <<AControl("text", FALSE, 0), AControl("checkbox", FALSE, 0), AControl("radio", FALSE, 1), AControl("radio", FALSE, 1),
    AControl("select-one", FALSE, 0), AControl("checkbox", TRUE, 0)>>

AnElement(n, t, d) == [name |-> n, type |-> t, disabled |-> d, checked |-> FALSE, selected |-> FALSE, children |-> 0]
ASieved(f, v, i, of) == [field |-> f, value |-> v, index |-> i, of |-> of]
SomeSieved ==
  <<ASieved(AnElement("input", "text", "false"), NoAttr, 1, 3), ASieved(AnElement("button", "submit", "true"), <<"x">>, 2, 3),
    ASieved(AnElement("p", "none", "none"), <<"x", "-">>, 3, 3), ASieved(AnElement("input", "hidden", "false"), <<"x">>, 1, 1)>>
SomeLists == {<<1, 2, 3, 4>>, <<4, 2, 3>>}
Pseudo(name) == [kind |-> "pseudo", name |-> name]
Having(op, check) == [kind |-> "attr", op |-> op, check |-> check]
Place(name, n) == [kind |-> "pos", name |-> name, n |-> n]
Child(name, eq) == [kind |-> "child", name |-> name, eq |-> eq]
Equation(a, b) == [minus |-> FALSE, factor |-> a, plus |-> b]
Not(e) == [kind |-> "not", expr |-> e]
SomeParts ==
  {Pseudo("input"), Having("=", <<"x">>), Child("nth", Equation(2, 1)), Child("last", Equation(0, 0)),
   Place("first", 0), Place("gt", 0), Place("odd", 0), Not(<<Pseudo("button")>>),
   Not(<<Pseudo("enabled"), Having("^=", <<"x">>)>>)}

TwoNames == <<"a", "b">>
AnObject(k, a, b) == [kind |-> k, fields |-> [a |-> a, b |-> b]]
SomeHeaps ==
  {<<AnObject("object", t.a, t.b), AnObject("object", s.a, s.b), AnObject(k[1], u, -1), AnObject(k[2], -2, v),
     AnObject("array", 0, -5), AnObject(k[3], -4, 0)>> :
     t \in [a : {0, -1, 6}, b : {0, 6}], s \in [a : {0, -2, 4, 5, 1}, b : {-3, 4}], u \in {0, 5}, v \in {0, 5},
     k \in {"object", "array"} \X {"object", "array", "other"} \X {"object", "array"}}
SomeCopies == [deep : BOOLEAN, args : {<<1, 2>>, <<1, 2, 3>>, <<2>>, <<-1, 2, 0, 3>>}]

AWidth(u, n) == [unit |-> u, n |-> n]
ABox(en, d, p, w, sd, sw, up, al) ==
  [nodeType |-> 1, engine |-> en, style |-> [display |-> d, position |-> p, visibility |-> "", width |-> w, left |-> 2],
   sheet |-> [display |-> sd, width |-> sw], natural |-> 4, container |-> 20, parentShown |-> up,
   padding |-> <<1, 2>>, border |-> <<0, 1>>, margin |-> <<3, -1>>, alpha |-> al, blur |-> TRUE]
Plainest == ABox("computed", "", "", <<>>, "block", <<>>, TRUE, 50)
Bare == [Plainest EXCEPT !.padding = <<0, 0>>, !.border = <<0, 0>>, !.natural = 0, !.style.width = AWidth("px", 0)]
SomeBoxes ==
  {<<Plainest, ABox(en, d, p, w, sd, sw, up, al), Bare>> :
     en \in {"computed", "current"}, d \in {"", "none", "block"}, p \in {"", "absolute"},
     w \in {<<>>, AWidth("px", 0), AWidth("em", 2)}, sd \in {"none", "block", "inline"}, sw \in {<<>>, AWidth("em", 3)},
     up \in BOOLEAN, al \in {NoAlpha, 30}}
    \cup {<<[Plainest EXCEPT !.nodeType = 3]>>}
SomeSizes == [fn : {FALSE}, n : {5, -1}] \cup [fn : {TRUE}, n : {2, -4}]
SomeOpacities == {NoAlpha, 0, 50}

SomeScenes ==
  {[position |-> p, left |-> l, margin |-> m, resolves |-> r,
    parent |-> [position |-> q, cell |-> c, at |-> 10, border |-> 1, padding |-> 2, scroll |-> k],
    page |-> [x |-> x, y |-> 0, client |-> d]] :
     p \in {"static", "relative", "absolute"}, l \in {AutoLeft, 4, -3}, m \in {0, 5}, r \in BOOLEAN,
     q \in {"static", "relative"}, c \in BOOLEAN, k \in {0, 3}, x \in {0, 7}, d \in {0, 2}}

SomeWithin == [outer |-> {"inner"}, inner |-> {}]
ALoad(m, p, second, third, fourth) ==
  [method |-> m, parts |-> p, second |-> second, third |-> third, fourth |-> fourth]
SomeLoads ==
  {ALoad("load", <<>>, "none", "none", "none"), ALoad("load", <<"outer">>, "object", "function", "none"),
   ALoad("load", <<"inner">>, "function", "none", "none"), ALoad("load", <<"outer", "inner">>, "text", "function", "none"),
   ALoad("load", <<"inner">>, "none", "none", "none"),
   ALoad("GET", <<>>, "function", "json", "none"), ALoad("POST", <<>>, "object", "function", "json")}
=============================================================================
