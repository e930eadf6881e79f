----------------------------- MODULE MCLibrary ------------------------------
(***************************************************************************)
(* The parts of the script library that do not interact, for TLC: a        *)
(* behaviour is one of one part, the scene, and the others rest.           *)
(***************************************************************************)
EXTENDS Hive, Pollen, PollenArrays, WrappedSets, FormFields, QueryString, PageReady, Hovering, CoreArrays

VARIABLE scene

libraryVars == <<scene, hiveVars, pollenVars, input, wrappedVars, formVars, structure, readyVars, hoverVars, sample>>

AnArray == [a |-> <<>>, b |-> <<>>, bounds |-> NoBounds]
AStructure == CHOOSE v \in Structures : TRUE
ASample == [list |-> <<>>, other |-> <<>>, effect |-> "nothing", when |-> 0]

\* nothing is to come of a page that is loaded
LoadedPage ==
  /\ browser = [events |-> TRUE, scroll |-> FALSE]
  /\ document = [state |-> "complete", body |-> TRUE, loaded |-> TRUE]
  /\ lib = Unready /\ given = <<>>

LibraryInit ==
  /\ scene \in {"hive", "pollen", "sets", "form", "arrays", "query", "ready", "hover", "core"}
  /\ HiveInit /\ PollenInit /\ WrappedInit /\ FormInit
  /\ HoverInit /\ (scene # "hover" => ie = FALSE)
  /\ IF scene = "core" THEN CoreInit ELSE sample = ASample
  /\ IF scene = "ready" THEN ReadyInit ELSE LoadedPage
  /\ \/ scene \notin {"arrays", "query"} /\ input = AnArray /\ structure = AStructure
     \/ scene = "arrays" /\ ArraysInit /\ structure = AStructure
     \/ scene = "query" /\ QueryInit /\ input = AnArray

LibraryNext ==
  /\ UNCHANGED <<scene, input, structure, sample>>
  /\ \/ scene = "hive" /\ HiveNext /\ UNCHANGED <<pollenVars, wrappedVars, formVars, readyVars, hoverVars>>
     \/ scene = "pollen" /\ PollenNext /\ UNCHANGED <<hiveVars, wrappedVars, formVars, readyVars, hoverVars>>
     \/ scene = "sets" /\ WrappedNext /\ UNCHANGED <<hiveVars, pollenVars, formVars, readyVars, hoverVars>>
     \/ scene = "form" /\ FormNext /\ UNCHANGED <<hiveVars, pollenVars, wrappedVars, readyVars, hoverVars>>
     \/ scene = "ready" /\ ReadyNext /\ UNCHANGED <<hiveVars, pollenVars, wrappedVars, formVars, hoverVars>>
     \/ scene = "hover" /\ HoverNext /\ UNCHANGED <<hiveVars, pollenVars, wrappedVars, formVars, readyVars>>

LibrarySpec == LibraryInit /\ [][LibraryNext]_libraryVars /\ HiveFair /\ ReadyFair

\* What else the parts promise: numbers of workers are unique, as are
\* names in a class; sets walk in the direction their operation is named for;
\* the helpers for arrays do what their names say; no scalar of a structure is
\* lost in the query; successful fields are the same to both serializers; no
\* function waiting for the document runs twice; hover tells of every border
\* the pointer crosses, once; and the walks through lists are whole (create,
\* addClass, dir, Pollen.array, buildParams, fieldValue, jQuery.ready,
\* withinElement, jQuery.each).
LibraryIsSound ==
  /\ scene = "hive" => HiveTypeOK /\ NumbersAreUnique
  /\ scene = "sets" => WrappedTypeOK /\ OrderIsByName
  /\ scene = "form" => FormTypeOK /\ ClassesAreDistinct /\ SerializersAgree
  /\ scene = "arrays" => HelpersAgree
  /\ scene = "query" => ParamKeepsScalars
  /\ scene = "ready" => RunsOnce
  /\ scene = "hover" => HoverIsTrue
  /\ scene = "core" => WalksAreWhole /\ ListsAgree

(***************************************************************************)
(* Instances.                                                              *)
(***************************************************************************)
OneInner == [fn \in {"f"} |-> "i"]

SomeRequests == [type : {"GET", "POST"}, url : {"u", Unset}, data : {"d", "7", Unset}, success : {"f", "g", Unset}]

\* body over p, div over p, and a text
SomeKids == [n \in PageNode |-> CASE n = 0 -> <<1>> [] n = 1 -> <<2, 3, 5>> [] n = 3 -> <<4>> [] OTHER -> <<>>]
SomeTags ==
  [n \in PageNode |-> CASE n = 0 -> "#document" [] n = 1 -> "body" [] n \in {2, 4} -> "p" [] n = 3 -> "div"
                        [] n = 5 -> "#text" [] OTHER -> Nil]
SomeHtml ==
  [one |-> [tags |-> <<"b">>, nested |-> FALSE, cacheable |-> TRUE],
   two |-> [tags |-> <<"b", "p">>, nested |-> TRUE, cacheable |-> TRUE],
   option |-> [tags |-> <<"b", "b">>, nested |-> FALSE, cacheable |-> FALSE]]

AField(n, t, v, o) == [name |-> n, type |-> t, value |-> v, options |-> o]
SomeForm ==
  <<AField("t", "text", "", <<>>), AField("c", "checkbox", "x", <<>>),
    AField("r", "radio", "x", <<>>), AField("r", "radio", "y", <<>>),
    AField("s", "select-one", "", <<"x", "y">>), AField("m", "select-multiple", "", <<"x", "y">>),
    AField("u", "file", "z", <<>>), AField("b", "submit", "go", <<>>), AField("i", "image", "go", <<>>)>>
SomeClassLists == {<<"a">>, <<"a", "b">>}

AScalar == [kind |-> "scalar"]
AnArrayOf(s) == [kind |-> "array", items |-> s]
AnObject(k, s) == [kind |-> "object", keys |-> k, items |-> s]
Flat == {AScalar, AnArrayOf(<<>>), AnArrayOf(<<AScalar, AScalar>>), AnObject(<<"k">>, <<AScalar>>)}
Nested == Flat \cup {AnArrayOf(<<a, b>>) : a \in Flat, b \in Flat} \cup {AnObject(<<"k", "[]">>, <<a, b>>) : a \in Flat, b \in Flat}
SomeStructures == {AnObject(<<"p", "q">>, <<a, b>>) : a \in Nested, b \in Flat}

\* a document over an element, in it another with a text, and one beside
SomeUp == [n \in 1 .. 6 |-> CASE n = 1 -> 0 [] n \in {2, 3} -> 1 [] n = 4 -> 2 [] n = 5 -> 4 [] n = 6 -> 3]
=============================================================================
