------------------------------- MODULE PageLoad -------------------------------
(***************************************************************************)
(* load, get and post: requests whose answers go into parts of the page    *)
(* and to a callback.  jQuery.ajax is taken for granted here (AjaxQueries  *)
(* models it): it completes every request once, in any order.              *)
(***************************************************************************)
EXTENDS Naturals, Sequences, FiniteSets, SequencesExt, Functions

CONSTANTS
  Within,   \* parts of the page: part to the set of parts inside it
  LoadArgs, \* what the page calls: see Args
  MaxLoads  \* bound: calls

\* method: load, or GET and POST for get and post;  parts: those to load into;
\* second, third, fourth: the arguments after the url
Args ==
  [method : {"load", "GET", "POST"}, parts : Seq(DOMAIN Within), second : {"none", "function", "object", "text"},
   third : {"none", "function", "json"}, fourth : {"none", "json"}]

ASSUME LoadArgsAreKnown == LoadArgs \subseteq Args /\ MaxLoads \in Nat

VARIABLES
  loads,    \* [args, settings, status, told]: told is what each callback has seen of its part
  shown,  \* of each part: the load whose answer it shows, 0 for its own
  gone,     \* parts that are no longer in the page
  answers   \* the loads that were answered, in order

loadVars == <<loads, shown, gone, answers>>

LoadInit ==
  /\ loads = <<>> /\ answers = <<>>
  /\ shown = [p \in DOMAIN Within |-> 0]
  /\ gone = {}

\* load: params may be left out before the callback, and objects are posted
LoadSettings(a) ==
  [type |-> IF a.second = "object" THEN "POST" ELSE "GET",
   data |-> IF a.second = "function" THEN "none" ELSE a.second,
   callback |-> "function" \in {a.second, a.third}, dataType |-> "html"]

\* get and post: data may be left out before the callback, and the type moves up
GetSettings(a) ==
  LET left == a.second = "function"
  IN  [type |-> a.method, data |-> IF left THEN "none" ELSE a.second,
       callback |-> left \/ a.third = "function",
       dataType |-> IF left /\ a.fourth = "none" THEN a.third ELSE a.fourth]

\* load, get and post; load for no element asks for nothing
Ask(a) ==
  /\ Len(loads) < MaxLoads
  /\ a.method = "load" => a.parts # <<>>
  /\ loads' = Append(loads, [args |-> a, settings |-> IF a.method = "load" THEN LoadSettings(a) ELSE GetSettings(a),
                             status |-> "sent", told |-> <<>>])
  /\ UNCHANGED <<shown, gone, answers>>

Shows(status) == status \in {"success", "notmodified"}

\* mutant: the callbacks come before the answer is shown
SeenBefore(a, old, new) == [i \in DOMAIN a.parts |-> old[a.parts[i]]]

\* complete: callback for each part, after html
Seen(a, old, new) == [i \in DOMAIN a.parts |-> new[a.parts[i]]]

\* complete of load, or success of get and post; html empties the part first
Answer(l, status) ==
  LET a == loads[l].args
      new == [p \in DOMAIN shown |-> IF p \in ToSet(a.parts) /\ Shows(status) THEN l ELSE shown[p]]
      called == loads[l].settings.callback /\ (a.method = "load" \/ Shows(status))
  IN  /\ loads[l].status = "sent"
      /\ loads' = [loads EXCEPT ![l].status = status,
                                ![l].told = IF ~called THEN @ ELSE IF a.method = "load" THEN Seen(a, shown, new) ELSE <<l>>]
      /\ shown' = new
      /\ gone' = IF Shows(status) THEN gone \cup UNION {Within[p] : p \in ToSet(a.parts)} ELSE gone
      /\ answers' = Append(answers, l)

LoadNext ==
  \/ \E a \in LoadArgs : Ask(a)
  \/ \E l \in DOMAIN loads, s \in {"success", "notmodified", "error"} : Answer(l, s)

LoadSpec == LoadInit /\ [][LoadNext]_loadVars

(***************************************************************************)
(* Properties                                                              *)
(***************************************************************************)
\* A part shows the answer that came last of those to its own loads, which
\* need not be the one that was asked for last, and errors are not shown; a
\* callback, wherever it stands among the arguments, comes once for each part
\* and sees the answer in it (load, get, post).
LoadsAreShown ==
  /\ \A p \in DOMAIN shown :
       LET mine == {i \in DOMAIN answers : p \in ToSet(loads[answers[i]].args.parts) /\ loads[answers[i]].status # "error"}
       IN  \/ mine = {} /\ shown[p] = 0
           \/ \E i \in mine : shown[p] = answers[i] /\ \A j \in mine : j <= i
  /\ \A l \in DOMAIN loads :
       LET a == loads[l].args
           n == IF a.method = "load" THEN Len(a.parts) ELSE IF loads[l].status = "error" THEN 0 ELSE 1
       IN  /\ "function" \in {a.second, a.third} /\ loads[l].status # "sent" => Len(loads[l].told) = n
           /\ loads[l].status = "success" => Range(loads[l].told) \subseteq {l}
=============================================================================
