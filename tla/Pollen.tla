------------------------------- MODULE Pollen -------------------------------
(***************************************************************************)
(* Pollen.ajax, in a worker: the settings of all requests are kept in one  *)
(* object, so that what a request leaves out it takes from the one before. *)
(***************************************************************************)
EXTENDS Naturals, Sequences, SequencesExt

CONSTANTS
  Request,     \* what a worker may ask: [type, url, data, success]
  Numeric,     \* data that are strings of digits
  Unset,        \* a setting that is left out
  MaxRequests  \* bound: requests of a worker

ASSUME RequestsAreCounted == MaxRequests \in Nat

VARIABLES
  options, \* Pollen.ajax._options, shared by all requests
  xhrs     \* the requests that went out: [asked, url, body, success, told]

pollenVars == <<options, xhrs>>

PollenInit ==
  /\ options = [type |-> "GET", url |-> <<>>, data |-> "", success |-> Unset]
  /\ xhrs = <<>>

(***************************************************************************)
(* Pollen.ajax.                                                            *)
(***************************************************************************)
\* Pollen.object.extend of the shared options: a setting that is left out
\* keeps the value the request before gave it
Extended(r) ==
  [type |-> r.type,
   url |-> IF r.url = Unset THEN options.url ELSE <<r.url>>,
   data |-> IF r.data = Unset THEN options.data ELSE r.data,
   success |-> IF r.success = Unset THEN options.success ELSE r.success]

\* isStr, and param of what is not a string: digits are neither string nor
\* object
ParamOf(data) == IF data \in Numeric THEN "" ELSE data

\* mutant: the callback is looked up when the answer comes
AtAnswer(x) == options.success

\* the callback of a request: that of its own call
AtCall(x) == x.success

\* Pollen.ajax.get and post
ajax(r) ==
  /\ Len(xhrs) < MaxRequests
  /\ LET o == Extended(r)
         data == ParamOf(o.data)
         url == IF r.type = "GET" /\ data # "" THEN Append(o.url, data) ELSE o.url
     IN  /\ options' = [o EXCEPT !.data = data, !.url = url]
         /\ xhrs' = Append(xhrs, [asked |-> r, url |-> url, success |-> o.success,
                                  body |-> IF r.type = "POST" THEN data ELSE "", told |-> {}])

Answer(i) ==
  /\ xhrs[i].told = {}
  /\ xhrs' = [xhrs EXCEPT ![i].told = {AtCall(xhrs[i])}]
  /\ UNCHANGED options

PollenNext ==
  \/ \E r \in Request : ajax(r)
  \/ \E i \in DOMAIN xhrs : Answer(i)

PollenSpec == PollenInit /\ [][PollenNext]_pollenVars

(***************************************************************************)
(* Properties.                                                             *)
(***************************************************************************)
Complete(r) == Unset \notin {r.url, r.data, r.success}

\* A request that gives all its settings goes out with them and is answered
\* to its own callback, whatever requests before it or beside it asked for:
\* the shared options leak into incomplete requests only (Pollen.ajax._ajax).
OwnRequest ==
  \A i \in DOMAIN xhrs :
    LET x == xhrs[i] IN
    Complete(x.asked) =>
      /\ Head(x.url) = x.asked.url
      /\ ToSet(Tail(x.url)) \cup {x.body} \subseteq {x.asked.data, ""}
      /\ x.told \subseteq {x.asked.success}
=============================================================================
