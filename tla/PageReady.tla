----------------------------- MODULE PageReady ------------------------------
(***************************************************************************)
(* jQuery( function ) and the ready event of jQuery 1.4.2: functions that  *)
(* wait for the document, in a browser with DOMContentLoaded or in one     *)
(* with onreadystatechange and doScroll.                                   *)
(***************************************************************************)
EXTENDS Naturals, Sequences, FiniteSets, SequencesExt, Functions

CONSTANTS
  Fn,      \* functions of the page
  Bound,   \* those of them it binds to the event "ready", the others go to ready( fn )
  Throws,  \* those that throw
  Inner    \* those that are given to ready by another one: function to function

ASSUME ReadyFunctions == Bound \subseteq Fn /\ Throws \subseteq Fn /\ Inner \in [DOMAIN Inner -> Fn \ Bound]

VARIABLES
  browser,  \* events: it has addEventListener;  scroll: IE outside a frame
  document, \* state: document.readyState;  body: it is there;  loaded: window.onload was
  lib,      \* isReady;  bound: readyBound;  listens: to events, which bindReady does
            \* unless they are over;  list: readyList;  handlers: bound to "ready";
            \* again, scroll: timers of jQuery.ready and doScrollCheck;
            \* ran: functions that ran, in order
  given     \* functions the page has given to ready, in order

readyVars == <<browser, document, lib, given>>

Unready ==
  [isReady |-> FALSE, bound |-> FALSE, listens |-> FALSE, list |-> <<>>, handlers |-> <<>>,
   again |-> FALSE, scroll |-> FALSE, ran |-> <<>>]

ReadyInit ==
  /\ browser \in {[events |-> TRUE, scroll |-> FALSE], [events |-> FALSE, scroll |-> FALSE],
                  [events |-> FALSE, scroll |-> TRUE]}
  /\ document = [state |-> "loading", body |-> FALSE, loaded |-> FALSE]
  /\ lib = Unready
  /\ given = <<>>

(***************************************************************************)
(* Functions run one after the other until one throws; one that is given   *)
(* by another then runs inside it, as the document is ready.               *)
(***************************************************************************)
RunOne(f) == IF f \in DOMAIN Inner THEN <<f, Inner[f]>> ELSE <<f>>
RunAll(list) ==
  FoldLeft(LAMBDA r, f : IF r.threw THEN r
                         ELSE [done |-> r.done \o RunOne(f), threw |-> ToSet(RunOne(f)) \cap Throws # {}],
           [done |-> <<>>, threw |-> FALSE], list)

\* jQuery.ready does something the first time only
FirstTime(l) == ~l.isReady

\* jQuery.ready: an exception leaves the list as it is, and "ready" untriggered
ReadyNow(l, body) ==
  LET first == RunAll(l.list)
      after == IF first.threw THEN <<>> ELSE RunAll(l.handlers).done
  IN  IF ~FirstTime(l) THEN l
      ELSE IF ~body THEN [l EXCEPT !.again = TRUE]
      ELSE [l EXCEPT !.isReady = TRUE, !.list = IF first.threw THEN @ ELSE <<>>, !.ran = @ \o first.done \o after]

\* mutant: bindReady listens to events that may be over
NeverLate == FALSE

\* the document was complete before anything waited for it
Late == document.state = "complete"

bindReady(l) ==
  IF l.bound THEN l
  ELSE IF Late THEN ReadyNow([l EXCEPT !.bound = TRUE], document.body)
  ELSE [l EXCEPT !.bound = TRUE, !.listens = TRUE, !.scroll = browser.scroll]

(***************************************************************************)
(* The script of the page.                                                 *)
(***************************************************************************)
\* jQuery( fn )
Give(f) ==
  /\ f \notin Bound \cup ToSet(given) \cup Range(Inner)
  /\ given' = Append(given, f)
  /\ lib' = LET l == bindReady(lib)
            IN  IF l.isReady THEN [l EXCEPT !.ran = @ \o RunOne(f)] ELSE [l EXCEPT !.list = Append(@, f)]
  /\ UNCHANGED <<browser, document>>

\* jQuery( document ).bind( "ready", fn )
BindToReady(f) ==
  /\ f \in Bound \ ToSet(lib.handlers)
  /\ lib' = [bindReady(lib) EXCEPT !.handlers = Append(@, f)]
  /\ UNCHANGED <<browser, document, given>>

(***************************************************************************)
(* The browser.                                                            *)
(***************************************************************************)
BodyBegins ==
  /\ ~document.body
  /\ document' = [document EXCEPT !.body = TRUE]
  /\ UNCHANGED <<browser, lib, given>>

Event(heard) ==
  /\ lib' = IF heard THEN ReadyNow(lib, document.body) ELSE lib
  /\ UNCHANGED <<browser, given>>

\* the event DOMContentLoaded
ContentLoaded ==
  /\ document.state = "loading" /\ document.body
  /\ document' = [document EXCEPT !.state = "interactive"]
  /\ Event(lib.listens /\ browser.events)

\* onreadystatechange
Completed ==
  /\ document.state = "interactive"
  /\ document' = [document EXCEPT !.state = "complete"]
  /\ Event(lib.listens /\ ~browser.events)

\* window.onload
Loaded ==
  /\ document.state = "complete" /\ ~document.loaded
  /\ document' = [document EXCEPT !.loaded = TRUE]
  /\ Event(lib.listens)

\* setTimeout( jQuery.ready, 13 )
AgainTimer ==
  /\ lib.again
  /\ lib' = ReadyNow([lib EXCEPT !.again = FALSE], document.body)
  /\ UNCHANGED <<browser, document, given>>

\* doScrollCheck, in bindReady or by its timer: the document may or may not
\* scroll before it is complete
ScrollCheck ==
  /\ lib.scroll
  /\ \/ lib.isReady /\ lib' = [lib EXCEPT !.scroll = FALSE]
     \/ ~lib.isReady /\ lib' = ReadyNow([lib EXCEPT !.scroll = FALSE], document.body)
  /\ UNCHANGED <<browser, document, given>>

ReadyNext ==
  \/ \E f \in Fn : Give(f) \/ BindToReady(f)
  \/ BodyBegins \/ ContentLoaded \/ Completed \/ Loaded
  \/ AgainTimer \/ ScrollCheck

\* A page that begins to load is loaded at last, and timers fire; that the
\* document ever scrolls is not assumed.
ReadyFair ==
  /\ WF_readyVars(BodyBegins) /\ WF_readyVars(ContentLoaded) /\ WF_readyVars(Completed)
  /\ WF_readyVars(Loaded) /\ WF_readyVars(AgainTimer)

(***************************************************************************)
(* Properties                                                              *)
(***************************************************************************)
\* However many events, timers and checks say that the document is ready, no
\* function runs twice, and none before there is a body (jQuery.ready).
RunsOnce == IsInjective(lib.ran) /\ (lib.ran # <<>> => document.body)

\* Every function given to ready runs, early or late, unless one before it
\* threw: the rest of the list is then never run (jQuery.ready, bindReady).
EveryoneRuns ==
  \A f \in Fn :
    f \in ToSet(given) ~> f \in ToSet(lib.ran) \/ ToSet(lib.ran) \cap Throws # {}
=============================================================================
