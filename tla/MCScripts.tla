----------------------------- MODULE MCScripts ------------------------------
(***************************************************************************)
(* Effects, and events with the data and the changes of the document, for  *)
(* TLC: a behaviour is one of either, the scene, and the other rests.      *)
(***************************************************************************)
EXTENDS Effects, PageEvents

CONSTANTS e1, e2, doc, box, item, copy, f, g

VARIABLE scene

scriptsVars == <<scene, fx, eventsVars>>

ScriptsInit == scene \in {"effects", "events"} /\ FxInit /\ EventsInit

ScriptsNext ==
  /\ UNCHANGED scene
  /\ \/ scene = "effects" /\ FxNext /\ UNCHANGED eventsVars
     \/ scene = "events" /\ EventsNext /\ UNCHANGED fx

ScriptsSpec == ScriptsInit /\ [][ScriptsNext]_scriptsVars /\ FxFair

\* Every queued effect has its turn alone, is told to be complete once, and
\* leaves nothing of itself on its element; the timers there are run
\* (jQuery.fx, queue, dequeue, animate, stop).
EffectsAreSound == FxTypeOK /\ OneAtATime /\ CompletesOnce /\ TimersAreTicked /\ RestingStyle

\* Cache, elements and browser agree whatever the page does, elements thrown
\* away hold nothing, live entries can fire, and a handler bound with one is
\* gone once it has run (jQuery.data, jQuery.event, cleanData, clone).
RegistryIsSound ==
  EventsTypeOK /\ CacheAndBrowserAgree /\ DiscardedHoldNothing /\ LiveEntriesFire /\ OneIsGone

(***************************************************************************)
(* Instances.                                                              *)
(***************************************************************************)
Animation(effect, instant, queued, stops) ==
  [effect |-> effect, instant |-> instant, queued |-> queued, stops |-> stops]

Queued(effect) == Animation(effect, FALSE, TRUE, NoElem)
SomeEffects ==
  {Queued("show"), Queued("hide"), Queued("toggle"), Queued("animate"), Queued("delay"),
   Animation("hide", TRUE, TRUE, NoElem), Animation("show", TRUE, TRUE, NoElem),
   Animation("animate", FALSE, FALSE, NoElem), Animation("animate", FALSE, TRUE, e1)}

Elements == {doc, box, item, copy}
Kinds == {"document", "box", "item"}
Tree == (doc :> None) @@ (box :> doc) @@ (item :> box) @@ (copy :> None)
KindOf == (doc :> "document") @@ (box :> "box") @@ (item :> "item") @@ (copy :> None)

Op(op) == [op |-> op]
Fn(op, fn, ns) == [op |-> op, fn |-> fn, ns |-> ns]
Sel(op, fn) == [op |-> op, fn |-> fn, sel |-> "item"]

SomeCalls ==
  {Fn("bind", f, ""), Fn("bind", g, "ns"), Fn("one", f, ""), Fn("one", g, ""), Fn("unbind", f, ""),
   [op |-> "unbindType", ns |-> ""], [op |-> "unbindType", ns |-> "ns"], Op("unbindAll"),
   Sel("live", f), Sel("live", g), Sel("die", f), [op |-> "dieAll", sel |-> "item"],
   Op("data"), Op("removeData"), Op("remove"), Op("detach"), Op("empty"), Op("append"),
   Op("replaceWith"), Op("trigger"), [op |-> "clone", events |-> TRUE], [op |-> "clone", events |-> FALSE]}
=============================================================================
