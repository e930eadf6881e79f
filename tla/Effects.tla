------------------------------- MODULE Effects ------------------------------
(***************************************************************************)
(* The effects of jQuery 1.4.2: the fx queue of every element, the one     *)
(* list of timers that a single interval ticks through, and what show,     *)
(* hide, animate, stop, delay and clearQueue do to both.                   *)
(*                                                                         *)
(* An animation moves two properties, height and opacity, each by a timer  *)
(* of its own; it is complete when both are at their end.  Its complete    *)
(* function starts the next of the queue and then calls back the page,     *)
(* which may stop an element: all that happens inside one tick.            *)
(***************************************************************************)
EXTENDS Naturals, Sequences, FiniteSets, SequencesExt

CONSTANTS
  Elem,      \* elements
  Effect,    \* what animate may be asked for
  MaxAnims,  \* bound: calls of animate and delay
  MaxStops,  \* bound: calls of stop, clearQueue, and show and hide at once
  NoElem

\* effect; instant: a duration of 0; queued: not queue: false; stops: the
\* element the page's callback stops
ASSUME EffectsAreKnown ==
  Effect \subseteq [effect : {"show", "hide", "toggle", "animate", "delay"},
                    instant : BOOLEAN, queued : BOOLEAN, stops : Elem \cup {NoElem}]
ASSUME EffectBounds == MaxAnims \in Nat /\ MaxStops \in Nat

VARIABLE fx  \* everything: see FxTypeOK

Prop == {"height", "opacity"}
InProgress == 0

\* own: what the style sheet or the page says; moving: what an animation has set
Value == {"own", "moving"}
Style == [shown : BOOLEAN, overflow : {"own", "hidden"}, height : Value, opacity : Value]

\* opt: the options object of one call.  left: the properties of curAnim that
\* are not true.  due: the duration is over.  orig, overflow: what was saved.
Opt ==
  [elem : Elem, effect : {"show", "hide", "toggle", "animate", "delay"}, instant : BOOLEAN,
   queued : BOOLEAN, stops : Elem \cup {NoElem}, due : BOOLEAN, left : SUBSET Prop,
   orig : [Prop -> Value], overflow : {"none", "own", "hidden"},
   state : {"waiting", "running", "dropped"}, completes : 0 .. 2]

FxTypeOK ==
  /\ fx.opts \in Seq(Opt) /\ Len(fx.opts) <= MaxAnims
  /\ fx.queue \in [Elem -> Seq(0 .. Len(fx.opts))]
  /\ fx.timers \in Seq([opt : 1 .. Len(fx.opts), prop : Prop])
  /\ fx.ticking \in BOOLEAN
  /\ fx.delays \subseteq 1 .. Len(fx.opts)
  /\ fx.style \in [Elem -> Style]
  /\ fx.stops \in 0 .. MaxStops
  /\ fx.odd \in [Elem -> SUBSET {"stop", "unqueued", "overlap", "callback", "instant", "now"}]

FxInit ==
  fx = [opts |-> <<>>, queue |-> [e \in Elem |-> <<>>], timers |-> <<>>,
        ticking |-> FALSE, delays |-> {},
        style |-> [e \in Elem |-> [shown |-> TRUE, overflow |-> "own",
                                   height |-> "own", opacity |-> "own"]],
        stops |-> 0, odd |-> [e \in Elem |-> {}]]

-----------------------------------------------------------------------------
(* One timer: fx.custom, fx.step and fx.update. *)

Mark(s, e, what) == [s EXCEPT !.odd[e] = @ \cup {what}]
MarkAll(s, what) == [s EXCEPT !.odd = [e \in Elem |-> @[e] \cup {what}]]

\* style[ prop ] = now; display = "block" for height
update(s, a, p, value) ==
  LET e == s.opts[a].elem IN
  [s EXCEPT !.style[e][p] = value, !.style[e].shown = @ \/ p = "height"]

\* mutant: hide() is not called at the end
RestoreShownMutant(s, a) ==
  LET o == s.opts[a] IN
  [s EXCEPT !.style[o.elem].overflow = o.overflow,
            !.style[o.elem].height = IF o.effect = "animate" THEN @ ELSE o.orig["height"],
            !.style[o.elem].opacity = IF o.effect = "animate" THEN @ ELSE o.orig["opacity"]]

\* all properties are done: overflow and display are put back, hide() hides,
\* and after a show or hide the properties are what they were before
Restore(s, a) ==
  LET o == s.opts[a] IN
  [s EXCEPT !.style[o.elem].overflow = o.overflow,
            !.style[o.elem].shown = o.effect # "hide",
            !.style[o.elem].height = IF o.effect = "animate" THEN @ ELSE o.orig["height"],
            !.style[o.elem].opacity = IF o.effect = "animate" THEN @ ELSE o.orig["opacity"]]

RECURSIVE complete(_, _), start(_, _), dequeue(_, _), stopAt(_, _, _, _), custom(_, _, _)

\* mutant: each property that is done completes the animation
stepMutant(s, a, p, end) ==
  IF ~end THEN update(s, a, p, "moving")
  ELSE complete(Restore([update(s, a, p, "own") EXCEPT !.opts[a].left = @ \ {p}], a), a)

\* step: the timer's last, or one on the way
step(s, a, p, end) ==
  LET o == s.opts[a]
      last == [update(s, a, p, IF o.effect = "hide" THEN "moving" ELSE "own")
                EXCEPT !.opts[a].left = @ \ {p}]
  IN IF ~end THEN update(s, a, p, "moving")
     ELSE IF last.opts[a].left # {} THEN last
     ELSE complete(Restore(last, a), a)


custom(s, a, p) ==
  LET o == s.opts[a]
      stepped == step(s, a, p, o.instant)
  IN IF o.instant THEN stepped
     ELSE [stepped EXCEPT !.timers = Append(@, [opt |-> a, prop |-> p]), !.ticking = TRUE]

\* fx.show, fx.hide and the plain case: save, custom, and for a show the
\* element is shown after that
run(s, a, p) ==
  LET e == s.opts[a].elem
      saved == [s EXCEPT !.opts[a].orig[p] = s.style[e][p]]
      ran == custom(saved, a, p)
  IN IF s.opts[a].effect = "show" THEN [ran EXCEPT !.style[e].shown = TRUE] ELSE ran

\* The function animate queues: nothing to do, or the overflow is hidden and
\* each property starts.  A delay waits for its timeout.
start(s, a) ==
  LET o == s.opts[a]
      style == s.style[o.elem]
      effect == IF o.effect # "toggle" THEN o.effect
                ELSE IF style.shown THEN "hide" ELSE "show"
      begun == [s EXCEPT !.opts[a].state = "running", !.opts[a].effect = effect]
      ready == [begun EXCEPT !.opts[a].left = Prop, !.opts[a].overflow = style.overflow,
                             !.style[o.elem].overflow = "hidden"]
  IN IF effect = "delay" THEN [begun EXCEPT !.delays = @ \cup {a}]
     ELSE IF (effect = "hide" /\ ~style.shown) \/ (o.effect = "show" /\ style.shown)
     THEN complete(begun, a)
     ELSE run(run(ready, a, "height"), a, "opacity")

\* the sentinel goes, the next function comes, and the sentinel is back
dequeue(s, e) ==
  LET q == s.queue[e]
      rest == IF q # <<>> /\ Head(q) = InProgress THEN Tail(q) ELSE q
  IN IF rest = <<>> THEN [s EXCEPT !.queue[e] = <<>>]
     ELSE start([s EXCEPT !.queue[e] = <<InProgress>> \o Tail(rest)], Head(rest))

\* mutant: the next of the queue is not started
completeMutant(s, a) == [s EXCEPT !.opts[a].completes = IF @ < 2 THEN @ + 1 ELSE @]

\* opt.complete: dequeue if it was queued, then the page's callback
complete(s, a) ==
  LET o == s.opts[a]
      told == [s EXCEPT !.opts[a].completes = IF @ < 2 THEN @ + 1 ELSE @]
      next == IF o.queued THEN dequeue(told, o.elem) ELSE told
  IN IF o.stops = NoElem THEN next
     ELSE stopAt(MarkAll(next, "callback"), o.stops, FALSE, Len(next.timers))

\* splice( i, 1 )
splice(timers, i) == IF i <= Len(timers) THEN RemoveAt(timers, i) ELSE timers

\* stop: the loop over the timers from the end, then dequeue.  A timer that is
\* no longer there, because a callback has stopped it, makes the loop throw.
stopAt(s, e, gotoEnd, i) ==
  IF i = 0 THEN IF gotoEnd THEN s ELSE dequeue(s, e)
  ELSE IF i > Len(s.timers) THEN s
  ELSE IF s.opts[s.timers[i].opt].elem # e THEN stopAt(s, e, gotoEnd, i - 1)
  ELSE LET t == s.timers[i]
           ended == IF gotoEnd THEN step(s, t.opt, t.prop, TRUE)
                    ELSE [s EXCEPT !.opts[t.opt].state = "dropped"]
       IN stopAt([ended EXCEPT !.timers = splice(@, i)], e, gotoEnd, i - 1)

\* tick: a timer that says false is spliced out where the loop stands
RECURSIVE tickAt(_, _)
tickAt(s, i) ==
  IF i > Len(s.timers) THEN [s EXCEPT !.ticking = s.timers # <<>>]
  ELSE LET t == s.timers[i]
           end == s.opts[t.opt].due
           stepped == step(s, t.opt, t.prop, end)
       IN IF ~end THEN tickAt(stepped, i + 1)
          ELSE tickAt([stepped EXCEPT !.timers = splice(@, i)], i)

-----------------------------------------------------------------------------
(* What the page calls, and what the browser calls. *)

NewOpt(e, f) ==
  [elem |-> e, effect |-> f.effect, instant |-> f.instant, queued |-> f.queued,
   stops |-> f.stops, due |-> f.instant, left |-> {},
   orig |-> [p \in Prop |-> "own"], overflow |-> "none",
   state |-> "waiting", completes |-> 0]

\* mutant: the sentinel is not asked
EnqueueMutant(s, e, a) == dequeue([s EXCEPT !.queue[e] = Append(@, a)], e)

\* queue( "fx", fn )
Enqueue(s, e, a) ==
  LET queued == [s EXCEPT !.queue[e] = Append(@, a)] IN
  IF Head(queued.queue[e]) = InProgress THEN queued ELSE dequeue(queued, e)

\* animate, show, hide and toggle with a speed, fadeIn and its like, and delay
animate(e, f) ==
  /\ Len(fx.opts) < MaxAnims
  /\ LET a == Len(fx.opts) + 1
         made == [fx EXCEPT !.opts = Append(@, NewOpt(e, f))]
         marked == IF f.instant THEN Mark(made, e, "instant") ELSE made
     IN fx' = IF f.queued THEN Enqueue(marked, e, a)
              ELSE start(Mark(marked, e, "unqueued"), a)

\* show(), hide() and toggle() without a speed, at once
showNow(e, shown) ==
  /\ fx.stops < MaxStops
  /\ fx' = [Mark(fx, e, "now") EXCEPT !.style[e].shown = shown, !.stops = @ + 1]

\* stop( clearQueue, gotoEnd )
stop(e, clearQueue, gotoEnd) ==
  /\ fx.stops < MaxStops
  /\ LET cleared == IF clearQueue THEN [fx EXCEPT !.queue[e] = <<>>] ELSE fx
         delayed == \E a \in fx.delays : fx.opts[a].elem = e
         marked == Mark(IF delayed THEN Mark(cleared, e, "overlap") ELSE cleared, e, "stop")
     IN fx' = stopAt([marked EXCEPT !.stops = @ + 1], e, gotoEnd, Len(fx.timers))

\* clearQueue: the sentinel goes with the rest
clearQueue(e) ==
  /\ fx.stops < MaxStops
  /\ fx' = [Mark(Mark(fx, e, "overlap"), e, "stop")
             EXCEPT !.queue[e] = <<>>, !.stops = @ + 1]

Running == {fx.timers[i].opt : i \in DOMAIN fx.timers}

\* the interval, when the durations of the animations in over have passed
tick(over) ==
  /\ fx.ticking
  /\ fx' = tickAt([fx EXCEPT !.opts = [a \in DOMAIN @ |->
                     [@[a] EXCEPT !.due = @ \/ a \in over]]], 1)

\* the timeout of a delay
DelayOver(a) ==
  /\ a \in fx.delays
  /\ LET over == [fx EXCEPT !.delays = @ \ {a}, !.opts[a].completes = 1] IN
     fx' = dequeue(over, fx.opts[a].elem)

FxNext ==
  \/ \E e \in Elem :
       \/ \E f \in Effect : animate(e, f)
       \/ \E clear, end \in BOOLEAN : stop(e, clear, end)
       \/ \E shown \in BOOLEAN : showNow(e, shown)
       \/ clearQueue(e)
  \/ \E over \in SUBSET Running : tick(over)
  \/ \E a \in fx.delays : DelayOver(a)

\* The interval and the timeouts run, and every duration passes: weak fairness,
\* spelled out, since a tick can be taken exactly while ticking is true.
FxFair ==
  /\ <>[]fx.ticking => []<><<tick(Running)>>_fx
  /\ <>[](fx.delays # {}) => []<><<\E a \in fx.delays : DelayOver(a)>>_fx

-----------------------------------------------------------------------------
(* Properties. *)

\* The queued animations of an element run one at a time: its timers belong to
\* one of them, and while there is one the sentinel is at the head of its queue.
OneAtATime ==
  \A e \in Elem : fx.odd[e] \cap {"unqueued", "overlap", "callback"} = {} =>
    /\ \A i, j \in DOMAIN fx.timers :
         fx.opts[fx.timers[i].opt].elem = e /\ fx.opts[fx.timers[j].opt].elem = e
           => fx.timers[i].opt = fx.timers[j].opt
    /\ \A i \in DOMAIN fx.timers :
         fx.opts[fx.timers[i].opt].elem = e => Head(fx.queue[e]) = InProgress

Waiting(e) ==
  {a \in DOMAIN fx.opts : fx.opts[a].elem = e /\ (a \in Running \cup fx.delays
                           \/ \E i \in DOMAIN fx.queue[e] : fx.queue[e][i] = a)}
Undisturbed == \A e \in Elem : "callback" \notin fx.odd[e]

\* An animation or delay is completed exactly once, however it ends and whatever
\* is started meanwhile: not twice, and one that is over without was stopped or
\* cleared from the queue.  Callbacks that stop elements are not claimed of.
CompletesOnce ==
  Undisturbed => \A a \in DOMAIN fx.opts :
    LET e == fx.opts[a].elem IN
    /\ fx.opts[a].completes <= 1
    /\ fx.opts[a].completes = 0 => a \in Waiting(e) \/ "stop" \in fx.odd[e]

\* A timer is ticked: the interval runs as long as there is one.
TimersAreTicked == fx.timers # <<>> => fx.ticking

\* At rest an element has the height, the opacity and the overflow it had
\* before it was first animated, unless an animation of it was stopped or
\* overlapped by another.
AtRest(e) ==
  /\ \A i \in DOMAIN fx.timers : fx.opts[fx.timers[i].opt].elem # e
  /\ \A a \in fx.delays : fx.opts[a].elem # e
RestingStyle ==
  \A e \in Elem : AtRest(e) /\ fx.odd[e] \subseteq {"instant", "now"} =>
    /\ fx.style[e].overflow = "own"
    /\ fx.style[e].height = "own" /\ fx.style[e].opacity = "own"

\* The last of the queued effects decides whether the element is shown.
LastOf(e) == CHOOSE a \in DOMAIN fx.opts :
  fx.opts[a].elem = e /\ \A b \in DOMAIN fx.opts : b > a => fx.opts[b].elem # e
LastEffectWins ==
  \A e \in Elem :
    AtRest(e) /\ fx.odd[e] = {} /\ (\E a \in DOMAIN fx.opts : fx.opts[a].elem = e) =>
      /\ fx.opts[LastOf(e)].effect = "hide" => ~fx.style[e].shown
      /\ fx.opts[LastOf(e)].effect = "show" => fx.style[e].shown

\* Every animation and delay of an element gets its turn and comes to its end,
\* also after stop and clearQueue.
QueueDrains ==
  \A e \in Elem : Undisturbed /\ Waiting(e) # {} ~> ~Undisturbed \/ Waiting(e) = {}
=============================================================================
