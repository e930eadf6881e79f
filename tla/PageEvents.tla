---------------------------- MODULE PageEvents -----------------------------
(***************************************************************************)
(* The events of a page under jQuery 1.4.2: handlers bound with bind, one  *)
(* and live, events the user makes and events the page triggers, and       *)
(* handlers that, while an event is being dispatched, bind, unbind, trigger*)
(* and take the document apart.                                            *)
(***************************************************************************)
EXTENDS EventRegistry

CONSTANTS
  StartTree, \* the parents of the nodes at the start
  StartKind, \* and their kinds: None for a node that clones are made of
  Call,      \* what the page may do: [op, node, ...]
  Result,    \* how a handler may end: "ok", "false" or "throw"
  MaxCalls,  \* bound: calls of the page
  MaxClicks, \* bound: clicks of the user
  MaxDepth   \* bound: dispatches within each other

ASSUME StartIsTree ==
  /\ StartTree \in [Node -> Node \cup {None}] /\ StartKind \in [Node -> Kind \cup {None}]
  /\ StartKind[Doc] # None /\ StartTree[Doc] = None
  /\ \A n \in Node \ {Doc} : StartKind[n] = None <=> StartTree[n] = None
ASSUME ResultsAreKnown == Result \subseteq {"ok", "false", "throw"}
ASSUME BoundsAreCounts == MaxCalls \in Nat /\ MaxClicks \in Nat /\ MaxDepth \in Nat \ {0}

VARIABLES
  page,       \* document, cache and listeners: see EventsTypeOK
  stack,      \* the dispatches that are going on, the innermost first
  triggered,  \* jQuery.event.triggered
  calls,      \* calls of the page so far
  clicks,     \* clicks of the user so far
  ghost       \* what has happened, for the properties

eventsVars == <<page, stack, triggered, calls, clicks, ghost>>

\* A handler to run: the entry, and the element it is run on.
Todo == [obj : HandleObj, on : Node]

\* kind: by the browser, by trigger, or the browser's own event for the default
\* action of a trigger.  path: where a native event goes next.
Frame ==
  [kind : {"native", "trigger", "echo"}, target : Node, node : Node, path : Seq(Node),
   todo : Seq(Todo), stopped : BOOLEAN, prevented : BOOLEAN, liveFired : Node \cup {None}]

EventsTypeOK ==
  /\ page.parent \in [Node -> Node \cup {None}]
  /\ page.kind \in [Node -> Kind \cup {None}]
  /\ page.id \in [Node -> {0} \cup Id]
  /\ page.cache \in [Id -> Entry \cup {None}]
  /\ page.listen \in [Node -> SUBSET (Type \X Id)]
  /\ page.elemOf \in [Id -> Node \cup {None}]
  /\ stack \in Seq(Frame) /\ Len(stack) <= MaxDepth
  /\ triggered \in BOOLEAN
  /\ calls \in 0 .. MaxCalls
  /\ clicks \in 0 .. MaxClicks
  /\ ghost.wanted \subseteq Node \X Handler \X {"", "ns"}
  /\ ghost.spent \subseteq Node \X (1 .. MaxCalls)
  /\ ghost.discarded \subseteq Node
  /\ ghost.cut \subseteq Node

EventsInit ==
  /\ page = [parent |-> StartTree, kind |-> StartKind, id |-> [n \in Node |-> 0],
             cache |-> [i \in Id |-> None], listen |-> [n \in Node |-> {}],
             elemOf |-> [i \in Id |-> None]]
  /\ stack = <<>>
  /\ triggered = FALSE
  /\ calls = 0
  /\ clicks = 0
  /\ ghost = [wanted |-> {}, spent |-> {}, discarded |-> {}, cut |-> {}]

(***************************************************************************)
(* The calls of the page.  Each gives the next page and the next ghost.    *)
(***************************************************************************)
Bound(guid, once, ns) == [guid |-> guid, once |-> once, ns |-> ns, sel |-> None]
LiveEntry(h, sel) == [guid |-> h, once |-> 0, ns |-> "live", sel |-> sel]

ClickEntries(p, n) == ToSet(EntryOf(p, n).events["click"])
Wants(n, Keeps(_)) == {w \in ghost.wanted : w[1] # n \/ Keeps(w)}
Discard(S) ==
  [ghost EXCEPT !.discarded = @ \cup S, !.wanted = {w \in @ : w[1] \notin S}, !.cut = @ \ S]

\* the nodes a clone of the subtree of n is made of
Copies(p, n) ==
  LET tree == Subtree(p, n)
      unused == Node \ Made(p)
      inj == {f \in [tree -> unused] : IsInjective(f)}
  IN  IF inj = {} THEN {} ELSE {CHOOSE f \in inj : TRUE}

\* bind( "click", fn )
Bind(n, c) ==
  /\ page' = EventAdd(page, n, "click", Bound(c.fn, 0, c.ns))
  /\ ghost' = [ghost EXCEPT !.discarded = @ \ {n},
                 !.wanted = IF \E o \in ClickEntries(page, n) : o.guid = c.fn /\ o.once # 0
                            THEN @ ELSE @ \cup {<<n, c.fn, c.ns>>}]

\* one( "click", fn ): the wrapper has the guid of the function
One(n, c) ==
  /\ page' = EventAdd(page, n, "click", Bound(c.fn, calls + 1, c.ns))
  /\ ghost' = [ghost EXCEPT !.discarded = @ \ {n}, !.wanted = Wants(n, LAMBDA w : w[2] # c.fn)]

\* unbind( "click" + ns, fn )
Unbind(n, c) ==
  /\ page' = RemoveHandler(page, n, "click", c.ns, c.fn)
  /\ ghost' = [ghost EXCEPT !.wanted = Wants(n, LAMBDA w : w[2] # c.fn \/ (c.ns # "" /\ w[3] # c.ns))]

\* unbind( "click" + ns ): without a namespace it unbinds the live handler too
UnbindType(n, c) ==
  /\ page' = RemoveType(page, n, "click", c.ns)
  /\ ghost' = [ghost EXCEPT !.wanted = Wants(n, LAMBDA w : c.ns # "" /\ w[3] # c.ns),
                            !.cut = IF c.ns = "" THEN @ \cup {n} ELSE @]

\* unbind()
UnbindAll(n, c) ==
  /\ page' = RemoveAll(page, n)
  /\ ghost' = [ghost EXCEPT !.wanted = Wants(n, LAMBDA w : FALSE)]

\* delegate( selector, "click", fn ), and live with the document
Live(n, c) ==
  /\ page' = EventAdd(page, n, "live", LiveEntry(c.fn, c.sel))
  /\ ghost' = [ghost EXCEPT !.discarded = @ \ {n}, !.cut = @ \ {n}]

\* undelegate( selector, "click", fn ), and die
Die(n, c) ==
  LET Drops(o) == o.guid = c.fn /\ o.sel = c.sel /\ o.ns = "live"
      q == DropHandlers(page, n, "live", Drops)
      some == \E o \in ToSet(EntryOf(page, n).events["live"]) : Drops(o)
  IN  /\ page' = IF some THEN LiveRemove(q, n) ELSE q
      /\ UNCHANGED ghost

\* undelegate( selector, "click" )
DieAll(n, c) ==
  /\ page' = DropHandlers(page, n, "live", LAMBDA o : o.sel = c.sel /\ o.ns = "live")
  /\ UNCHANGED ghost

\* data( key, value ) and removeData( key )
Data(n, c) ==
  /\ page' = SetValue(page, n)
  /\ ghost' = [ghost EXCEPT !.discarded = @ \ {n}]
Undata(n, c) == page' = RemoveValue(page, n) /\ UNCHANGED ghost

RemoveElem(n, c) ==
  /\ n # Doc
  /\ page' = RemoveNode(page, n)
  /\ ghost' = Discard(Subtree(page, n))

DetachElem(n, c) == n # Doc /\ page' = Detach(page, n) /\ UNCHANGED ghost

EmptyElem(n, c) ==
  /\ page' = Empty(page, n)
  /\ ghost' = Discard(Subtree(page, n) \ {n})

AppendElem(n, c) ==
  \E t \in Made(page) \ Subtree(page, n) :
    /\ n # Doc /\ page.parent[n] # t
    /\ page' = AppendTo(page, t, n)
    /\ UNCHANGED ghost

ReplaceElem(n, c) ==
  \E value \in Made(page) \ Ancestors(page, n) :
    /\ page.parent[n] # None
    /\ page' = ReplaceWith(page, n, value)
    /\ ghost' = Discard(Subtree(Detach(page, value), n))

CloneElem(n, c) ==
  /\ n # Doc
  /\ \E copy \in Copies(page, n) :
       /\ page' = Clone(page, n, copy, c.events)
       /\ ghost' = IF ~c.events THEN ghost
                   ELSE [ghost EXCEPT !.wanted =
                          @ \cup {<<copy[w[1]], w[2], "">> : w \in {v \in @ : v[1] \in DOMAIN copy}}]

Perform(n, c) ==
  /\ n \in Made(page)
  /\ \/ c.op = "bind" /\ Bind(n, c)
     \/ c.op = "one" /\ One(n, c)
     \/ c.op = "unbind" /\ Unbind(n, c)
     \/ c.op = "unbindType" /\ UnbindType(n, c)
     \/ c.op = "unbindAll" /\ UnbindAll(n, c)
     \/ c.op = "live" /\ Live(n, c)
     \/ c.op = "die" /\ Die(n, c)
     \/ c.op = "dieAll" /\ DieAll(n, c)
     \/ c.op = "data" /\ Data(n, c)
     \/ c.op = "removeData" /\ Undata(n, c)
     \/ c.op = "remove" /\ RemoveElem(n, c)
     \/ c.op = "detach" /\ DetachElem(n, c)
     \/ c.op = "empty" /\ EmptyElem(n, c)
     \/ c.op = "append" /\ AppendElem(n, c)
     \/ c.op = "replaceWith" /\ ReplaceElem(n, c)
     \/ c.op = "clone" /\ CloneElem(n, c)

(***************************************************************************)
(* Dispatch.                                                               *)
(***************************************************************************)
\* What a handle runs: the handlers of its element, copied, so that what they
\* do to the list does not disturb it.
Copied(p, handles) ==
  LET elems == SetToSeq({p.elemOf[h] : h \in handles} \ {None})
      On(n) == LET list == EntryOf(p, n).events["click"]
               IN  [k \in DOMAIN list |-> [obj |-> list[k], on |-> n]]
  IN  FlattenSeq([i \in DOMAIN elems |-> On(elems[i])])

\* eventHandle and jQuery.event.handle, up to the loop
Handle(p, handles, deaf) == IF deaf THEN <<>> ELSE Copied(p, handles)

\* the handles the browser calls, and the one trigger calls
Listening(p, n) == {l[2] : l \in {k \in p.listen[n] : k[1] = "click"}}
OwnHandle(p, n) == {EntryOf(p, n).handle} \ {0}

NewFrame(kind, p, n) ==
  [kind |-> kind, target |-> n, node |-> n,
   path |-> IF kind = "trigger" THEN <<>> ELSE Tail(Path(p, n)),
   todo |-> Handle(p, IF kind = "trigger" THEN OwnHandle(p, n) ELSE Listening(p, n),
                   kind = "echo"),
   stopped |-> FALSE, prevented |-> FALSE, liveFired |-> None]

Top == Head(stack)
SetTop(f) == <<f>> \o Tail(stack)

\* the handlers that remain when one has returned false: a live handler stops
\* the rest of its own
DropLive(todo) ==
  LET i == SelectInSeq(todo, LAMBDA t : t.obj.sel = None)
  IN  IF i = 0 THEN <<>> ELSE SubSeq(todo, i, Len(todo))

\* an exception leaves every call up to the innermost one the browser made,
\* which goes on with the next node
Unwound(frames) ==
  LET native == {i \in DOMAIN frames : frames[i].kind = "native"}
  IN  IF native = {} THEN <<>>
      ELSE LET i == CHOOSE j \in native : \A k \in native : j <= k
           IN  <<[frames[i] EXCEPT !.todo = <<>>]>> \o SubSeq(frames, i + 1, Len(frames))

Ended(f, item, result) ==
  CASE result = "ok" -> f
    [] result = "false" ->
         [f EXCEPT !.stopped = TRUE, !.prevented = TRUE,
                   !.todo = IF item.obj.sel # None THEN DropLive(@) ELSE @]

\* The user clicks on an element of the document.
Click(n) ==
  /\ stack = <<>> /\ clicks < MaxClicks
  /\ n \in Made(page) /\ Doc \in Ancestors(page, n)
  /\ clicks' = clicks + 1
  /\ stack' = <<NewFrame("native", page, n)>>
  /\ UNCHANGED <<page, triggered, calls, ghost>>

\* The page calls jQuery outside of every handler.
PageCall(n, c) ==
  /\ stack = <<>> /\ calls < MaxCalls
  /\ calls' = calls + 1
  /\ IF c.op = "trigger"
       THEN /\ n \in Made(page)
            /\ stack' = <<NewFrame("trigger", page, n)>>
            /\ UNCHANGED <<page, ghost>>
       ELSE Perform(n, c) /\ UNCHANGED stack
  /\ UNCHANGED <<triggered, clicks>>

\* the wrapper of one: unbind( event, handler ) on the element, before the call
OneWrapper(entry, result) ==
  IF entry.obj.once = 0 THEN page
  ELSE RemoveHandler(page, entry.on, "click", "", entry.obj.guid)

Spend(entry) ==
  IF entry.obj.once = 0 THEN ghost
  ELSE [ghost EXCEPT !.spent = @ \cup {<<entry.on, entry.obj.once>>},
                     !.wanted = Wants(entry.on, LAMBDA w : w[2] # entry.obj.guid)]

\* A handler that calls nothing.
RunPlain(result) ==
  /\ stack # <<>> /\ Top.todo # <<>>
  /\ LET entry == Head(Top.todo)
         rest == [Top EXCEPT !.todo = Tail(@)]
     IN  /\ entry.obj.guid # LiveFn
         /\ page' = OneWrapper(entry, result)
         /\ ghost' = Spend(entry)
         /\ stack' = IF result = "throw" THEN Unwound(SetTop(rest))
                     ELSE SetTop(Ended(rest, entry, result))
  /\ UNCHANGED <<triggered, calls, clicks>>

\* A handler that makes one call and returns.  (A wrapper of one has unbound
\* itself in a step of its own.)
RunCalling(n, c) ==
  /\ stack # <<>> /\ Top.todo # <<>> /\ calls < MaxCalls
  /\ LET entry == Head(Top.todo)
         rest == [Top EXCEPT !.todo = Tail(@)]
     IN  /\ entry.obj.guid # LiveFn
         /\ entry.obj.once = 0
         /\ IF c.op = "trigger"
              THEN /\ n \in Made(page) /\ Len(stack) < MaxDepth
                   /\ stack' = <<NewFrame("trigger", page, n)>> \o SetTop(rest)
                   /\ UNCHANGED <<page, ghost>>
              ELSE Perform(n, c) /\ stack' = SetTop(rest)
  /\ calls' = calls + 1
  /\ UNCHANGED <<triggered, clicks>>

\* liveHandler, up to the loop that runs the handlers: what matches is
\* collected from the target up to the context
LiveMatches(p, ctx, target) ==
  LET path == Path(p, target)
      end == SelectInSeq(path, LAMBDA n : n = ctx)
      below == SelectSeq(IF end = 0 THEN path ELSE SubSeq(path, 1, end - 1), LAMBDA n : n # Doc)
      closest == {i \in DOMAIN below : \A j \in 1 .. i - 1 : p.kind[below[j]] # p.kind[below[i]]}
      On(i) == LET fit == SelectSeq(EntryOf(p, ctx).events["live"],
                                    LAMBDA o : i \in closest /\ o.sel = p.kind[below[i]])
               IN  [k \in DOMAIN fit |-> [obj |-> fit[k], on |-> below[i]]]
  IN  FlattenSeq([i \in DOMAIN below |-> On(i)])

RunLive ==
  /\ stack # <<>> /\ Top.todo # <<>>
  /\ LET entry == Head(Top.todo)
         skip == Top.liveFired = entry.on \/ EntryOf(page, entry.on).events["live"] = <<>>
         rest == [Top EXCEPT !.todo = Tail(@)]
     IN  /\ entry.obj.guid = LiveFn
         /\ stack' = SetTop(IF skip THEN rest
                            ELSE [rest EXCEPT !.liveFired = entry.on,
                                           !.todo = LiveMatches(page, entry.on, Top.target) \o @])
  /\ UNCHANGED <<page, triggered, calls, clicks, ghost>>

\* mutant: the flag is never cleared
FinishDeaf(f) == stack' = Tail(stack) /\ UNCHANGED triggered

\* A dispatch is over; jQuery hears again after a default action.
Finish(f) ==
  /\ stack' = Tail(stack)
  /\ triggered' = IF f.kind = "echo" THEN FALSE ELSE triggered

\* The browser goes on to the next node of the path it took at the start.
NextNative ==
  /\ stack # <<>> /\ Top.todo = <<>> /\ Top.kind # "trigger"
  /\ IF Top.stopped \/ Top.path = <<>> THEN Finish(Top)
     ELSE /\ stack' = SetTop([Top EXCEPT !.node = Head(Top.path), !.path = Tail(@),
                                         !.todo = Handle(page, Listening(page, Head(Top.path)), triggered)])
          /\ UNCHANGED triggered
  /\ UNCHANGED <<page, calls, clicks, ghost>>

\* trigger goes on to the parent the node has now, or to the document of a
\* node that has none
BubbleTo(n) == IF n = Doc THEN None ELSE IF page.parent[n] # None THEN page.parent[n] ELSE Doc

\* the method of the element, which the document has not: the browser makes an
\* event of its own of it
DefaultAction ==
  /\ triggered' = TRUE
  /\ stack' = SetTop(NewFrame("echo", page, Top.target))

NextTriggered ==
  /\ stack # <<>> /\ Top.todo = <<>> /\ Top.kind = "trigger"
  /\ LET up == BubbleTo(Top.node) IN
     \/ /\ ~Top.stopped /\ up # None
        /\ stack' = SetTop([Top EXCEPT !.node = up, !.todo = Handle(page, OwnHandle(page, up), triggered)])
        /\ UNCHANGED triggered
     \/ /\ (Top.stopped \/ up = None) /\ ~Top.prevented /\ Top.target # Doc
        /\ DefaultAction
     \/ /\ (Top.stopped \/ up = None) /\ (Top.prevented \/ Top.target = Doc)
        /\ Finish(Top)
  /\ UNCHANGED <<page, calls, clicks, ghost>>

EventsNext ==
  \/ \E n \in Node : Click(n)
  \/ \E n \in Node, c \in Call : PageCall(n, c) \/ RunCalling(n, c)
  \/ \E result \in Result : RunPlain(result)
  \/ RunLive
  \/ NextNative
  \/ NextTriggered

EventsSpec == EventsInit /\ [][EventsNext]_eventsVars

(***************************************************************************)
(* Properties.                                                             *)
(***************************************************************************)
\* Cache, elements and browser agree whatever the page did to the document:
\* no entry without its element and none shared, a handle leads back to its
\* own element, and the browser calls exactly the handles of the types that
\* have handlers (jQuery.data, event.add, event.remove, cleanData, clone).
CacheAndBrowserAgree ==
  /\ \A n, m \in Node : page.id[n] = page.id[m] /\ n # m => page.id[n] = 0
  /\ \A i \in Id : page.cache[i] # None <=> \E n \in Node : page.id[n] = i
  /\ \A n \in Node :
       LET e == EntryOf(page, n) IN
       /\ page.listen[n] = {<<t, e.handle>> : t \in {u \in Type : e.events[u] # <<>>}}
       /\ e.handle # 0 <=> \E t \in Type : e.events[t] # <<>>
       /\ e.handle # 0 => page.elemOf[e.handle] = n

\* An element the page has thrown away, with remove, empty, html or
\* replaceWith, keeps no handler, no listener and no data, also when that
\* happened while its own handlers were running: only an empty entry of the
\* cache may be left (an unbind that found nothing).
DiscardedHoldNothing ==
  \A n \in ghost.discarded : page.listen[n] = {} /\ EntryOf(page, n) = EmptyEntry

\* A handler bound with bind stays until the page unbinds it or throws its
\* element away, whatever other handlers, namespaces, clones and dispatches
\* do; one() of the same function is the exception, for its wrapper has the
\* same guid and takes both away.
HandlersStay ==
  \A w \in ghost.wanted : \E o \in ClickEntries(page, w[1]) : o.guid = w[2] /\ o.ns = w[3] /\ o.once = 0

\* A live entry can fire: its context has a live handler for click, unless the
\* page unbound all clicks there.
LiveEntriesFire ==
  \A n \in Node : EntryOf(page, n).events["live"] # <<>> =>
    n \in ghost.cut \/ \E o \in ClickEntries(page, n) : o.guid = LiveFn

\* A handler bound with one is gone from its element once it has run there,
\* even if it threw: only a dispatch that had copied it before can run it again.
OneIsGone ==
  \A n \in Node : \A o \in ClickEntries(page, n) : <<n, o.once>> \notin ghost.spent

\* jQuery is deaf to events only while the browser carries out the default
\* action of a trigger, and then to all of them: a handler does not run twice
\* for one trigger, and no exception or nesting leaves the page deaf.
DeafOnlyToEchoes ==
  /\ triggered <=> \E i \in DOMAIN stack : stack[i].kind = "echo"
  /\ \A i \in DOMAIN stack : stack[i].kind = "echo" => stack[i].todo = <<>> /\ i = 1
=============================================================================
