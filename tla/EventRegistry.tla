--------------------------- MODULE EventRegistry ---------------------------
(***************************************************************************)
(* Where jQuery 1.4.2 keeps what a page attaches to elements: the cache of *)
(* data, reached by a number (the expando) put on the element, and in it   *)
(* the lists of event handlers; and the manipulation of the document that  *)
(* has to keep both in step: remove, empty, detach, clone, replaceWith.    *)
(*                                                                         *)
(* A page is a record; every operator takes one and returns the next.      *)
(* One native event type, click, and jQuery's own type live are modelled.  *)
(***************************************************************************)
EXTENDS Naturals, Sequences, FiniteSets, SequencesExt, Functions

CONSTANTS
  Node,     \* the nodes of the document and those clones are made of
  Doc,      \* the document
  Kind,     \* what a selector selects
  Handler,  \* functions of the page, each with its guid
  LiveFn,   \* liveHandler
  None

ASSUME DocIsNode == Doc \in Node
ASSUME LiveIsNoHandler == LiveFn \notin Handler

Type == {"live", "click"}
Id == 1 .. 2 * Cardinality(Node)

\* guid: the function.  once: the number of the call of one that wrapped it,
\* or 0.  ns: the namespaces; those of a live entry name its selector.
HandleObj ==
  [guid : Handler \cup {LiveFn}, once : Nat, ns : {"", "ns", "live"}, sel : Kind \cup {None}]

Entry == [events : [Type -> Seq(HandleObj)], keys : Seq(Type), handle : {0} \cup Id, val : BOOLEAN]
EmptyEntry == [events |-> [t \in Type |-> <<>>], keys |-> <<>>, handle |-> 0, val |-> FALSE]

(***************************************************************************)
(* The tree.                                                               *)
(***************************************************************************)
\* n, its parent, its parent's parent, ...
Path(p, n) ==
  LET up[i \in 1 .. Cardinality(Node)] ==
        IF i = 1 THEN n ELSE IF up[i - 1] = None THEN None ELSE p.parent[up[i - 1]]
  IN  SelectSeq([i \in 1 .. Cardinality(Node) |-> up[i]], LAMBDA x : x # None)

Ancestors(p, n) == ToSet(Path(p, n))
Subtree(p, n) == {m \in Node : n \in Ancestors(p, m)}
Made(p) == {n \in Node : p.kind[n] # None}

(***************************************************************************)
(* The cache of data.                                                      *)
(***************************************************************************)
Fresh(used) == CHOOSE i \in Id : i \notin used /\ \A j \in Id : j < i => j \in used

HasEntry(p, n) == p.id[n] # 0 /\ p.cache[p.id[n]] # None
EntryOf(p, n) == IF HasEntry(p, n) THEN p.cache[p.id[n]] ELSE EmptyEntry

\* jQuery.data( elem ): gives the element an entry if it has none, even when
\* it is only read
EnsureData(p, n) ==
  LET i == IF p.id[n] # 0 THEN p.id[n]
           ELSE Fresh(Range(p.id) \cup {j \in Id : p.cache[j] # None})
  IN  IF HasEntry(p, n) THEN p
      ELSE [p EXCEPT !.id[n] = i, !.cache[i] = EmptyEntry]

PutEntry(p, n, e) == [p EXCEPT !.cache[p.id[n]] = e]

\* jQuery.removeData( elem )
RemoveData(p, n) ==
  [p EXCEPT !.id[n] = 0, !.cache = [i \in Id |-> IF i = p.id[n] THEN None ELSE @[i]]]

\* jQuery.data( elem, name, data )
SetValue(p, n) ==
  LET q == EnsureData(p, n)
  IN  PutEntry(q, n, [EntryOf(q, n) EXCEPT !.val = TRUE])

\* jQuery.removeData( elem, name )
RemoveValue(p, n) ==
  LET e == [EntryOf(p, n) EXCEPT !.val = FALSE]
  IN  IF ~HasEntry(p, n) THEN p
      ELSE IF e = EmptyEntry THEN RemoveData(p, n)
      ELSE PutEntry(p, n, e)

(***************************************************************************)
(* jQuery.event.add and jQuery.event.remove.                               *)
(***************************************************************************)
HandlesInUse(p) ==
  {p.cache[i].handle : i \in {j \in Id : p.cache[j] # None}}
    \cup UNION {{l[2] : l \in p.listen[n]} : n \in Node}

\* one type of jQuery.event.add: the first handler of a type attaches the
\* native listener
AddOne(p, n, type, obj) ==
  LET q == EnsureData(p, n)
      e == EntryOf(q, n)
      h == IF e.handle # 0 THEN e.handle ELSE Fresh(HandlesInUse(q))
      first == e.events[type] = <<>>
  IN  [PutEntry(q, n, [e EXCEPT !.handle = h,
                                !.events[type] = Append(@, obj),
                                !.keys = IF first THEN Append(@, type) ELSE @])
         EXCEPT !.elemOf[h] = n,
                !.listen[n] = IF first THEN @ \cup {<<type, h>>} ELSE @]

LiveObj == [guid |-> LiveFn, once |-> 0, ns |-> "", sel |-> None]

\* special.live.add: every live entry brings a liveHandler for its type
EventAdd(p, n, type, obj) ==
  IF type = "live" THEN AddOne(AddOne(p, n, "live", obj), n, "click", LiveObj)
  ELSE AddOne(p, n, type, obj)

\* The loop of jQuery.event.remove and what follows it: when the last handler
\* of a type goes so does the listener, with the last type the handle, and
\* with the last data the entry.
DropHandlers(p, n, type, Drops(_)) ==
  LET q == EnsureData(p, n)
      e == EntryOf(q, n)
      left == SelectSeq(e.events[type], LAMBDA o : ~Drops(o))
      gone == left = <<>>
      kept == [e EXCEPT !.events[type] = left,
                        !.keys = IF gone THEN SelectSeq(@, LAMBDA t : t # type) ELSE @]
      q1 == [PutEntry(q, n, IF kept.keys = <<>> THEN [kept EXCEPT !.handle = 0] ELSE kept)
               EXCEPT !.listen[n] = IF gone THEN @ \ {<<type, e.handle>>} ELSE @]
      q2 == IF kept.keys = <<>> THEN [q1 EXCEPT !.elemOf[e.handle] = None] ELSE q1
  IN  IF e.keys = <<>> \/ e.events[type] = <<>> THEN q
      ELSE IF kept.keys = <<>> /\ ~e.val THEN RemoveData(q2, n)
      ELSE q2

\* special.live.remove: the live handler goes with the last live entry
LiveRemove(p, n) ==
  IF EntryOf(p, n).events["live"] # <<>> THEN p
  ELSE DropHandlers(p, n, "click", LAMBDA o : o.guid = LiveFn)

\* jQuery.event.remove with a type, its namespaces and a handler: special.remove
\* runs after the entry has left the list
RemoveHandler(p, n, type, ns, guid) ==
  LET Drops(o) == o.guid = guid /\ (ns = "" \/ o.ns = ns)
      q == DropHandlers(p, n, type, Drops)
      some == \E i \in DOMAIN EntryOf(p, n).events[type] : Drops(EntryOf(p, n).events[type][i])
  IN  IF type = "live" /\ some THEN LiveRemove(q, n) ELSE q

\* mutant: the namespace is not looked at
RemoveAnyNamespace(p, n, type, ns) == DropHandlers(p, n, type, LAMBDA o : TRUE)

\* ... without a handler: special.remove runs while the entry is still in the
\* list, and so never finds the last one gone
RemoveType(p, n, type, ns) == DropHandlers(p, n, type, LAMBDA o : ns = "" \/ o.ns = ns)

\* ... without a type
RemoveAll(p, n) ==
  LET q == EnsureData(p, n)
  IN  FoldLeft(LAMBDA r, t : RemoveType(r, n, t, ""), q, EntryOf(q, n).keys)

(***************************************************************************)
(* The manipulation of the document.                                       *)
(***************************************************************************)
\* mutant: the listeners of a removed element stay
CleanDataListening(p, S) ==
  [p EXCEPT !.id = [n \in Node |-> IF n \in S THEN 0 ELSE @[n]],
            !.cache = [i \in Id |-> IF \E n \in S : p.id[n] = i THEN None ELSE @[i]]]

\* jQuery.cleanData: a type with a special event is removed by event.remove,
\* another by removeEvent
CleanData(p, S) ==
  LET Handles(n) == {<<t, EntryOf(p, n).handle>> : t \in ToSet(EntryOf(p, n).keys)}
  IN  [p EXCEPT !.id = [n \in Node |-> IF n \in S THEN 0 ELSE @[n]],
                !.cache = [i \in Id |-> IF \E n \in S : p.id[n] = i THEN None ELSE @[i]],
                !.listen = [n \in Node |-> IF n \in S THEN @[n] \ Handles(n) ELSE @[n]]]

Unlink(p, S) == [p EXCEPT !.parent = [n \in Node |-> IF n \in S THEN None ELSE @[n]]]
Children(p, n) == {m \in Node : p.parent[m] = n}

\* remove() and detach()
RemoveNode(p, n) == Unlink(CleanData(p, Subtree(p, n)), {n})
Detach(p, n) == Unlink(p, {n})

\* empty() and html( value )
Empty(p, n) == Unlink(CleanData(p, Subtree(p, n) \ {n}), Children(p, n))

\* append( n ) to one target
AppendTo(p, t, n) == [p EXCEPT !.parent[n] = t]

\* replaceWith( value ): the value is detached before the element is removed
ReplaceWith(p, n, value) == AppendTo(RemoveNode(Detach(p, value), n), p.parent[n], value)

\* cloneCopyEvent: a copy of the data, and every handler added anew, without
\* its namespaces
CopyEvents(p, orig, c) ==
  LET q == EnsureData(EnsureData(p, orig), c)
      e == EntryOf(q, orig)
      r == PutEntry(q, c, [EmptyEntry EXCEPT !.val = e.val])
      CopyType(s, t) ==
        FoldLeft(LAMBDA u, o : EventAdd(u, c, t, [o EXCEPT !.ns = ""]), s, e.events[t])
  IN  FoldLeft(CopyType, r, e.keys)

\* copy: from the nodes of the subtree to unused nodes
CopyTree(p, n, copy) ==
  LET Orig(m) == CHOOSE o \in DOMAIN copy : copy[o] = m
  IN  [p EXCEPT
        !.kind = [m \in Node |-> IF m \in Range(copy) THEN @[Orig(m)] ELSE @[m]],
        !.parent = [m \in Node |-> IF m \notin Range(copy) \/ m = copy[n] THEN @[m]
                                   ELSE copy[p.parent[Orig(m)]]]]

\* clone( events )
Clone(p, n, copy, events) ==
  LET q == CopyTree(p, n, copy)
  IN  IF ~events THEN q
      ELSE FoldLeft(LAMBDA r, m : CopyEvents(r, m, copy[m]), q, SetToSeq(DOMAIN copy))
=============================================================================
