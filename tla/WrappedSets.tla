---------------------------- MODULE WrappedSets -----------------------------
(***************************************************************************)
(* Wrapped sets of jQuery 1.4.2 over a document: sets that come from other *)
(* sets by traversal and filters, with the way back, and the operations    *)
(* that move, copy, wrap and replace what is in a set, by way of document  *)
(* fragments, those made of a string of HTML being cached.                 *)
(*                                                                         *)
(* Handlers and data are the matter of EventRegistry, selectors that of    *)
(* Selectors; here a selector is a tag.                                    *)
(***************************************************************************)
EXTENDS Naturals, Sequences, FiniteSets, SequencesExt, Functions

CONSTANTS
  MaxNode,   \* bound: nodes there are at a time
  StartKids, \* the document at the start: the children of each node
  StartTag,  \* and the tags: "#text" for a text, Nil for a node that is not used
  Html,      \* strings of HTML: [tags, nested, cacheable]
  Tags,      \* the tags the page asks for
  Content,   \* and those of them it gives as content
  MaxTargets,\* bound: nodes of a set, and
  MaxWeight, \* bound: nodes in its trees, if it is given content or is content
  Reserve,   \* bound: a call that makes nodes is made if this many are free
  Nil,
  MaxSteps   \* bound: calls of the page

PageNode == 0 .. MaxNode
Document == 0

ASSUME WrappedBounds == MaxNode \in Nat \ {0} /\ MaxSteps \in Nat

VARIABLES
  page,  \* kids, tag: the trees;  once, cache: jQuery.fragments, a string met
         \* once (the value 1) and the fragment of one met again
  chain, \* the current set, the set it came from, ...
  steps, \* calls so far
  last   \* the last call, for the properties: [op, threw, moved, to]: moved to
         \* the targets to

wrappedVars == <<page, chain, steps, last>>

Special == {"#document", "#fragment", "#text", Nil}
IsTag(p, n) == p.tag[n] \notin Special

(***************************************************************************)
(* The trees.                                                              *)
(***************************************************************************)
ParentOf(p, n) ==
  IF \E m \in PageNode : n \in ToSet(p.kids[m]) THEN CHOOSE m \in PageNode : n \in ToSet(p.kids[m]) ELSE Nil

Preorder(p, n) ==
  LET pre[m \in PageNode] == <<m>> \o FlattenSeq([i \in DOMAIN p.kids[m] |-> pre[p.kids[m][i]]])
  IN  pre[n]
Subtree(p, n) == ToSet(Preorder(p, n))

\* n, its parent, ... up to the root
UpFrom(p, n) ==
  LET up[m \in PageNode] == IF ParentOf(p, m) = Nil THEN <<m>> ELSE <<m>> \o up[ParentOf(p, m)]
  IN  up[n]

\* n and its siblings before or after it, the nearest first
SiblingsFrom(p, n, dir) ==
  IF ParentOf(p, n) = Nil THEN <<n>>
  ELSE LET sibs == p.kids[ParentOf(p, n)]
           i == SelectInSeq(sibs, LAMBDA m : m = n)
       IN  IF dir = "nextSibling" THEN SubSeq(sibs, i, Len(sibs)) ELSE Reverse(SubSeq(sibs, 1, i))

\* The order of the browser: by document position; separate trees one after
\* the other.
Ordered(p, S) ==
  LET roots == SelectSeq([i \in 1 .. MaxNode + 1 |-> i - 1], LAMBDA n : p.tag[n] # Nil /\ ParentOf(p, n) = Nil)
  IN  SelectSeq(FlattenSeq([i \in DOMAIN roots |-> Preorder(p, roots[i])]), LAMBDA n : n \in S)

\* jQuery( tag )
Find(p, tag) == SelectSeq(Preorder(p, Document), LAMBDA n : p.tag[n] = tag)

Unused(p) == SelectSeq([i \in 1 .. MaxNode |-> i], LAMBDA n : p.tag[n] = Nil)

\* insertBefore of the browser: the nodes leave where they were
Insert(p, parent, nodes, ref) ==
  LET out == [m \in PageNode |-> SelectSeq(p.kids[m], LAMBDA n : n \notin ToSet(nodes))]
      i == SelectInSeq(out[parent], LAMBDA n : n = ref)
      at == IF i = 0 THEN Len(out[parent]) ELSE i - 1
  IN  [p EXCEPT !.kids = [out EXCEPT ![parent] = SubSeq(@, 1, at) \o nodes \o SubSeq(@, at + 1, Len(@))]]

TakeOut(p, nodes) ==
  [p EXCEPT !.kids = [m \in PageNode |-> SelectSeq(p.kids[m], LAMBDA n : n \notin ToSet(nodes))]]

\* new nodes with these tags; nested: each the child of the one before
Create(p, tags, nested) ==
  LET new == SubSeq(Unused(p), 1, Len(tags))
      Place(n) == SelectInSeq(new, LAMBDA m : m = n)
  IN  [roots |-> IF nested THEN <<new[1]>> ELSE new,
       page |-> [p EXCEPT !.tag = [n \in PageNode |-> IF Place(n) # 0 THEN tags[Place(n)] ELSE @[n]],
                          !.kids = [n \in PageNode |-> IF Place(n) = 0 THEN @[n]
                                                   ELSE IF nested /\ Place(n) < Len(tags) THEN <<new[Place(n) + 1]>>
                                                   ELSE <<>>]]]

\* cloneNode( true ) of each
Copy(p, nodes) ==
  LET old == FlattenSeq([i \in DOMAIN nodes |-> Preorder(p, nodes[i])])
      new == SubSeq(Unused(p), 1, Len(old))
      Of(n) == new[SelectInSeq(old, LAMBDA m : m = n)]
      Orig(n) == old[SelectInSeq(new, LAMBDA m : m = n)]
      Same(s) == [i \in DOMAIN s |-> Of(s[i])]
  IN  [roots |-> Same(nodes),
       page |-> [p EXCEPT !.tag = [n \in PageNode |-> IF n \in ToSet(new) THEN p.tag[Orig(n)] ELSE @[n]],
                          !.kids = [n \in PageNode |-> IF n \in ToSet(new) THEN Same(p.kids[Orig(n)]) ELSE @[n]]]]

\* What nothing refers to any more is gone.
Collected(p, sets) ==
  LET held == {Document} \cup {n \in Range(p.cache) : n \in PageNode \ {Document}} \cup UNION {ToSet(sets[i]) : i \in DOMAIN sets}
      live == UNION {Subtree(p, Last(UpFrom(p, n))) : n \in held}
  IN  [p EXCEPT !.tag = [n \in PageNode |-> IF n \in live THEN @[n] ELSE Nil],
                !.kids = [n \in PageNode |-> IF n \in live THEN @[n] ELSE <<>>]]

(***************************************************************************)
(* Traversal.                                                              *)
(***************************************************************************)
Elements(p, s) == SelectSeq(s, LAMBDA n : IsTag(p, n))

\* jQuery.dir over a walk that leaves the element itself out
Dir(p, walk, until) ==
  LET s == Tail(walk)
      end == SelectInSeq(s, LAMBDA n : p.tag[n] = "#document" \/ (until # Nil /\ p.tag[n] = until))
  IN  Elements(p, IF end = 0 THEN s ELSE SubSeq(s, 1, end - 1))

\* jQuery.nth for the second element of a walk
Nth(p, walk) ==
  LET s == Elements(p, walk) IN IF Len(s) < 2 THEN <<>> ELSE <<s[2]>>

Names == {"parent", "parents", "parentsUntil", "next", "prev", "nextAll", "prevAll", "nextUntil",
          "prevUntil", "siblings", "children", "contents"}
Backward == {"parents", "parentsUntil", "prevAll", "prevUntil"}

\* what one element contributes; siblings() of a node without a parent throws
Step(p, name, n, until) ==
  LET kids == p.kids[n]
      up == ParentOf(p, n)
      until1 == IF name \in {"parentsUntil", "nextUntil", "prevUntil"} THEN until ELSE Nil
  IN  CASE name = "parent" -> IF up = Nil \/ p.tag[up] = "#fragment" THEN <<>> ELSE <<up>>
        [] name \in {"parents", "parentsUntil"} -> Dir(p, UpFrom(p, n), until1)
        [] name = "next" -> Nth(p, SiblingsFrom(p, n, "nextSibling"))
        [] name = "prev" -> Nth(p, SiblingsFrom(p, n, "previousSibling"))
        [] name \in {"nextAll", "nextUntil"} -> Dir(p, SiblingsFrom(p, n, "nextSibling"), until1)
        [] name \in {"prevAll", "prevUntil"} -> Dir(p, SiblingsFrom(p, n, "previousSibling"), until1)
        [] name = "siblings" -> SelectSeq(Elements(p, p.kids[up]), LAMBDA m : m # n)
        [] name = "children" -> Elements(p, kids)
        [] name = "contents" -> kids

\* several elements give parents and previous siblings backwards, as one does
Turned(name, s, many) == IF many /\ name \in Backward THEN Reverse(s) ELSE s

Traverse(p, S, name, tag) ==
  LET all == FlattenSeq([i \in DOMAIN S |-> Step(p, name, S[i], tag)])
      some == IF tag = Nil \/ name \in {"parentsUntil", "nextUntil", "prevUntil"} THEN all
              ELSE SelectSeq(all, LAMBDA n : p.tag[n] = tag)
      many == Len(S) > 1
  IN  Turned(name, IF many THEN Ordered(p, ToSet(some)) ELSE some, many)

\* closest: of each element, and nothing makes them unique
Closest(p, S, tag) ==
  LET One(n) == LET up == SelectSeq(UpFrom(p, n), LAMBDA m : p.tag[m] = tag) IN
                IF up = <<>> THEN <<>> ELSE <<Head(up)>>
  IN  FlattenSeq([i \in DOMAIN S |-> One(S[i])])

\* winnow with a selector: only elements are left, also by not
Filtered(p, S, tag, keep) == SelectSeq(Elements(p, S), LAMBDA n : (p.tag[n] = tag) = keep)

Has(p, S, tag) ==
  SelectSeq(S, LAMBDA n : \E m \in ToSet(Find(p, tag)) : m # n /\ m \in Subtree(p, n))

IsDisconnected(p, s) ==
  s = <<>> \/ ParentOf(p, Head(s)) = Nil \/ p.tag[ParentOf(p, Head(s))] = "#fragment"

Add(p, S, set) ==
  LET all == S \o set
  IN  IF IsDisconnected(p, set) \/ IsDisconnected(p, all) THEN all ELSE Ordered(p, ToSet(all))

\* find: what the first gives, then what the next ones add
FindIn(p, S, tag) ==
  FoldLeft(LAMBDA r, n : r \o SelectSeq(Tail(Preorder(p, n)), LAMBDA m : p.tag[m] = tag /\ m \notin ToSet(r)), <<>>, S)

Eq(S, i) == IF i \in DOMAIN S THEN <<S[i]>> ELSE <<>>

(***************************************************************************)
(* Content: what a call is given becomes the children of a fragment.       *)
(* It is a string of HTML, a node or a set.                                *)
(***************************************************************************)
\* createDocumentFragment with these nodes, moved into it
Filled(p, f, nodes) == [page |-> Insert(p, f, nodes, Nil), fragment |-> f]
Fragment(made) ==
  LET new == Create(made.page, <<"#fragment">>, FALSE) IN Filled(new.page, new.roots[1], made.roots)

\* a string that may be cached is noted the first time and kept the second
Kept(p, h, new) ==
  IF ~Html[h].cacheable THEN new @@ [cacheable |-> FALSE]
  ELSE IF p.cache[h] # Nil THEN [page |-> p, fragment |-> p.cache[h], cacheable |-> TRUE]
  ELSE [page |-> IF h \in p.once THEN [new.page EXCEPT !.cache[h] = new.fragment]
                 ELSE [new.page EXCEPT !.once = @ \cup {h}],
        fragment |-> new.fragment, cacheable |-> TRUE]

BuildFragment(p, arg) ==
  IF arg.kind # "html" THEN Fragment([page |-> p, roots |-> arg.nodes]) @@ [cacheable |-> FALSE]
  ELSE Kept(p, arg.html, Fragment(Create(p, Html[arg.html].tags, Html[arg.html].nested)))

\* jQuery( html ): a single tag is made at once; else the nodes stay in a
\* fragment, in a clone of it when it may be cached
Children(p, f) == [roots |-> p.kids[f], page |-> p]
InFragment(b) ==
  IF b.cacheable THEN LET c == Copy(b.page, <<b.fragment>>) IN Children(c.page, c.roots[1])
  ELSE Children(b.page, b.fragment)

Make(p, h) ==
  IF Len(Html[h].tags) = 1 THEN Create(p, Html[h].tags, FALSE)
  ELSE InFragment(BuildFragment(p, [kind |-> "html", html |-> h, nodes |-> <<>>]))

\* jQuery( what ) of a string of HTML, or of nodes
Wrapped(p, arg) ==
  IF arg.kind = "html" THEN Make(p, arg.html) ELSE [roots |-> arg.nodes, page |-> p]

OfSet(nodes) == [kind |-> "set", nodes |-> nodes]
OfNode(n) == [kind |-> "node", nodes |-> <<n>>]

(***************************************************************************)
(* domManip.  A result has threw: an exception of the browser ends the     *)
(* call and leaves what was done.                                          *)
(***************************************************************************)
Fine(p) == [page |-> p, threw |-> FALSE]

\* the callbacks of append, prepend, before and after; a target that is not an
\* element takes no content
PutIn(p, way, target, content) ==
  LET inside == way \in {"append", "prepend"}
      into == IF inside THEN target ELSE ParentOf(p, target)
      ref == CASE way = "append" -> Nil
               [] way = "prepend" -> IF p.kids[target] = <<>> THEN Nil ELSE Head(p.kids[target])
               [] way = "before" -> target
               [] way = "after" -> LET s == SiblingsFrom(p, target, "nextSibling") IN IF Len(s) < 2 THEN Nil ELSE s[2]
  IN  IF inside /\ ~IsTag(p, target) THEN Fine(p)
      ELSE IF into = Nil \/ p.tag[into] = "#document" \/ ToSet(UpFrom(p, into)) \cap ToSet(content) # {}
      THEN [page |-> p, threw |-> TRUE]
      ELSE Fine(Insert(p, into, content, ref))

\* mutant: only the targets after the first get a clone
ClonedLater(i, cacheable, count) == i > 1

\* the first target gets the fragment itself only if it is the only one
Cloned(i, cacheable, count) == i > 1 \/ cacheable \/ count > 1

\* the fragment a node is alone in is taken as it is
FragmentOf(p, count, arg) ==
  LET up == IF arg.kind = "node" THEN ParentOf(p, arg.nodes[1]) ELSE Nil
  IN  IF up # Nil /\ p.tag[up] = "#fragment" /\ Len(p.kids[up]) = count
      THEN [page |-> p, fragment |-> up, cacheable |-> FALSE]
      ELSE BuildFragment(p, arg)

PutContent(p, way, target, content, cloned) ==
  IF content = <<>> THEN Fine(p)
  ELSE IF cloned THEN LET c == Copy(p, content) IN PutIn(c.page, way, target, c.roots)
  ELSE PutIn(p, way, target, content)

PutAll(b, S, way) ==
  FoldLeft(LAMBDA sofar, i :
             IF sofar.threw THEN sofar
             ELSE PutContent(sofar.page, way, S[i], sofar.page.kids[b.fragment], Cloned(i, b.cacheable, Len(S))),
           Fine(b.page), [i \in DOMAIN S |-> i])

DomManip(p, S, arg, way) ==
  IF S = <<>> THEN Fine(p) ELSE PutAll(FragmentOf(p, Len(S), arg), S, way)

\* one call after another, over the sequence S, until one throws
Each(p, S, held, F(_, _)) ==
  FoldLeft(LAMBDA r, n : IF r.threw THEN r
                         ELSE LET done == F(r.page, n)
                              IN  [done EXCEPT !.page = Collected(@, <<S, held>> \o chain)],
           Fine(p), S)

Attached(p, S) == S # <<>> /\ ParentOf(p, Head(S)) # Nil

\* insertBefore and the rest of the family: each target after the first gets clones
Original == [appendTo |-> "append", prependTo |-> "prepend", insertBefore |-> "before", insertAfter |-> "after"]

(***************************************************************************)
(* Removal, wrapping and replacement.                                      *)
(***************************************************************************)
Empty(p, S) == TakeOut(p, FlattenSeq([i \in DOMAIN S |-> p.kids[S[i]]]))

Innermost(p, n) ==
  LET in[m \in PageNode] == IF p.kids[m] # <<>> /\ IsTag(p, Head(p.kids[m])) THEN in[Head(p.kids[m])] ELSE m
  IN  in[n]

\* a clone of the first node of what is given goes before the first of the
\* set, and the set into the innermost element of it
Gathered(placed, wrapper, S) ==
  IF placed.threw THEN placed
  ELSE DomManip(placed.page, <<Innermost(placed.page, wrapper)>>, OfSet(S), "append")

WrapWith(c, S) ==
  IF c.roots = <<>> THEN Fine(c.page)
  ELSE Gathered(IF Attached(c.page, S) THEN DomManip(c.page, <<Head(S)>>, OfNode(c.roots[1]), "before")
                ELSE Fine(c.page), c.roots[1], S)

WrapAll(p, S, arg) ==
  IF S = <<>> THEN Fine(p)
  ELSE LET w == Wrapped(p, arg) IN WrapWith(Copy(w.page, Eq(w.roots, 1)), S)

WrapInner(p, n, arg) ==
  IF p.kids[n] # <<>> THEN WrapAll(p, p.kids[n], arg) ELSE DomManip(p, <<n>>, arg, "append")

\* what replaces is taken out first; then each target makes way for it
ReplaceWith(p, S, arg) ==
  LET value == IF arg.kind = "html" THEN arg ELSE OfSet(arg.nodes)
      One(q, n) ==
        LET next == SiblingsFrom(q, n, "nextSibling")
            parent == ParentOf(q, n)
            out == TakeOut(q, <<n>>)
        IN  IF Len(next) > 1
            THEN IF ParentOf(out, next[2]) = Nil THEN Fine(out) ELSE DomManip(out, <<next[2]>>, value, "before")
            ELSE IF parent = Nil THEN Fine(out) ELSE DomManip(out, <<parent>>, value, "append")
  IN  Each(IF arg.kind = "html" THEN p ELSE TakeOut(p, arg.nodes), S, arg.nodes, One)

\* mutant: the body is unwrapped as well
AlwaysUnwrapped(p, n) == TRUE

\* unwrap() leaves the body alone
MayUnwrap(p, n) == p.tag[n] # "body"

Unwrap(p, S) ==
  Each(p, Traverse(p, S, "parent", Nil), S,
       LAMBDA q, n : IF MayUnwrap(q, n) /\ ParentOf(q, n) # Nil THEN ReplaceWith(q, <<n>>, OfSet(q.kids[n])) ELSE Fine(q))

(***************************************************************************)
(* The calls of a page.                                                    *)
(***************************************************************************)
Current == Head(chain)

\* what a call is given: HTML, or the set of a tag
Given(with) ==
  IF with \in DOMAIN Html THEN [kind |-> "html", html |-> with, nodes |-> <<>>] ELSE OfSet(Find(page, with))

Weight(p, s) == Len(FlattenSeq([i \in DOMAIN s |-> Preorder(p, s[i])]))
Few(s) == Len(s) <= MaxTargets /\ Weight(page, s) <= MaxWeight
Room == Len(Unused(page)) >= Reserve /\ Few(Current)

\* a call ends with a page, and with the sets the program holds
DoneTo(op, result, sets, moved, to) ==
  /\ steps < MaxSteps
  /\ steps' = steps + 1
  /\ chain' = sets
  /\ page' = Collected(result.page, sets)
  /\ last' = [op |-> op, threw |-> result.threw, moved |-> ToSet(moved), to |-> to]

Done(op, result, sets) == DoneTo(op, result, sets, <<>>, Current)

\* pushStack: unless the call threw
Pushed(result, set) == IF result.threw THEN chain ELSE <<set>> \o chain

\* jQuery( tag ) and jQuery( html )
Select(tag) == Done("select", Fine(page), <<Find(page, tag)>>)
MakeNew(h) == LET m == Make(page, h) IN Done("make", Fine(m.page), <<m.roots>>)

\* parent, next, siblings, ...
Walk(name, tag) ==
  IF name = "siblings" /\ \E i \in DOMAIN Current : ParentOf(page, Current[i]) = Nil
  THEN Done(name, [page |-> page, threw |-> TRUE], chain)
  ELSE Done(name, Fine(page), <<Traverse(page, Current, name, tag)>> \o chain)

Narrow(op, tag) ==
  Done(op, Fine(page),
       <<CASE op = "closest" -> Closest(page, Current, tag)
           [] op = "filter" -> Filtered(page, Current, tag, TRUE)
           [] op = "not" -> Filtered(page, Current, tag, FALSE)
           [] op = "has" -> Has(page, Current, tag)
           [] op = "find" -> FindIn(page, Current, tag)
           [] op = "add" -> Add(page, Current, Find(page, tag))
           [] op = "first" -> Eq(Current, 1)
           [] op = "last" -> Eq(Current, Len(Current))
           [] op = "andSelf" -> Add(page, Current, IF Len(chain) > 1 THEN chain[2] ELSE <<>>)>> \o chain)

End == Done("end", Fine(page), IF Len(chain) > 1 THEN Tail(chain) ELSE <<(<<>>)>>)

\* append and prepend; before and after of nodes with a parent
Put(way, with) ==
  /\ way \in {"append", "prepend"} \/ Attached(page, Current)
  /\ DoneTo(way, DomManip(page, Current, Given(with), way), chain, Given(with).nodes, Current)

\* before and after of nodes without one only give a larger set
Beside(way, with) ==
  LET w == Wrapped(page, Given(with)) IN
  /\ way \in {"before", "after"} /\ ~Attached(page, Current)
  /\ Done("beside", Fine(w.page), <<IF way = "before" THEN w.roots \o Current ELSE Current \o w.roots>> \o chain)

\* appendTo, prependTo, insertBefore, insertAfter
PutTo(name, tag) ==
  LET targets == Find(page, tag)
      up == IF Len(Current) = 1 THEN ParentOf(page, Current[1]) ELSE Nil
      alone == up # Nil /\ page.tag[up] = "#fragment" /\ Len(page.kids[up]) = 1 /\ Len(targets) = 1
      One(r, n) ==
        LET c == Copy(r.page, Current)
            elems == IF n = targets[1] THEN Current ELSE c.roots
            done == DomManip(IF n = targets[1] THEN r.page ELSE c.page, <<n>>,
                             IF Len(elems) = 1 THEN OfNode(elems[1]) ELSE OfSet(elems), Original[name])
        IN  IF r.threw THEN r ELSE [page |-> done.page, threw |-> done.threw, set |-> r.set \o elems]
      all == FoldLeft(One, Fine(page) @@ [set |-> <<>>], targets)
  IN  IF alone THEN DoneTo(name, DomManip(page, targets, OfNode(Current[1]), Original[name]), chain, Current, targets)
      ELSE DoneTo(name, all, Pushed(all, all.set), Current, targets)

Wrap(op, with) ==
  Done(op, CASE op = "wrapAll" -> WrapAll(page, Current, Given(with))
             [] op = "wrap" -> Each(page, Current, Given(with).nodes, LAMBDA q, n : WrapAll(q, <<n>>, Given(with)))
             [] op = "wrapInner" -> Each(page, Current, Given(with).nodes, LAMBDA q, n : WrapInner(q, n, Given(with))), chain)

UnwrapSet == Done("unwrap", Unwrap(page, Current), chain)

Replace(with) ==
  LET w == Wrapped(page, Given(with)) IN
  IF Attached(page, Current) THEN Done("replaceWith", ReplaceWith(page, Current, Given(with)), chain)
  ELSE Done("replaced", Fine(w.page), <<w.roots>> \o chain)

RemoveSet == Done("remove", Fine(TakeOut(page, Current)), chain)
EmptySet == Done("empty", Fine(Empty(page, Current)), chain)

CloneSet == LET c == Copy(page, Current) IN Done("clone", Fine(c.page), <<c.roots>> \o chain)

\* html( string ): the browser parses it for each element
SetHtml(h) ==
  Done("html", Each(page, Elements(page, Current), <<>>,
                    LAMBDA q, n : LET c == Create(Empty(q, <<n>>), Html[h].tags, Html[h].nested)
                                  IN  Fine(Insert(c.page, n, c.roots, Nil))), chain)

\* text( string )
SetText ==
  LET c == Create(Empty(page, Current), <<"#text">>, FALSE) IN
  Done("text", DomManip(c.page, Current, OfNode(c.roots[1]), "append"), chain)

WrappedInit ==
  /\ page = [kids |-> StartKids, tag |-> StartTag, once |-> {}, cache |-> [h \in DOMAIN Html |-> Nil]]
  /\ chain = <<(<<>>)>>
  /\ steps = 0
  /\ last = [op |-> "none", threw |-> FALSE, moved |-> {}, to |-> <<>>]

Moves == {"append", "prepend", "before", "after"}

WrappedNext ==
  \/ \E tag \in Tags :
       \/ Select(tag)
       \/ \E op \in {"closest", "filter", "not", "has", "find", "add"} : Narrow(op, tag)
  \/ \E op \in {"first", "last", "andSelf"} : Narrow(op, Nil)
  \/ \E name \in Names, tag \in Tags \cup {Nil} : Walk(name, tag)
  \/ End
  \/ RemoveSet
  \/ UnwrapSet
  \/ /\ Room
     /\ \/ EmptySet \/ CloneSet \/ SetText
        \/ \E h \in DOMAIN Html : MakeNew(h) \/ SetHtml(h)
        \/ \E name \in DOMAIN Original, tag \in Tags : Few(Find(page, tag)) /\ PutTo(name, tag)
        \/ \E with \in Content \cup DOMAIN Html :
             /\ Few(Given(with).nodes)
             /\ \/ Replace(with)
                \/ \E way \in Moves : Put(way, with) \/ Beside(way, with)
                \/ \E op \in {"wrapAll", "wrap", "wrapInner"} : Wrap(op, with)

(***************************************************************************)
(* Properties                                                              *)
(***************************************************************************)
WrappedTypeOK ==
  /\ page.kids \in [PageNode -> Seq(PageNode)]
  /\ \A n \in PageNode : page.tag[n] = Nil => page.kids[n] = <<>>
  /\ \A i \in DOMAIN chain : chain[i] \in Seq(PageNode)

Members == UNION {ToSet(chain[i]) : i \in DOMAIN chain}

\* A cached fragment keeps the nodes its string stands for, and they are never
\* in the document or in a set: however often a page uses the string, what it
\* is given is whole and its own (buildFragment, domManip, jQuery( html )).
CacheIsWhole ==
  \A h \in DOMAIN Html : page.cache[h] # Nil =>
    LET kept == Preorder(page, page.cache[h])
    IN  /\ [i \in 1 .. Len(kept) - 1 |-> page.tag[kept[i + 1]]] = Html[h].tags
        /\ ToSet(kept) \cap (Subtree(page, Document) \cup Members) = {}

\* A walk over the document gives every node once, in the order of the
\* document, or backwards if it went up or back: from one element or from
\* several (jQuery.dir, jQuery.unique and the reversal).
OrderIsByName ==
  LET forth == Ordered(page, ToSet(Current)) IN
  (last.op \in Names /\ ~last.threw) => Current = IF last.op \in Backward THEN Reverse(forth) ELSE forth

\* The elements of the document, the fresh ones of the call left out.
Present(p) == {n \in Subtree(p, Document) : IsTag(p, n)}

\* Wrapping, unwrapping and insertion next to or into one element of the
\* document lose none of the elements of the document but the parent that is
\* unwrapped, unless the call throws or moves the target itself (domManip,
\* wrapAll, replaceWith).
NothingIsLost ==
  [][LET lost == Present(page) \ Present(page') IN
     /\ last'.op \in Moves \cup DOMAIN Original \cup {"wrap", "wrapAll", "wrapInner", "unwrap"}
     /\ ~last'.threw
     /\ ToSet(last'.to) \subseteq Present(page)
     /\ last'.op \in Moves \cup DOMAIN Original =>
          /\ Len(last'.to) = 1
          /\ UNION {Subtree(page, n) : n \in last'.moved} \cap ToSet(last'.to) = {}
     => lost \subseteq {ParentOf(page, n) : n \in IF last'.op = "unwrap" THEN ToSet(last'.to) ELSE {}}]_wrappedVars
=============================================================================
