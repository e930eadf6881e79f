----------------------------- MODULE Selectors -----------------------------
(***************************************************************************)
(* Sizzle, the selector engine in jQuery 1.4.2, and find of a set of       *)
(* elements.  A selector is matched from its right end: find collects what *)
(* the last part selects, and every combinator then replaces each          *)
(* candidate by the one element to its left that still has to match the    *)
(* rest.  Walks along ancestors or siblings leave a mark on each node they *)
(* pass, so that the next candidate need not walk there again.             *)
(*                                                                         *)
(* The browser's own querySelectorAll, which takes the place of Sizzle for *)
(* whole documents, selectors with positions and groups are left out.      *)
(***************************************************************************)
EXTENDS Integers, Sequences, FiniteSets, SequencesExt, Functions

CONSTANTS
  Size,       \* nodes are numbered in the order of the document
  Documents,  \* documents: [parent, tag, class, id]
  Questions   \* selectors with the contexts they are asked in: [rel, part, contexts]

Node == 1 .. Size
Doc == 0     \* the document, the parent of the root unless that is detached
Null == -1   \* what JavaScript's false, true and null stand for in a checkSet
No == -2
Yes == -3
Truthy(x) == x \notin {No, Null}

Combinator == {"", ">", "+", "~"}

ASSUME SizeIsCount == Size \in Nat \ {0}
ASSUME DocumentsAreTrees ==
  \A d \in Documents :
    /\ d.parent \in [Node -> {Null, Doc} \cup Node]
    /\ d.parent[1] \in {Null, Doc}
    /\ \A n \in Node \ {1} : d.parent[n] \in 1 .. n - 1

VARIABLES
  doc,       \* the document, for the whole of a behaviour
  asked,     \* the question; its parts are popped from the end
  at,        \* the part on whose left the next combinator is
  from,      \* the first part: 2 after the root has been looked up
  context,   \* of this call of Sizzle
  left,      \* the contexts of find that are still to come
  set,       \* the candidates
  checkSet,  \* for each of them what has been matched on its left so far
  mark,      \* sizcache and sizset of a node: [done, set], and its nodeIndex
  done,      \* the next name for a walk
  ret,       \* what find has found
  pc

selectorVars == <<doc, asked, at, from, context, left, set, checkSet, mark, done, ret, pc>>

SelectorsTypeOK ==
  /\ doc.parent \in [Node -> {Null, Doc} \cup Node]
  /\ at \in 0 .. Len(asked.part) /\ from \in 1 .. 2
  /\ context \in {Null, Doc} \cup Node
  /\ left \in Seq({Doc} \cup Node)
  /\ set \in Seq(Node)
  /\ checkSet \in Seq({Doc, Null, No, Yes} \cup Node)
  /\ mark \in [{Doc} \cup Node -> [done : Nat, set : Nat, index : Nat]]
  /\ done \in Nat
  /\ ret \in Seq(Node)
  /\ pc \in {"seed", "relate", "collect", "found", "error"}
  /\ pc \in {"relate", "collect"} => Len(checkSet) = Len(set)

(***************************************************************************)
(* The document.                                                           *)
(***************************************************************************)
Parent(n) == IF n = Doc THEN Null ELSE doc.parent[n]
IsElement(n) == n \in Node

\* along dir from n, without n
Chain(dir, n) ==
  LET before == {m \in Node : m < n /\ Parent(m) = Parent(n)}
      up[i \in 0 .. Size + 1] == IF i = 0 THEN n ELSE IF up[i - 1] = Null THEN Null ELSE Parent(up[i - 1])
  IN  IF dir = "previousSibling"
        THEN IF n = Doc THEN <<>> ELSE Reverse(SelectSeq([i \in Node |-> i], LAMBDA m : m \in before))
        ELSE SelectSeq([i \in 1 .. Size + 1 |-> up[i]], LAMBDA m : m # Null)

PreviousSibling(n) == LET c == Chain("previousSibling", n) IN IF c = <<>> THEN Null ELSE Head(c)

\* contains: strictly inside
Inside(n, ctx) == ctx \in ToSet(Chain("parentNode", n))

(***************************************************************************)
(* A part of a selector: a tag or any, a class, an id, nth-child(2).       *)
(***************************************************************************)
IsTag(p) == p.tag # "*" /\ ~p.class /\ ~p.id /\ ~p.nth
Simple(n, p) ==
  /\ IsElement(n)
  /\ p.tag # "*" => doc.tag[n] = p.tag
  /\ p.class => n \in doc.class
  /\ p.id => n = doc.id

(***************************************************************************)
(* Expr.filter.CHILD: the children of a parent are numbered once for every *)
(* call of filter, and the parent is marked with the name of that call.    *)
(***************************************************************************)
Numbered(m, n, name) ==
  IF Parent(n) = Null \/ (m[Parent(n)].done = name /\ m[n].index # 0) THEN m
  ELSE LET sibs == {k \in Node : Parent(k) = Parent(n)} IN
       [k \in {Doc} \cup Node |->
          IF k \in sibs THEN [m[k] EXCEPT !.index = Cardinality({j \in sibs : j <= k})]
          ELSE IF k = Parent(n) THEN [m[k] EXCEPT !.done = name] ELSE m[k]]

\* Sizzle.filter over a list, in place: it ends at a null.  CHILD comes before
\* the other tests of a part.
Filter(p, list, m, name) ==
  LET end == SelectInSeq(list, LAMBDA x : x = Null)
      Live(i) == (end = 0 \/ i < end) /\ Truthy(list[i])
      Number(acc, i) == IF Live(i) /\ IsElement(list[i]) THEN Numbered(acc, list[i], name) ELSE acc
      numbered == IF p.nth THEN FoldLeft(Number, m, [i \in DOMAIN list |-> i]) ELSE m
      Pass(n) == Simple(n, p) /\ (p.nth => numbered[n].index = 2)
  IN  [list |-> [i \in DOMAIN list |-> IF Live(i) /\ ~Pass(list[i]) THEN No ELSE list[i]],
       mark |-> numbered,
       done |-> IF p.nth THEN name + 1 ELSE name]

(***************************************************************************)
(* The combinators: Expr.relative.  part is a part of the selector, or the *)
(* context when the selector begins with a combinator.                     *)
(***************************************************************************)
\* mutant: a node that was passed is taken for one that matched
CachedNode(n, cs, m) == n

\* what a walk that has passed the node came to
Cached(n, cs, m) == cs[m[n].set]

\* dirNodeCheck and dirCheck for candidate i: the walk ends at a node that a
\* walk of this name has passed, or at the first that Fits finds.
Walk(dir, Fits(_, _, _), name, i, start) ==
  LET Visit(acc, n) ==
        IF acc.over THEN acc
        ELSE IF acc.mark[n].done = name
          THEN [acc EXCEPT !.over = TRUE, !.list[i] = Cached(n, acc.list, acc.mark)]
        ELSE LET m == IF IsElement(n) THEN [acc.mark EXCEPT ![n].done = name, ![n].set = i] ELSE acc.mark
                 f == Fits(n, m, acc.done)
             IN  [over |-> f.list[1] # No, mark |-> f.mark, done |-> f.done,
                  list |-> [acc.list EXCEPT ![i] = f.list[1]]]
      begin == [over |-> FALSE, mark |-> start.mark, done |-> start.done,
                list |-> [start.list EXCEPT ![i] = No]]
      end == FoldLeft(Visit, begin, Chain(dir, start.list[i]))
  IN  [list |-> end.list, mark |-> end.mark, done |-> end.done]

\* done++
NextName(name) == name + 1

Walks(dir, Fits(_, _, _), cs) ==
  LET Step(acc, i) == IF Truthy(acc.list[i]) THEN Walk(dir, Fits, done, i, acc) ELSE acc
  IN  FoldLeft(Step, [list |-> cs, mark |-> mark, done |-> NextName(done)], [i \in DOMAIN cs |-> i])

\* "" and "~" with a part: every node of the walk is filtered by itself
Along(dir, p, cs) == Walks(dir, LAMBDA n, m, name : Filter(p, <<n>>, m, name), cs)

\* "~" with the context
AlongTo(ctx, cs) ==
  Walks("previousSibling",
        LAMBDA n, m, name : [list |-> <<IF n = ctx THEN Yes ELSE No>>, mark |-> m, done |-> name], cs)

SiblingOrNo(n) == IF n = Doc \/ PreviousSibling(n) = Null THEN No ELSE PreviousSibling(n)
NextAlong(dir, n) == IF dir = "parentNode" THEN Parent(n) ELSE SiblingOrNo(n)

\* ">" and "+" with a part
OneStep(dir, p, cs) ==
  LET moved == [i \in DOMAIN cs |-> IF Truthy(cs[i]) THEN NextAlong(dir, cs[i]) ELSE cs[i]]
  IN  Filter(p, moved, mark, done)

\* ">" and "+" with the context
OneStepTo(dir, ctx, cs) ==
  [list |-> [i \in DOMAIN cs |->
               IF ~Truthy(cs[i]) THEN cs[i] ELSE IF NextAlong(dir, cs[i]) = ctx THEN Yes ELSE No],
   mark |-> mark, done |-> done]

Related(rel, p, cs) ==
  CASE rel = "" -> Along("parentNode", p, cs)
    [] rel = "~" -> Along("previousSibling", p, cs)
    [] rel = ">" -> OneStep("parentNode", p, cs)
    [] rel = "+" -> OneStep("previousSibling", p, cs)

RelatedTo(rel, ctx, cs) ==
  CASE rel = "~" -> AlongTo(ctx, cs)
    [] rel = ">" -> OneStepTo("parentNode", ctx, cs)
    [] rel = "+" -> OneStepTo("previousSibling", ctx, cs)

\* nodeName is asked of the parent that a detached root does not have
Fails(rel, p, cs) ==
  rel = ">" /\ IsTag(p) /\ \E i \in DOMAIN cs : Truthy(cs[i]) /\ Parent(cs[i]) = Null

(***************************************************************************)
(* One call of Sizzle for every context, and find over all of them.        *)
(***************************************************************************)
\* Earlier selectors have left their marks, and numbers that may be wrong by
\* now; a detached root is taken not to have one (Numbered would believe it).
Asked(documents, questions) ==
  /\ doc \in documents
  /\ asked \in questions
  /\ at = 0 /\ from = 1
  /\ context = Null
  /\ left = asked.contexts
  /\ set = <<>> /\ checkSet = <<>>
  /\ \E stale \in {0, 2} :
       /\ stale # 0 => \E i \in DOMAIN asked.part : asked.part[i].nth
       /\ mark = [n \in {Doc} \cup Node |->
                    [done |-> 0, set |-> 0, index |-> IF Parent(n) = Null THEN 0 ELSE stale]]
  /\ done = 1
  /\ ret = <<>>
  /\ pc = "seed"

SelectorsInit == Asked(Documents, Questions)

Length == Len(asked.part)

\* Sizzle.find and the filter of its result
Seeds(p, root) ==
  LET all == SelectSeq([i \in Node |-> i], LAMBDA n : Inside(n, root))
      f == Filter(p, all, mark, done)
  IN  [f EXCEPT !.list = SelectSeq(@, Truthy)]

\* mutant: a leading sibling combinator looks below the context as well
SeedRootBelow(ctx, f) == ctx

\* a leading sibling combinator looks for candidates beside the context
SeedRoot(ctx, f) ==
  IF f = Length /\ asked.rel[f] \in {"~", "+"} /\ Parent(ctx) # Null THEN Parent(ctx) ELSE ctx

\* The last part selects the candidates; a root selector that is an id is
\* looked up first, and is the context from then on.
Seed ==
  /\ pc = "seed"
  /\ LET shortcut == /\ Head(left) = Doc /\ Length > 1 /\ asked.rel[1] = ""
                     /\ asked.part[1].id /\ ~asked.part[Length].id
         root == Seeds(asked.part[1], Doc).list
         ctx == IF ~shortcut THEN Head(left) ELSE IF root = <<>> THEN Null ELSE Head(root)
         f == IF shortcut THEN 2 ELSE 1
         seeds == Seeds(asked.part[Length], SeedRoot(ctx, f))
     IN  /\ context' = ctx
         /\ from' = f
         /\ at' = Length
         /\ IF ctx = Null
              THEN set' = <<>> /\ checkSet' = <<>> /\ pc' = "collect" /\ UNCHANGED <<mark, done>>
              ELSE /\ set' = seeds.list /\ checkSet' = seeds.list
                   /\ mark' = seeds.mark /\ done' = seeds.done
                   /\ pc' = IF f = Length /\ asked.rel[f] = "" THEN "collect" ELSE "relate"
  /\ UNCHANGED <<doc, asked, left, ret>>

\* One combinator and what is on its left.
Relate ==
  /\ pc = "relate"
  /\ LET rel == asked.rel[at]
         r == IF at > from THEN Related(rel, asked.part[at - 1], checkSet)
              ELSE RelatedTo(rel, context, checkSet)
     IN  IF at > from /\ Fails(rel, asked.part[at - 1], checkSet)
           THEN pc' = "error" /\ UNCHANGED <<at, checkSet, mark, done>>
           ELSE /\ checkSet' = r.list /\ mark' = r.mark /\ done' = r.done
                /\ at' = at - 1
                /\ pc' = IF at > from /\ (at - 1 > from \/ asked.rel[from] # "") THEN "relate" ELSE "collect"
  /\ UNCHANGED <<doc, asked, from, context, left, set, ret>>

\* what has been matched on the left of a candidate must lie in the context
Kept(ctx, x) ==
  IF ctx = Doc THEN IsElement(x) ELSE x = Yes \/ (IsElement(x) /\ Inside(x, ctx))

\* the loop of find that makes the results unique
NewOf(before, found) == SelectSeq(found, LAMBDA n : n \notin ToSet(before))

Collect ==
  /\ pc = "collect"
  /\ LET end == SelectInSeq(checkSet, LAMBDA x : x = Null)
         pruned == ~(from = Length /\ asked.rel[from] = "")
         kept == SelectSeq([i \in DOMAIN set |-> i],
                           LAMBDA i : ~pruned \/ ((end = 0 \/ i < end) /\ Kept(context, checkSet[i])))
     IN  ret' = ret \o NewOf(ret, [k \in DOMAIN kept |-> set[kept[k]]])
  /\ left' = Tail(left)
  /\ set' = <<>> /\ checkSet' = <<>>
  /\ pc' = IF Len(left) = 1 THEN "found" ELSE "seed"
  /\ UNCHANGED <<doc, asked, at, from, context, mark, done>>

SelectorsNext == Seed \/ Relate \/ Collect

(***************************************************************************)
(* Properties.                                                             *)
(***************************************************************************)
\* What a selector means, whatever order it is matched in: there are nodes for
\* all of its parts, each related to the one before, the first to the context.
Relation(rel, m, n) ==
  CASE rel = "" -> Inside(n, m)
    [] rel = ">" -> Parent(n) = m
    [] rel = "~" -> n # Doc /\ m \in ToSet(Chain("previousSibling", n))
    [] rel = "+" -> n # Doc /\ PreviousSibling(n) = m

Second(n) == Cardinality({m \in Node : m <= n /\ Parent(m) = Parent(n)}) = 2
FitsPart(n, p) == Simple(n, p) /\ (p.nth => Parent(n) # Null /\ Second(n))

Means(n, ctx) ==
  \E m \in [1 .. Length -> Node] :
     /\ m[Length] = n
     /\ \A i \in 1 .. Length : FitsPart(m[i], asked.part[i])
     /\ Relation(asked.rel[1], ctx, m[1])
     /\ \A i \in 2 .. Length : Relation(asked.rel[i], m[i - 1], m[i])

Wanted(n) == FitsPart(n, asked.part[Length]) /\ \E c \in ToSet(asked.contexts) : Means(n, c)

\* Whatever find returns matches the selector, in some of the contexts, and
\* comes once; marks left by earlier walks and numbers of earlier filters do
\* not change what a later one finds.
FindsOnlyMatches ==
  /\ \A i \in DOMAIN ret : Wanted(ret[i])
  /\ IsInjective(ret)

\* The matcher keeps one candidate on the left, the nearest: it cannot miss a
\* match as long as the nearest is as good as any other, and the context is
\* not one of those Sizzle treats apart.
NearestIsBest ==
  /\ \A i \in 2 .. Length :
       /\ asked.rel[i] = "" => asked.rel[i - 1] = ""
       /\ asked.rel[i] = "~" => asked.rel[i - 1] # "+"
  /\ asked.rel[1] # "" => Doc \notin ToSet(asked.contexts)
  /\ asked.rel[1] \in {"~", "+"} => Length = 1
  /\ Doc \in ToSet(asked.contexts) /\ asked.part[1].id /\ Length > 2 => asked.rel[2] \notin {"~", "+"}

\* In a document every match is found, and nothing fails.
FindsAllMatches ==
  doc.parent[1] = Doc =>
    /\ pc # "error"
    /\ pc = "found" /\ NearestIsBest => {n \in Node : Wanted(n)} \subseteq ToSet(ret)
=============================================================================
