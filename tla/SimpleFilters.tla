---------------------------- MODULE SimpleFilters ----------------------------
(***************************************************************************)
(* Sizzle.filter over a list of elements, with an expression of pseudos,   *)
(* children, attributes and positions (ElementTests).                      *)
(* The parts are not taken in the order in which they are written: every   *)
(* round looks for the kinds of Expr.filter one after the other, anywhere  *)
(* in what is left of the expression.                                      *)
(***************************************************************************)
EXTENDS ElementTests

CONSTANTS
  Letters,    \* of the values of attributes; "-" and " " among them
  MaxLetters, \* bound: letters of a value
  MaxIndex,   \* bound: children of a parent, and numbers in an equation
  Sieved,     \* the elements of the lists: [value, index, of, field]; a field is
              \* [name, type, disabled, checked, selected, children]
  Lists,      \* lists of them
  SieveParts, \* parts of expressions
  MaxParts    \* bound: parts of an expression

ASSUME SieveBounds == MaxLetters \in Nat /\ MaxIndex \in Nat /\ MaxParts \in Nat

VARIABLE tested \* what is tested, for the whole of a behaviour

AttrValues == UNION {[1 .. n -> Letters] : n \in 0 .. MaxLetters}
Equations == [minus : BOOLEAN, factor : {NoAttr} \cup 0 .. 3, plus : {NoAttr} \cup -MaxIndex .. MaxIndex]

SieveInit ==
  \/ tested \in [kind : {"list"}, list : Lists, comma : BOOLEAN,
               expr : UNION {[1 .. n -> SieveParts] : n \in 1 .. MaxParts}]
  \/ tested \in [kind : {"child"}, eq : Equations, index : 1 .. MaxIndex]
  \/ tested \in [kind : {"value"}, value : {NoAttr} \cup AttrValues, check : AttrValues]

(***************************************************************************)
(* Sizzle.filter.                                                          *)
(***************************************************************************)
\* mutant: the first part that is written
NextWritten(expr) == 1

\* the pattern of PSEUDO fits children and positions as well: if it finds one
\* of those first, the other kinds have their turn
NextPart(expr) ==
  LET like == SelectInSeq(expr, LAMBDA p : p.kind # "attr")
      child == SelectInSeq(expr, LAMBDA p : p.kind = "child")
      attr == SelectInSeq(expr, LAMBDA p : p.kind = "attr")
  IN  IF like # 0 /\ expr[like].kind \in {"pseudo", "not"} THEN like
      ELSE IF child # 0 THEN child
      ELSE IF attr # 0 THEN attr
      ELSE like

\* one part; inner is what the expression of a not leaves of the same list
Passing(list, p, inner) ==
  CASE p.kind = "pseudo" -> SelectSeq(list, LAMBDA e : FilterHolds(Sieved[e].field, p.name))
    [] p.kind = "not" -> SelectSeq(list, LAMBDA e : e \notin inner)
    [] p.kind = "child" -> SelectSeq(list, LAMBDA e : ChildHolds(Sieved[e], p))
    [] p.kind = "attr" -> SelectSeq(list, LAMBDA e : AttrHolds(Sieved[e].value, p.op, p.check))
    [] p.kind = "pos" ->
         LET at == SelectSeq([i \in DOMAIN list |-> i], LAMBDA i : PosHolds(p, i, Len(list)))
         IN  [i \in DOMAIN at |-> list[at[i]]]

\* neg: what does not pass is kept.  stale: the pattern chunker still has its
\* place at the comma after the expression, so that its first use in a not
\* fails, and the parts of that not are denied one by one.
RECURSIVE Sieve(_, _, _, _)
Sieve(expr, list, stale, neg) ==
  IF expr = <<>> \/ list = <<>> THEN list
  ELSE LET k == NextPart(expr)
           p == expr[k]
           kept == Passing(list, p, IF p.kind = "not" THEN ToSet(Sieve(p.expr, list, FALSE, FALSE)) ELSE {})
           rest == IF p.kind = "not" /\ stale THEN Sieve(p.expr, list, FALSE, ~neg)
                   ELSE IF neg THEN SelectSeq(list, LAMBDA e : e \notin ToSet(kept))
                   ELSE kept
       IN  Sieve(RemoveAt(expr, k), rest, stale /\ p.kind # "not", neg)

(***************************************************************************)
(* Properties                                                              *)
(***************************************************************************)
\* Tests of attributes and children hold for all that is kept wherever they
\* are written, and a position counts among what passes those and the pseudos
\* before it.
RECURSIVE SieveMeant(_, _)
SieveMeant(expr, list) ==
  LET Hard(p) == p.kind \in {"attr", "child"}
      hard == SelectSeq(expr, Hard)
      soft == SelectSeq(expr, LAMBDA p : ~Hard(p))
  IN  FoldLeft(LAMBDA l, p : Passing(l, p, IF p.kind = "not" THEN ToSet(SieveMeant(p.expr, l)) ELSE {}), list, hard \o soft)

SimpleNots(expr) == \A i \in DOMAIN expr : expr[i].kind = "not" => Len(expr[i].expr) = 1
PlainNots(expr) ==
  \A i \in DOMAIN expr : expr[i].kind = "not" => \A j \in DOMAIN expr[i].expr : expr[i].expr[j].kind # "pos"

\* What Sizzle keeps is what the expression means, unless a not of several
\* parts comes before a comma or there is a position in a not, which counts in
\* the list the not happens to see (Sizzle.filter); an equation for children
\* selects the numbers factor * n + plus, n from 0 on.
FiltersMean ==
  CASE tested.kind = "list" ->
         PlainNots(tested.expr) /\ (tested.comma => SimpleNots(tested.expr)) =>
            Sieve(tested.expr, tested.list, tested.comma, FALSE) = SieveMeant(tested.expr, tested.list)
    [] tested.kind = "child" -> EquationHolds(tested.eq, tested.index)
    [] tested.kind = "value" -> OperatorsNest(tested.value, tested.check)
=============================================================================
