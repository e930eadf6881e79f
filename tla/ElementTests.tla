---------------------------- MODULE ElementTests -----------------------------
(***************************************************************************)
(* What Sizzle asks of one element: the tests of attributes, pseudos,      *)
(* children and positions.  The order in which an expression takes them is *)
(* in SimpleFilters.                                                       *)
(***************************************************************************)
EXTENDS Integers, Sequences, FiniteSets, SequencesExt

CONSTANT NoAttr \* an attribute, or a number in an equation, that is not there

Occurs(s, t) == \E i \in 0 .. Len(s) - Len(t) : SubSeq(s, i + 1, i + Len(t)) = t

\* Expr.filter.ATTR: name, operator and check; without a check the value
\* itself decides, whatever the operator
AttrHolds(value, op, check) ==
  CASE value = NoAttr -> op = "!="
    [] value # NoAttr /\ op = "=" -> value = check
    [] value # NoAttr /\ op = "*=" -> Occurs(value, check)
    [] value # NoAttr /\ op = "~=" -> Occurs(<<" ">> \o value \o <<" ">>, <<" ">> \o check \o <<" ">>)
    [] value # NoAttr /\ op \notin {"=", "*=", "~="} /\ check = <<>> -> value # <<>>
    [] value # NoAttr /\ op = "!=" /\ check # <<>> -> value # check
    [] value # NoAttr /\ op = "^=" /\ check # <<>> -> IsPrefix(check, value)
    [] value # NoAttr /\ op = "$=" /\ check # <<>> -> IsSuffix(check, value)
    [] value # NoAttr /\ op = "|=" /\ check # <<>> -> value = check \/ IsPrefix(Append(check, "-"), value)
    [] OTHER -> FALSE

\* Expr.filters; an element that is no field is neither enabled nor disabled
FilterHolds(f, name) ==
  CASE name = "enabled" -> f.disabled = "false" /\ f.type # "hidden"
    [] name = "disabled" -> f.disabled = "true"
    [] name = "checked" -> f.checked
    [] name = "selected" -> f.selected
    [] name = "parent" -> f.children > 0
    [] name = "empty" -> f.children = 0
    [] name = "header" -> f.name \in {"h1", "h2", "h3"}
    [] name = "button" -> f.type = "button" \/ f.name = "button"
    [] name = "input" -> f.name \in {"input", "select", "textarea", "button"}
    [] OTHER -> f.type = name

\* Expr.preFilter.CHILD: the numbers of an equation
Nth(eq) ==
  LET a == IF eq.factor = NoAttr THEN 1 ELSE eq.factor
  IN  [first |-> IF eq.minus THEN -a ELSE a, last |-> IF eq.plus = NoAttr THEN 0 ELSE eq.plus]

Magnitude(x) == IF x < 0 THEN -x ELSE x

\* Expr.filter.CHILD of an element whose number is known (Selectors)
NthChild(eq, index) ==
  LET n == Nth(eq)
      diff == index - n.last
  IN  IF n.first = 0 THEN diff = 0
      ELSE Magnitude(diff) % Magnitude(n.first) = 0 /\ (diff = 0 \/ (diff > 0 <=> n.first > 0))

ChildHolds(e, p) ==
  CASE p.name = "nth" -> NthChild(p.eq, e.index)
    [] p.name = "first" -> e.index = 1
    [] p.name = "last" -> e.index = e.of
    [] p.name = "only" -> e.index = 1 /\ e.index = e.of

\* Expr.setFilters, of the element at place i of n
PosHolds(p, i, n) ==
  CASE p.name = "first" -> i = 1
    [] p.name = "last" -> i = n
    [] p.name = "even" -> i % 2 = 1
    [] p.name = "odd" -> i % 2 = 0
    [] p.name = "lt" -> i - 1 < p.n
    [] p.name = "gt" -> i - 1 > p.n
    [] p.name \in {"nth", "eq"} -> i - 1 = p.n

(***************************************************************************)
(* Properties                                                              *)
(***************************************************************************)
\* The operators for attributes are to each other as they are in a style sheet:
\* equal implies the others, a beginning, an end or a word is a part, and not
\* equal is the opposite of equal, for any check that is not empty
\* (Expr.filter.ATTR).
OperatorsNest(value, check) ==
  LET H(op) == AttrHolds(value, op, check) IN
  check # <<>> =>
    /\ H("=") => H("^=") /\ H("$=") /\ H("|=") /\ H("~=")
    /\ H("^=") \/ H("$=") \/ H("~=") \/ H("|=") => H("*=")
    /\ H("|=") => H("^=")
    /\ H("!=") <=> ~H("=")

\* An equation selects the children with the numbers factor * n + plus, n from
\* 0 on, also for a factor or a plus that is not positive (Expr.filter.CHILD).
EquationHolds(eq, index) ==
  LET a == IF eq.factor = NoAttr THEN 1 ELSE eq.factor
      b == IF eq.plus = NoAttr THEN 0 ELSE eq.plus
  IN  NthChild(eq, index) <=>
        \E k \in 0 .. Magnitude(index - b) : index = ((IF eq.minus THEN -a ELSE a) * k) + b
=============================================================================
