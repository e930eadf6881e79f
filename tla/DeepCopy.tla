------------------------------- MODULE DeepCopy -------------------------------
(***************************************************************************)
(* jQuery.extend: properties of objects are brought into another one, as   *)
(* they are or deep, with a copy of every object literal and array.        *)
(* Objects are the places of a heap and refer to each other.               *)
(***************************************************************************)
EXTENDS Integers, Sequences, FiniteSets, SequencesExt

CONSTANTS
  Heaps,    \* objects to start with, of them 1 is the target and 2 and 3 the sources: [kind, fields]
  PropName, \* the names of properties, as a sequence
  Calls     \* [deep : BOOLEAN, args : a sequence of values]

VARIABLE extending \* [heap, call], for the whole of a behaviour

ExtendInit == extending \in [heap : Heaps, call : Calls]

\* values: a reference is positive, 0 is undefined, negative what is no object
Undefined == 0
IsRef(v) == v > 0

\* isPlainObject or isArray; other are functions, elements, instances of classes
Plain(h, v) == IsRef(v) /\ h[v].kind \in {"object", "array"}
Blank(kind) == [kind |-> kind, fields |-> [n \in ToSet(PropName) |-> Undefined]]

\* mutant: what is not there yet is taken over, not cloned
OwnOrTaken(h, src, copy) == IF Plain(h, src) THEN <<h, src>> ELSE <<h, copy>>

\* clone: the target's own object, or a new one of the same kind
OwnOrNew(h, src, copy) ==
  IF Plain(h, src) THEN <<h, src>> ELSE <<Append(h, Blank(h[copy].kind)), Len(h) + 1>>

RECURSIVE ExtendWith(_, _, _, _)
Property(h, target, name, copy, deep) ==
  LET own == OwnOrNew(h, h[target].fields[name], copy)
      merged == ExtendWith(own[1], own[2], copy, TRUE)
  IN  IF copy = target \/ copy = Undefined THEN h
      ELSE IF deep /\ Plain(h, copy) THEN [merged EXCEPT ![target].fields[name] = own[2]]
      ELSE [h EXCEPT ![target].fields[name] = copy]

\* one source; null and undefined are none
ExtendWith(h, target, source, deep) ==
  IF ~IsRef(source) THEN h
  ELSE FoldLeft(LAMBDA g, n : Property(g, target, n, g[source].fields[n], deep), h, PropName)

\* jQuery.extend; this is the object it is a method of
Extend(h, this, deep, args) ==
  LET made == IF Len(args) = 1 THEN <<h, this>>
              ELSE IF IsRef(args[1]) THEN <<h, args[1]>>
              ELSE <<Append(h, Blank("object")), Len(h) + 1>>
      sources == IF Len(args) = 1 THEN args ELSE Tail(args)
  IN  [heap |-> FoldLeft(LAMBDA g, s : ExtendWith(g, made[2], s, deep), made[1], sources),
       target |-> made[2]]

(***************************************************************************)
(* Properties                                                              *)
(***************************************************************************)
\* what can be reached, over plain objects
Reached(h, v) ==
  LET step(S) == S \cup {w \in UNION {{h[r].fields[n] : n \in ToSet(PropName)} : r \in {s \in S : Plain(h, s)}} : IsRef(w)}
      from[i \in 0 .. Len(h)] == IF i = 0 THEN {w \in {v} : IsRef(w)} ELSE step(from[i - 1])
  IN  from[Len(h)]
Literals(h, v) == {r \in Reached(h, v) : Plain(h, r)}

\* an object as a tree: references to objects that are not plain stay
RECURSIVE Tree(_, _), Merged(_, _, _)
Leaf(v) == [kind |-> "leaf", value |-> v]
Tree(h, v) ==
  IF Plain(h, v) THEN [kind |-> h[v].kind, fields |-> [n \in ToSet(PropName) |-> Tree(h, h[v].fields[n])]] ELSE Leaf(v)

\* what a source means for the target: defined values win, trees are merged
Merged(t, s, deep) ==
  LET empty == [kind |-> s.kind, fields |-> [n \in ToSet(PropName) |-> Leaf(Undefined)]]
  IN  IF s = Leaf(Undefined) THEN t
      ELSE IF ~deep \/ s.kind = "leaf" THEN s
      ELSE LET own == IF t.kind = "leaf" THEN empty ELSE t
           IN  [own EXCEPT !.fields = [n \in ToSet(PropName) |-> Merged(@[n], s.fields[n], TRUE)]]

MergedInto(t, s, deep) ==
  IF s.kind = "leaf" THEN t
  ELSE [t EXCEPT !.fields = [n \in ToSet(PropName) |-> Merged(@[n], s.fields[n], deep)]]

\* a property of a source that is the target itself is passed over
Without(h, target, sources) ==
  [r \in DOMAIN h |-> IF r \in ToSet(sources) /\ r # target
                      THEN [h[r] EXCEPT !.fields = [n \in DOMAIN @ |-> IF @[n] = target THEN Undefined ELSE @[n]]]
                      ELSE h[r]]

\* no object literal is in two places
IsTree(h, v) ==
  \A r, q \in Literals(h, v), n, m \in ToSet(PropName) :
    Plain(h, h[r].fields[n]) /\ h[r].fields[n] = h[q].fields[m] => r = q /\ n = m

\* As long as the target is a tree and shares no object with the sources, it
\* gets what they mean, the last one winning; no source is changed, and after a deep copy the
\* target still shares none of their object literals and arrays, so that
\* options given to one call are not those of the next (jQuery.extend, as
\* jQuery.ajax, ajaxSubmit and jQuery.atmosphere.subscribe use it).
CopiesStayApart ==
  LET c == extending.call
      all == Extend(extending.heap, 1, c.deep, c.args)
      sources == IF Len(c.args) = 1 THEN c.args ELSE Tail(c.args)
      h == Without(extending.heap, all.target, sources)
      old == all.target \in DOMAIN h
      own == IF old THEN Literals(h, all.target) ELSE {}
      theirs == UNION {Literals(h, sources[i]) : i \in DOMAIN sources}
      start == IF old THEN Tree(h, all.target) ELSE Tree(<<Blank("object")>>, 1)
  IN  own \cap theirs = {} /\ (old => IsTree(h, all.target)) =>
        /\ Tree(all.heap, all.target) = FoldLeft(LAMBDA t, s : MergedInto(t, Tree(h, s), c.deep), start, sources)
        /\ \A r \in theirs : all.heap[r] = extending.heap[r]
        /\ c.deep => Literals(all.heap, all.target) \cap theirs = {}
=============================================================================
