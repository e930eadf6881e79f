---------------------------- MODULE QueryString -----------------------------
(***************************************************************************)
(* jQuery.param: the query string of a structure, as a sequence of pairs,  *)
(* each key being the sequence of its parts.                               *)
(***************************************************************************)
EXTENDS Naturals, Sequences, SequencesExt

CONSTANT Structures \* what param is given: scalars, [kind, items] of arrays
                    \* and [kind, keys, items] of objects

VARIABLE structure \* what it is given, for the whole of a behaviour

QueryInit == structure \in Structures

Scalar(v) == v.kind = "scalar"

\* buildParams: what is in an array has the key of the array and [], or its
\* index if it is a structure itself; under a key that ends in [] everything is
\* taken for a scalar
RECURSIVE BuildParams(_, _, _)
BuildParams(prefix, v, traditional) ==
  CASE v.kind = "array" ->
         FlattenSeq([i \in DOMAIN v.items |->
           IF traditional \/ Last(prefix) = "[]" THEN <<[name |-> prefix, value |-> v.items[i]]>>
           ELSE BuildParams(Append(prefix, IF Scalar(v.items[i]) THEN "[]" ELSE "[i]"), v.items[i], traditional)])
    [] v.kind = "object" /\ ~traditional ->
         FlattenSeq([i \in DOMAIN v.items |-> BuildParams(Append(prefix, v.keys[i]), v.items[i], traditional)])
    [] OTHER -> <<[name |-> prefix, value |-> v]>>

\* jQuery.param of an object
Param(object, traditional) ==
  FlattenSeq([i \in DOMAIN object.items |-> BuildParams(<<object.keys[i]>>, object.items[i], traditional)])

(***************************************************************************)
(* Properties                                                              *)
(***************************************************************************)
\* the scalars of a structure, in order
RECURSIVE Leaves(_)
Leaves(v) == IF Scalar(v) THEN <<v>> ELSE FlattenSeq([i \in DOMAIN v.items |-> Leaves(v.items[i])])

\* no key of the structure ends in []
RECURSIVE PlainKeys(_)
PlainKeys(v) ==
  Scalar(v) \/ /\ v.kind = "object" => "[]" \notin ToSet(v.keys)
               /\ \A i \in DOMAIN v.items : PlainKeys(v.items[i])

\* The query of a structure has every scalar of it, once and in order
\* (buildParams), unless one of its keys ends in [], under which what is not a
\* scalar is lost.
ParamKeepsScalars ==
  LET pairs == Param(structure, FALSE)
  IN  PlainKeys(structure) => [i \in DOMAIN pairs |-> pairs[i].value] = Leaves(structure)
=============================================================================
