---------------------------- MODULE PollenArrays ----------------------------
(***************************************************************************)
(* The helpers Pollen gives to the code of a worker for arrays, as         *)
(* functions of their arguments.                                           *)
(***************************************************************************)
EXTENDS Integers, Sequences, FiniteSets, SequencesExt, Functions

CONSTANTS
  Elem,     \* elements of arrays
  Nothing,  \* those that are undefined, null or false
  MaxLength \* bound: lengths of arrays

ASSUME LengthsAreCounts == MaxLength \in Nat
ASSUME NothingIsElem == Nothing \subseteq Elem

VARIABLE input \* two arrays and the bounds of a slice, for the whole of a behaviour

Arrays == UNION {[1 .. n -> Elem] : n \in 0 .. MaxLength}
Bounds == [start : -MaxLength .. MaxLength, end : -MaxLength .. MaxLength, step : 1 .. 2]
NoBounds == [start |-> 0, end |-> 0, step |-> 1]

ArraysInit ==
  \/ input \in [a : Arrays, b : Arrays, bounds : {NoBounds}]
  \/ input \in [a : Arrays, b : {<<>>}, bounds : Bounds]

\* Pollen.array.unique
unique(arg) ==
  FoldLeft(LAMBDA ret, x : IF x \in ToSet(ret) THEN ret ELSE Append(ret, x), <<>>, arg)

\* Pollen.array.merge of two arrays
merge(a, b) == unique(a \o b)

\* Pollen.array.compact of an array
compact(arg) == SelectSeq(arg, LAMBDA x : x \notin Nothing)

\* Pollen.array.combine
combine(keys, values) ==
  FoldLeft(LAMBDA ret, i : [k \in DOMAIN ret \cup {keys[i]} |-> IF k = keys[i] THEN values[i] ELSE ret[k]],
           <<>>, [i \in DOMAIN keys |-> i])

Lesser(a, b) == IF a < b THEN a ELSE b
Greater(a, b) == IF a < b THEN b ELSE a

\* a bound that counts from the end, or beyond it
Clip(len, i) == IF i < 0 THEN Greater(0, i + len) ELSE Lesser(len, i)

\* slice of a query: an end of 0 is no end
slice(obj, b) ==
  LET len == Len(obj)
      start == Clip(len, b.start)
      end == Clip(len, IF b.end = 0 THEN len ELSE b.end)
      size == IF start < end THEN (end - start + b.step - 1) \div b.step ELSE 0
  IN  [k \in 1 .. size |-> obj[start + (k - 1) * b.step + 1]]

(***************************************************************************)
(* Properties.                                                             *)
(***************************************************************************)
\* The positions a slice means: as in the language JSONPath was made for, but
\* that an end of 0 is no end.
Meant(len, b) ==
  {i \in 1 .. len :
     /\ b.start < 0 => i > len + b.start
     /\ b.start >= 0 => i > b.start
     /\ b.end < 0 => i <= len + b.end
     /\ b.end > 0 => i <= b.end
     /\ (i - 1 - Clip(len, b.start)) % b.step = 0}

\* The helpers do what their comments say: merge keeps every element once, in
\* the order of its first place; compact keeps everything that is something;
\* combine gives every key its last value; a slice has the elements its bounds
\* mean, none twice and none from outside.
HelpersAgree ==
  LET a == input.a  b == input.b
      m == merge(a, b)  ab == a \o b
      First(x) == CHOOSE i \in DOMAIN ab : ab[i] = x /\ \A j \in 1 .. i - 1 : ab[j] # x
      positions == slice([i \in DOMAIN a |-> i], input.bounds)
  IN  /\ ToSet(m) = ToSet(ab) /\ \A i, j \in DOMAIN m : i < j => First(m[i]) < First(m[j])
      /\ \A x \in Elem : Cardinality({i \in DOMAIN compact(a) : compact(a)[i] = x})
                           = IF x \in Nothing THEN 0 ELSE Cardinality({i \in DOMAIN a : a[i] = x})
      /\ Len(a) = Len(b) =>
           \A i \in DOMAIN a : (\A j \in DOMAIN a : j > i => a[j] # a[i]) => combine(a, b)[a[i]] = b[i]
      /\ ToSet(positions) = Meant(Len(a), input.bounds) /\ IsInjective(positions)
=============================================================================
