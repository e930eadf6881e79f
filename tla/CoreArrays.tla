----------------------------- MODULE CoreArrays ------------------------------
(***************************************************************************)
(* What the rest of jQuery walks its lists with - each, map, grep, merge,  *)
(* inArray, makeArray and get - over arrays that the callback changes      *)
(* while they are walked.                                                  *)
(***************************************************************************)
EXTENDS Integers, Sequences, FiniteSets, SequencesExt, Functions

CONSTANTS
  Item,       \* elements of arrays
  Added,      \* an item that callbacks push
  NoItem,     \* undefined, and null
  MaxItems    \* bound: items of an array

ASSUME ItemsAreCounted == MaxItems \in Nat
ASSUME AddedIsItem == Added \in Item /\ NoItem \notin Item

VARIABLE sample \* an array, what the callback does and at which index, for the whole of a behaviour

ItemLists == UNION {[1 .. n -> Item] : n \in 0 .. MaxItems}
HoledLists == UNION {[1 .. n -> Item \cup {NoItem}] : n \in 0 .. MaxItems}
Deeds == {"nothing", "push", "shift", "stop"}

CoreInit ==
  sample \in [list : ItemLists, other : HoledLists, effect : Deeds, when : 0 .. MaxItems - 1]

\* what index i of a list holds, counted from 0
ItemAt(list, i) == IF i < Len(list) THEN list[i + 1] ELSE NoItem

\* what the callback leaves of the list when it is called with index i
Changed(list, i) ==
  CASE i # sample.when -> list
    [] i = sample.when /\ sample.effect = "push" -> Append(list, Added)
    [] i = sample.when /\ sample.effect = "shift" /\ list # <<>> -> Tail(list)
    [] OTHER -> list

StopsAt(i) == sample.effect = "stop" /\ i = sample.when

\* jQuery.each of a list: the items the callback is called with; the length is
\* read once
each(list) ==
  LET walk[i \in 0 .. Len(list)] ==
        IF i = 0 THEN [list |-> list, seen |-> <<>>, over |-> FALSE]
        ELSE LET w == walk[i - 1]
             IN  IF w.over THEN w
                 ELSE [list |-> Changed(w.list, i - 1),
                       seen |-> Append(w.seen, ItemAt(w.list, i - 1)),
                       over |-> StopsAt(i - 1)]
  IN  walk[Len(list)].seen

\* jQuery.grep with a callback that approves of some items: the item is read
\* again after that
grep(list, approved, inv) ==
  LET walk[i \in 0 .. Len(list)] ==
        IF i = 0 THEN [list |-> list, ret |-> <<>>]
        ELSE LET w == walk[i - 1]
                 after == Changed(w.list, i - 1)
             IN  [list |-> after,
                  ret |-> IF (ItemAt(w.list, i - 1) \in approved) # inv
                          THEN Append(w.ret, ItemAt(after, i - 1)) ELSE w.ret]
  IN  walk[Len(list)].ret

\* jQuery.map: what the callback gives for an item is a list, or nothing; the
\* lists are joined
map(list, gives) ==
  LET walk[i \in 0 .. Len(list)] ==
        IF i = 0 THEN [list |-> list, ret |-> <<>>]
        ELSE LET w == walk[i - 1]
             IN  [list |-> Changed(w.list, i - 1), ret |-> w.ret \o gives[ItemAt(w.list, i - 1)]]
  IN  walk[Len(list)].ret

\* jQuery.merge: of an object without a length, up to the first undefined
mergeInto(first, second, counted) ==
  LET end == SelectInSeq(second, LAMBDA x : x = NoItem)
  IN  first \o IF counted \/ end = 0 THEN second ELSE SubSeq(second, 1, end - 1)

\* jQuery.makeArray of a list, a single thing (a string, a function, a window) or null
makeArray(thing, results) ==
  CASE thing.kind = "null" -> results
    [] thing.kind = "single" -> Append(results, thing.value)
    [] thing.kind = "list" -> mergeInto(results, thing.value, TRUE)

\* jQuery.inArray
inArray(elem, list) == SelectInSeq(list, LAMBDA x : x = elem) - 1

\* jQuery.fn.get( num ) and jQuery.fn.eq( num ), by way of Array.slice
SliceFrom(list, num) == SubSeq(list, (IF num + Len(list) < 0 THEN 0 ELSE num + Len(list)) + 1, Len(list))
get(list, num) == IF num < 0 THEN ItemAt(SliceFrom(list, num), 0) ELSE ItemAt(list, num)

(***************************************************************************)
(* Properties.                                                             *)
(***************************************************************************)
Liked == {Added}
Doubled == [x \in Item \cup {NoItem} |-> IF x = Added THEN <<>> ELSE <<x, x>>]
Occurrences(list, x) == Cardinality({i \in DOMAIN list : list[i] = x})

\* each shows the callback the items of the list in their order, up to where it
\* stops, and never one it has pushed; if the callback takes the first item
\* away the next one is skipped and the walk ends on nothing.  grep and its
\* inverse share the items out between them; map gives what its callback gives
\* for each item, in order.  Both need a list that keeps its items: grep keeps
\* an item it has not asked for if the callback takes one away.
WalksAreWhole ==
  LET list == sample.list  when == sample.when  n == Len(list)
      seen == each(list)
      kept == grep(list, Liked, FALSE)
      left == grep(list, Liked, TRUE)
  IN  /\ seen = IF when >= n - 1 \/ sample.effect \in {"nothing", "push"} THEN list
                ELSE IF sample.effect = "stop" THEN SubSeq(list, 1, when + 1)
                ELSE SubSeq(list, 1, when + 1) \o SubSeq(list, when + 3, n) \o <<NoItem>>
      /\ sample.effect # "shift" =>
           /\ \A x \in Item : Occurrences(kept, x) + Occurrences(left, x) = Occurrences(list, x)
           /\ \A i \in DOMAIN kept : kept[i] \in Liked
           /\ map(list, Doubled) = FlattenSeq([i \in DOMAIN list |-> Doubled[list[i]]])

\* merge counts where it can, and else ends where the list does; an item is
\* found where get finds it, and get counts from the end as it does from the
\* start, but that before the first it finds the first.
ListsAgree ==
  LET list == sample.list  n == Len(list)
      whole == makeArray([kind |-> "list", value |-> sample.other], list)
  IN  /\ whole = mergeInto(list, sample.other, FALSE) <=> NoItem \notin ToSet(sample.other)
      /\ \A i \in 0 .. n - 1 : get(list, i) = get(list, i - n)
      /\ \A i \in 0 .. n : get(list, -n - i) = get(list, 0)
      /\ \A x \in Item :
           /\ inArray(x, list) = -1 <=> x \notin ToSet(list)
           /\ inArray(x, list) # -1 => get(list, inArray(x, list)) = x
           /\ inArray(x, whole) = IF x \in ToSet(list) THEN inArray(x, list)
                                  ELSE IF x \in ToSet(sample.other) THEN n + inArray(x, sample.other) ELSE -1
=============================================================================
