---------------------------- MODULE IntervalSets ----------------------------
(***************************************************************************)
(* IntervalSet and Interval of ANTLR's runtime: a set of token types or of *)
(* characters, kept as a sequence of intervals.  The parser keeps the      *)
(* tokens it expects in such sets; EOF is -1 and EPSILON is -2 in them.    *)
(* Behind the operations is a machine that applies them to one set in any  *)
(* order, next to the plain set of its elements.                           *)
(***************************************************************************)
EXTENDS Integers, Sequences, FiniteSets, SequencesExt

Interval(a, b) == [a |-> a, b |-> b]

startsBeforeDisjoint(x, r)   == x.a < r.a /\ x.b < r.a
startsAfterNonDisjoint(x, r) == x.a > r.a /\ x.a <= r.b
disjoint(x, r)               == startsBeforeDisjoint(x, r) \/ x.a > r.b
adjacent(x, r)               == x.a = r.b + 1 \/ x.b = r.a - 1
properlyContains(x, r)       == r.a >= x.a /\ r.b <= x.b
Union(x, r)                  == Interval(Min({x.a, r.a}), Max({x.b, r.b}))
intersection(x, r)           == Interval(Max({x.a, r.a}), Min({x.b, r.b}))

Touches(x, r) == adjacent(x, r) \/ ~ disjoint(x, r)

-----------------------------------------------------------------------------
(* Adding and removing.                                                    *)

\* Mutant of Absorbed: the loop that merges with the next intervals is missing.
AbsorbedNothing(s, i, bigger) == i

\* The last of the intervals behind the i-th one that the wider one touches.
Absorbed(s, i, bigger) ==
  Max({n \in i .. Len(s) : \A j \in i + 1 .. n : Touches(bigger, s[j])})

\* Each interval that is absorbed overwrites the union with the one before.
MergeAt(s, i, x) ==
  LET bigger == Union(x, s[i])
      last   == Absorbed(s, i, bigger)
      merged == IF last = i THEN bigger ELSE Union(bigger, s[last])
  IN  SubSeq(s, 1, i - 1) \o << merged >> \o SubSeq(s, last + 1, Len(s))

add(s, x) ==
  LET stops == {i \in 1 .. Len(s) : Touches(x, s[i]) \/ startsBeforeDisjoint(x, s[i])}
      i     == Min(stops)
  IN  IF x.b < x.a THEN s
      ELSE IF stops = {} THEN Append(s, x)
      ELSE IF x = s[i] THEN s
      ELSE IF Touches(x, s[i]) THEN MergeAt(s, i, x)
      ELSE InsertAt(s, i, x)

addAll(s, t) == FoldLeft(add, s, t)

Or(s, t) == addAll(addAll(<< >>, s), t)

\* Mutant of remove: the part behind the removed element is not put back.
removeTail(s, el) ==
  LET at == {i \in 1 .. Len(s) : s[i].a <= el /\ el <= s[i].b}
      i  == CHOOSE n \in at : TRUE
  IN  IF at = {} THEN s
      ELSE IF s[i] = Interval(el, el) THEN RemoveAt(s, i)
      ELSE IF el = s[i].a THEN [s EXCEPT ![i].a = @ + 1]
      ELSE [s EXCEPT ![i].b = el - 1]

remove(s, el) ==
  LET at == {i \in 1 .. Len(s) : s[i].a <= el /\ el <= s[i].b}
      i  == CHOOSE n \in at : TRUE
  IN  IF at = {} THEN s
      ELSE IF s[i] = Interval(el, el) THEN RemoveAt(s, i)
      ELSE IF el = s[i].a THEN [s EXCEPT ![i].a = @ + 1]
      ELSE IF el = s[i].b THEN [s EXCEPT ![i].b = @ - 1]
      ELSE add([s EXCEPT ![i].b = el - 1], Interval(el + 1, s[i].b))

-----------------------------------------------------------------------------
(* Difference and intersection walk both sequences at once.                *)

\* An interval that was not set has its default value; only its start is tested.
Unset    == Interval(-1, -2)
IsSet(x) == x.a > -1

RECURSIVE SubtractFrom(_, _, _, _)
SubtractFrom(s, i, t, j) ==
  IF i > Len(s) \/ j > Len(t) THEN s
  ELSE IF t[j].b < s[i].a THEN SubtractFrom(s, i, t, j + 1)
  ELSE IF t[j].a > s[i].b THEN SubtractFrom(s, i + 1, t, j)
  ELSE
    LET before == IF t[j].a > s[i].a THEN Interval(s[i].a, t[j].a - 1) ELSE Unset
        after  == IF t[j].b < s[i].b THEN Interval(t[j].b + 1, s[i].b) ELSE Unset
    IN  CASE IsSet(before) /\ IsSet(after) ->
               SubtractFrom(InsertAt([s EXCEPT ![i] = before], i + 1, after), i + 1, t, j + 1)
          [] IsSet(before) /\ ~ IsSet(after) -> SubtractFrom([s EXCEPT ![i] = before], i + 1, t, j)
          [] ~ IsSet(before) /\ IsSet(after) -> SubtractFrom([s EXCEPT ![i] = after], i, t, j + 1)
          [] OTHER -> SubtractFrom(RemoveAt(s, i), i, t, j)

subtract(s, t)   == IF s = << >> \/ t = << >> THEN s ELSE SubtractFrom(s, 1, t, 1)
complement(s, v) == subtract(v, s)

RECURSIVE AndFrom(_, _, _, _)
AndFrom(s, i, t, j) ==
  IF i > Len(s) \/ j > Len(t) THEN << >>
  ELSE
    LET mine   == s[i]
        theirs == t[j]
        both   == intersection(mine, theirs)
    IN  CASE startsBeforeDisjoint(mine, theirs) -> AndFrom(s, i + 1, t, j)
          [] startsBeforeDisjoint(theirs, mine) -> AndFrom(s, i, t, j + 1)
          [] ~ disjoint(mine, theirs) ->
               << both >> \o
                 IF \/ properlyContains(mine, theirs)
                    \/ ~ properlyContains(theirs, mine) /\ startsAfterNonDisjoint(mine, theirs)
                 THEN AndFrom(s, i, t, j + 1)
                 ELSE AndFrom(s, i + 1, t, j)

\* The intersections are added to a new set one by one.
And(s, t) == addAll(<< >>, AndFrom(s, 1, t, 1))

-----------------------------------------------------------------------------
(* Questions.                                                              *)

INVALID_TYPE == 0

contains(s, el) ==
  s # << >> /\ el >= s[1].a /\ \E i \in 1 .. Len(s) : s[i].a <= el /\ el <= s[i].b

isEmpty(s)          == s = << >>
getMaxElement(s)    == IF s = << >> THEN INVALID_TYPE ELSE s[Len(s)].b
getMinElement(s)    == IF s = << >> THEN INVALID_TYPE ELSE s[1].a
getSingleElement(s) == IF Len(s) = 1 /\ s[1].a = s[1].b THEN s[1].a ELSE INVALID_TYPE
size(s)             == FoldLeft(LAMBDA n, x : n + x.b - x.a + 1, 0, s)
toList(s)           == FlattenSeq([i \in 1 .. Len(s) |-> [n \in 1 .. s[i].b - s[i].a + 1 |-> s[i].a + n - 1]])
get(s, i)           == IF i < size(s) THEN toList(s)[i + 1] ELSE -1

-----------------------------------------------------------------------------
(* A set under any sequence of additions, removals and operations with a   *)
(* second set.                                                             *)

CONSTANT Largest   \* bound: the largest element; the smallest is EPSILON

EPSILON == -2
EOF     == -1

Elements == EPSILON .. Largest

VARIABLES
  intervals,   \* the interval set
  contents     \* what it should contain

vars == << intervals, contents >>

\* The set in the form every operation is supposed to leave.
Of(set) ==
  LET firsts == SetToSortSeq({e \in set : e - 1 \notin set}, <)
      lasts  == SetToSortSeq({e \in set : e + 1 \notin set}, <)
  IN  [i \in 1 .. Len(firsts) |-> Interval(firsts[i], lasts[i])]

Init == intervals = << >> /\ contents = {}

Add(a, b) ==
  /\ intervals' = add(intervals, Interval(a, b))
  /\ contents' = contents \cup a .. b

RemoveElement(el) ==
  /\ intervals' = remove(intervals, el)
  /\ contents' = contents \ {el}

AddAll(other) ==
  /\ intervals' = addAll(intervals, Of(other))
  /\ contents' = contents \cup other

Intersect(other) ==
  /\ intervals' = And(intervals, Of(other))
  /\ contents' = contents \cap other

\* complement, the only caller, takes a vocabulary of token types or
\* characters, so that neither EOF nor EPSILON is on its left.
Complement(vocabulary) ==
  /\ vocabulary \subseteq 0 .. Largest
  /\ intervals' = complement(intervals, Of(vocabulary))
  /\ contents' = vocabulary \ contents

Next ==
  \/ \E a, b \in Elements : Add(a, b)
  \/ \E el \in Elements : RemoveElement(el)
  \/ \E other \in SUBSET Elements : AddAll(other) \/ Intersect(other) \/ Complement(other)

Spec == Init /\ [][Next]_vars

-----------------------------------------------------------------------------
(* Properties.                                                             *)

\* However a set came about, its intervals are sorted, not empty and neither
\* overlap nor touch (operator== compares the intervals, contains and the
\* walks of And and subtract stop at the first one behind), and they hold
\* exactly the elements that were put in.
IntervalsCanonical == intervals = Of(contents)

\* Every question has the answer a plain set gives.
QuestionsAnswered ==
  /\ \A el \in Elements : contains(intervals, el) <=> el \in contents
  /\ isEmpty(intervals) <=> contents = {}
  /\ size(intervals) = Cardinality(contents)
  /\ contents # {} => getMaxElement(intervals) = Max(contents) /\ getMinElement(intervals) = Min(contents)
  /\ getSingleElement(intervals) # INVALID_TYPE => contents = {getSingleElement(intervals)}
  /\ \A i \in 0 .. Cardinality(contents) - 1 :
       Cardinality({e \in contents : e < get(intervals, i)}) = i
=============================================================================
