------------------------- MODULE PredictionContexts -------------------------
(***************************************************************************)
(* PredictionContext of ANTLR's runtime: the call stacks a prediction has  *)
(* to go on with, as a graph in which stacks share their callers.  A node  *)
(* is a sequence of return states with the graph of the callers of each.   *)
(* A node with one return state is a SingletonPredictionContext, one with  *)
(* more an ArrayPredictionContext, and EMPTY, which has no caller, is $.   *)
(*                                                                         *)
(* Nodes are compared by value, as their operator== does, so that nothing  *)
(* depends on which nodes are shared.                                      *)
(***************************************************************************)
EXTENDS Integers, Sequences, SequencesExt

CONSTANT Null

EMPTY_RETURN_STATE == 1000   \* larger than every state of the automaton

Entry(returnState, parent) == [returnState |-> returnState, parent |-> parent]

EMPTY                       == << Entry(EMPTY_RETURN_STATE, Null) >>
create(parent, returnState) == << Entry(returnState, parent) >>

IsSingleton(c) == Len(c) = 1

\* The stack of rule invocations, the innermost one first, each by the state
\* that follows it in its caller.
fromRuleContext(followStates) == FoldRight(LAMBDA r, c : create(c, r), followStates, EMPTY)

\* Mutant of Pack: the entries are not sorted.
PackUnsorted(a, b) == a \o b

\* The two entries that a pair of singletons is packed into.
Pack(a, b) == IF a[1].returnState > b[1].returnState THEN b \o a ELSE a \o b

\* Mutant of mergeRoot: $ is no wildcard, the caller is kept.
mergeRootNever(a, b, rootIsWildcard) == IF a = EMPTY \/ b = EMPTY THEN Pack(a, b) ELSE Null

\* Null if neither of them is $.
mergeRoot(a, b, rootIsWildcard) ==
  CASE (a = EMPTY \/ b = EMPTY) /\ (rootIsWildcard \/ a = b) -> EMPTY
    [] (a = EMPTY \/ b = EMPTY) /\ ~ rootIsWildcard /\ a # b -> Pack(a, b)
    [] OTHER -> Null

\* The cache of merged pairs and the cache of nodes give back what was
\* computed before for an equal pair or node.
RECURSIVE merge(_, _, _)

\* Mutant of Joined: the callers of the left operand are kept alone.
JoinedLeft(x, y, rootIsWildcard) == x

\* Two entries with the same return state become one.
Joined(x, y, rootIsWildcard) ==
  IF x.parent # Null /\ x.parent = y.parent THEN x
  ELSE Entry(x.returnState, merge(x.parent, y.parent, rootIsWildcard))

mergeSingletons(a, b, rootIsWildcard) ==
  IF mergeRoot(a, b, rootIsWildcard) # Null THEN mergeRoot(a, b, rootIsWildcard)
  ELSE IF a[1].returnState = b[1].returnState THEN << Joined(a[1], b[1], rootIsWildcard) >>
  ELSE Pack(a, b)

\* Both sequences are walked in the order of their return states.
RECURSIVE mergeArrays(_, _, _)
mergeArrays(a, b, rootIsWildcard) ==
  IF a = << >> THEN b
  ELSE IF b = << >> THEN a
  ELSE LET x == Head(a)
           y == Head(b)
       IN  CASE x.returnState = y.returnState ->
                  << Joined(x, y, rootIsWildcard) >> \o mergeArrays(Tail(a), Tail(b), rootIsWildcard)
             [] x.returnState < y.returnState -> << x >> \o mergeArrays(Tail(a), b, rootIsWildcard)
             [] x.returnState > y.returnState -> << y >> \o mergeArrays(a, Tail(b), rootIsWildcard)

merge(a, b, rootIsWildcard) ==
  IF a = b THEN a
  ELSE IF IsSingleton(a) /\ IsSingleton(b) THEN mergeSingletons(a, b, rootIsWildcard)
  ELSE IF rootIsWildcard /\ EMPTY \in {a, b} THEN EMPTY
  ELSE mergeArrays(a, b, rootIsWildcard)
=============================================================================
