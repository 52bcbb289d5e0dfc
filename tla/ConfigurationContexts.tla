----------------------- MODULE ConfigurationContexts -----------------------
(***************************************************************************)
(* What a configuration of a prediction carries besides its state: stacks  *)
(* that grow by calls and are merged, next to the sets of stacks they      *)
(* stand for; and tests that are put together and evaluated in any order,  *)
(* next to the calls in which they hold.                                   *)
(***************************************************************************)
EXTENDS PredictionContexts, FiniteSets

CONSTANTS
  NoContext,     \* nullptr: no tests so far, or tests that have been found false
  ReturnStates,
  MaxDepth,      \* bound: the depth of a stack, which is the sequence of its return states
  Precedences,   \* of calls and of tests
  Tests,         \* the tests that are the grammar's own
  MaxOperands    \* bound: tests put together in one context

VARIABLES
  local,         \* SLL prediction: the callers of the decision's rule are unknown
  context, stacks,
  other, otherStacks,
  sem, calls,    \* the tests, and the calls <<precedence, true tests>> in which they hold
  kept, keptIn,  \* others, put together before
  possible       \* the calls that are looked at

stackVars == << local, context, stacks, other, otherStacks >>
testVars  == << sem, calls, kept, keptIn, possible >>

-----------------------------------------------------------------------------
(* Stacks.                                                                 *)

IsPrefixOf(s, t) == Len(s) < Len(t) /\ SubSeq(t, 1, Len(s)) = s

\* Whatever called the rule: a stack that ends says no less than its
\* continuations.
Absorb(S) == {t \in S : ~ \E s \in S : IsPrefixOf(s, t)}

Depth(S) == Max({Len(s) : s \in S})

RECURSIVE StacksOf(_)
StacksOf(c) ==
  UNION {IF c[i].returnState = EMPTY_RETURN_STATE THEN {<< >>}
         ELSE {<< c[i].returnState >> \o s : s \in StacksOf(c[i].parent)} : i \in 1 .. Len(c)}

StackInit ==
  /\ local \in BOOLEAN
  /\ context = EMPTY /\ stacks = {<< >>}
  /\ other = EMPTY   /\ otherStacks = {<< >>}

Call(r) ==
  /\ Depth(stacks) < MaxDepth
  /\ context' = create(context, r)
  /\ stacks' = {<< r >> \o s : s \in stacks}
  /\ UNCHANGED << local, other, otherStacks >>

\* A prediction with the full context starts in a rule that is not called
\* again further up (the start rule `program' is not recursive), so that none
\* of its stacks is the end of another's.
Merge ==
  /\ ~ local => Absorb(stacks \cup otherStacks) = stacks \cup otherStacks
  /\ context' = merge(context, other, local)
  /\ stacks' = IF local THEN Absorb(stacks \cup otherStacks) ELSE stacks \cup otherStacks
  /\ UNCHANGED << local, other, otherStacks >>

Swap ==
  /\ context' = other /\ stacks' = otherStacks
  /\ other' = context /\ otherStacks' = stacks
  /\ UNCHANGED local

Restart ==
  /\ context' = EMPTY /\ stacks' = {<< >>}
  /\ UNCHANGED << local, other, otherStacks >>

StackNext == Merge \/ Swap \/ Restart \/ \E r \in ReturnStates : Call(r)

-----------------------------------------------------------------------------
(***************************************************************************)
(* SemanticContext of ANTLR's runtime: the tests a configuration of a      *)
(* prediction has passed or still has to pass.  Left-recursive rules, like *)
(* FleetLang's expr, test the precedence of the call they are in; a test   *)
(* of the grammar's own may or may not depend on the call it is made in.   *)
(* The operands of AND and OR are a set: the code holds them in a hash set *)
(* and copies them, in no particular order, to a vector.                   *)
(***************************************************************************)
NONE == [op |-> "none"]

PrecedencePredicate(n) == [op |-> "precedence", least |-> n]
Predicate(id)          == [op |-> "predicate", id |-> id]

OperandsOf(c, op) == IF c.op = op THEN c.operands ELSE {c}

\* The smallest of an AND's precedences, and the greatest of an OR's, is added
\* to the others, which already have it: filterPrecedencePredicates of this
\* runtime leaves its argument as it is.
AllOperands(op, a, b) == OperandsOf(a, op) \cup OperandsOf(b, op)

\* A context of one operand is that operand.
Combined(op, a, b) ==
  LET all == AllOperands(op, a, b)
  IN  IF Cardinality(all) = 1 THEN a ELSE [op |-> op, operands |-> all]

\* Mutant of And: a test that is always true decides for the other one too.
AndNone(a, b) ==
  IF a = NoContext THEN b
  ELSE IF b = NoContext THEN a
  ELSE IF NONE \in {a, b} THEN NONE
  ELSE Combined("and", a, b)

And(a, b) ==
  IF a \in {NoContext, NONE} THEN b
  ELSE IF b \in {NoContext, NONE} THEN a
  ELSE Combined("and", a, b)

Or(a, b) ==
  IF a = NoContext THEN b
  ELSE IF b = NoContext THEN a
  ELSE IF NONE \in {a, b} THEN NONE
  ELSE Combined("or", a, b)

\* Whether the context holds in a call with a precedence, where the grammar's
\* own tests `true' hold.
RECURSIVE eval(_, _, _)
eval(c, precedence, true) ==
  CASE c.op = "none"       -> TRUE
    [] c.op = "precedence" -> c.least >= precedence
    [] c.op = "predicate"  -> c.id \in true
    [] c.op = "and"        -> \A x \in c.operands : eval(x, precedence, true)
    [] c.op = "or"         -> \E x \in c.operands : eval(x, precedence, true)

\* One context from several, one pair after another.
RECURSIVE AndAll(_)
AndAll(S) ==
  LET x == CHOOSE y \in S : TRUE
  IN  IF S = {x} THEN x ELSE And(x, AndAll(S \ {x}))

RECURSIVE OrAll(_)
OrAll(S) ==
  LET x == CHOOSE y \in S : TRUE
  IN  IF S = {x} THEN x ELSE Or(x, OrAll(S \ {x}))

\* What is left to test once the precedence is known; NoContext if nothing can.
RECURSIVE evalPrecedence(_, _)

Evaluated(c, precedence) == {evalPrecedence(x, precedence) : x \in c.operands}

evalAnd(c, precedence) ==
  LET evaluated == Evaluated(c, precedence)
      left      == evaluated \ {NONE}
  IN  IF NoContext \in evaluated THEN NoContext
      ELSE IF evaluated = c.operands THEN c
      ELSE IF left = {} THEN NONE ELSE AndAll(left)

evalOr(c, precedence) ==
  LET evaluated == Evaluated(c, precedence)
      left      == evaluated \ {NoContext}
  IN  IF NONE \in evaluated THEN NONE
      ELSE IF evaluated = c.operands THEN c
      ELSE IF left = {} THEN NoContext ELSE OrAll(left)

evalPrecedence(c, precedence) ==
  CASE c.op = "precedence" -> IF c.least >= precedence THEN NONE ELSE NoContext
    [] c.op = "and"        -> evalAnd(c, precedence)
    [] c.op = "or"         -> evalOr(c, precedence)
    [] c.op \in {"none", "predicate"} -> c

-----------------------------------------------------------------------------
(* Tests, put together and evaluated.                                      *)

AllCalls == Precedences \X SUBSET Tests

Primitives == {NONE} \cup {PrecedencePredicate(n) : n \in Precedences} \cup {Predicate(t) : t \in Tests}

HoldsIn(c) == {call \in possible : eval(c, call[1], call[2])}

RECURSIVE Operands(_)
Operands(c) ==
  IF c.op \in {"and", "or"} THEN MapThenSumSet(Operands, c.operands) ELSE 1

TestInit ==
  /\ sem = NONE /\ calls = AllCalls
  /\ kept = NoContext /\ keptIn = {}
  /\ possible = AllCalls

\* The next context is started, the last one is kept.
Begin(c) ==
  /\ kept' = sem /\ keptIn' = calls
  /\ sem' = c /\ calls' = HoldsIn(c)
  /\ UNCHANGED possible

Conjoin ==
  /\ kept # NoContext
  /\ Operands(sem) + Operands(kept) <= MaxOperands
  /\ sem' = And(sem, kept) /\ calls' = calls \cap keptIn
  /\ UNCHANGED << kept, keptIn, possible >>

Disjoin ==
  /\ kept # NoContext
  /\ Operands(sem) + Operands(kept) <= MaxOperands
  /\ sem' = Or(sem, kept) /\ calls' = calls \cup keptIn
  /\ UNCHANGED << kept, keptIn, possible >>

\* The prediction turns out to be made in a call with this precedence.
Evaluate(precedence) ==
  /\ sem' = evalPrecedence(sem, precedence)
  /\ possible' = {call \in possible : call[1] = precedence}
  /\ calls' = calls \cap possible'
  /\ keptIn' = keptIn \cap possible'
  /\ UNCHANGED kept

TestNext ==
  /\ sem # NoContext
  /\ \/ Conjoin \/ Disjoin
     \/ \E c \in Primitives : Begin(c)
     \/ \E precedence \in {call[1] : call \in possible} : Evaluate(precedence)

-----------------------------------------------------------------------------
(* Properties of stacks.                                                   *)

\* A merged context stands for the stacks of both, no more and no less, up to
\* those that a shorter one already allows if the caller is unknown.
StacksMerged == StacksOf(context) = stacks

\* Return states are sorted and $ comes last, at every level: contexts with
\* the same stacks are equal, which is what decides whether two
\* configurations, and so two states of a DFA, are the same.
RECURSIVE Sorted(_)
Sorted(c) ==
  /\ \A i \in 1 .. Len(c) - 1 : c[i].returnState < c[i + 1].returnState
  /\ \A i \in 1 .. Len(c) : c[i].parent # Null => Sorted(c[i].parent)

ContextsSorted == Sorted(context) /\ (stacks = otherStacks => context = other)

\* The cache of merged contexts is looked up with the operands in either
\* order and is not emptied between the two stages of a prediction: a context
\* that was merged for the first may be found by the second.
CacheTransparent ==
  LET both == stacks \cup otherStacks
  IN  /\ Absorb(both) = both => merge(context, other, TRUE) = merge(context, other, FALSE)
      /\ local => merge(context, other, TRUE) = merge(other, context, TRUE)

-----------------------------------------------------------------------------
(* Properties of tests.                                                    *)

\* A context holds in the calls its operands say, however it was flattened and
\* reduced, and it is found false only if it holds in none.
TruthIsKept == IF sem = NoContext THEN calls = {} ELSE HoldsIn(sem) = calls

\* Tests of precedences are as good as one number, the greatest precedence at
\* which they hold, which is how Prediction writes them.
RECURSIVE Greatest(_)
Greatest(c) ==
  CASE c.op = "none"       -> 1000
    [] c.op = "precedence" -> c.least
    [] c.op = "and"        -> Min({Greatest(x) : x \in c.operands})
    [] c.op = "or"         -> Max({Greatest(x) : x \in c.operands})

RECURSIVE OnlyPrecedences(_)
OnlyPrecedences(c) ==
  /\ c.op # "predicate"
  /\ c.op \in {"and", "or"} => \A x \in c.operands : OnlyPrecedences(x)

NumberSuffices ==
  sem # NoContext /\ OnlyPrecedences(sem) => calls = {call \in possible : Greatest(sem) >= call[1]}
=============================================================================
