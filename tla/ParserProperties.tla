-------------------------- MODULE ParserProperties --------------------------
(***************************************************************************)
(* What the parser promises: about any input that it ends and tells        *)
(* programs from the rest, about a program that the tree is the one its    *)
(* grammar, read as a language reference, stands for.                      *)
(***************************************************************************)
EXTENDS Parser

\* Those of the inputs that the grammar derives.
Programs == {w \in Inputs : IsSentence(w)}

\* The parser reports no error exactly if the input is a sentence of the
\* grammar: neither prediction by lookahead (ParserATNSimulator::adaptivePredict),
\* nor its precedence filter and dropped loop entries, nor the recovery that
\* sync tries before every decision turns a program down or lets another through.
ErrorFreeIffSentence == tree # Null => (parser.errors = << >> <=> input \in Programs)

RECURSIVE Leaves(_)
Leaves(children) ==
  FlattenSeq([n \in DOMAIN children |->
    IF "token" \in DOMAIN children[n] THEN << children[n] >> ELSE Leaves(children[n].children)])

LeavesSoFar == FlattenSeq([f \in DOMAIN parser.frames |-> Leaves(parser.frames[f].children)])

\* At every moment the leaves of the contexts are the tokens up to the cursor,
\* each once and in order, whatever was deleted, made up or skipped on the way
\* (Parser::consume, pushNewRecursionContext, DefaultErrorStrategy::consumeUntil).
NoTokenLost ==
  LET taken == SelectSeq(LeavesSoFar, LAMBDA leaf : leaf.token \notin {0, Len(input)})
  IN  [n \in DOMAIN taken |-> taken[n].token] = [n \in 1 .. parser.cursor - 1 |-> n]

\* The first error is found no later than it can be: what lies before the
\* token it names is the start of some program.  (It may be found earlier:
\* getSynValidOrSemInvalidAlt ends a rule before a token that fits.)
FirstErrorNotLate ==
  tree # Null /\ parser.errors # << >> => CanStart(SubSeq(input, 1, parser.errors[1] - 1))

\* A tree with an error node comes with an error that main counts, and (as the
\* interpreter has it) the other way round: NewVisitor never sees a made-up token (main.cpp:56,
\* DefaultErrorStrategy::reportError is silent while it recovers).
ErrorsAreSeen ==
  tree # Null => (parser.errors = << >> <=> \A leaf \in ToSet(LeavesSoFar) : ~ leaf.error)

\* Errors are neither reported late nor kept quiet.
ErrorsReported == FirstErrorNotLate /\ ErrorsAreSeen

\* Recovery never goes round in circles: no more leaves are made up than the
\* parser has come to tokens (DefaultErrorStrategy.cpp:76-84, the failsafe).
RecoveryIsBounded ==
  Len(SelectSeq(LeavesSoFar, LAMBDA leaf : leaf.token = 0)) <= parser.cursor

-----------------------------------------------------------------------------
(* The tree of a program.                                                  *)

Parsed == tree # Null /\ parser.errors = << >>

IsLeaf(node) == "token" \in DOMAIN node
TypeOf(leaf) == input[leaf.token]
HasLeaf(node, n, type) == Len(node.children) >= n /\ IsLeaf(node.children[n]) /\ TypeOf(node.children[n]) = type

RECURSIVE NodesOf(_)
NodesOf(node) == IF IsLeaf(node) THEN {} ELSE {node} \cup UNION {NodesOf(node.children[n]) : n \in DOMAIN node.children}

Of(rule) == {node \in NodesOf(tree) : node.rule = rule}

\* The tighter an operator binds, the higher: "," < "+" < "*" < sign < the rest.
Tightness(e) ==
  CASE HasLeaf(e, 2, ",") -> 1
    [] HasLeaf(e, 2, "+") -> 2
    [] HasLeaf(e, 2, "*") -> 3
    [] HasLeaf(e, 1, "+") -> 4
    [] OTHER -> 5

\* The tree of an expression is the one its operators' precedences call for:
\* left to right among equals, the operands of the comma excepted, behind which
\* anything may follow (Parser::precpred, applyPrecedenceFilter,
\* canDropLoopEntryEdgeInLeftRecursiveRule, FleetLang.g4:53-61).
TightestFirst ==
  Parsed => \A e \in Of("expression") :
    /\ Tightness(e) \in {2, 3} => Tightness(e.children[1]) >= Tightness(e) /\ Tightness(e.children[3]) > Tightness(e)
    /\ Tightness(e) = 4        => Tightness(e.children[2]) >= 4

IsIf(statement)   == HasLeaf(statement, 1, "IF")
HasElse(ifStmt)   == Len(ifStmt.children) = 7

\* An `else' put behind the statement would belong to an `if' inside it.
RECURSIVE TakesElse(_)
TakesElse(statement) ==
  IsIf(statement) /\ (~ HasElse(statement) \/ TakesElse(Last(statement.children)))

\* An else belongs to the nearest if: the ambiguity in FleetLang.g4:34 is
\* resolved for the first alternative (PredictionMode::getSingleViableAlt).
NearestElse ==
  Parsed => \A s \in Of("statement") : IsIf(s) /\ HasElse(s) => ~ TakesElse(s.children[5])

\* FleetLang.g4:52 gives a call one argument after another,
\* `(args+=expression (',' args+=expression)*)?': none of them is itself a list
\* with commas outside parentheses.
ArgumentsAreSeparate ==
  Parsed => \A e \in Of("expression") :
    HasLeaf(e, 1, "ID") /\ HasLeaf(e, 2, "(") =>
      \A n \in DOMAIN e.children : IsLeaf(e.children[n]) \/ Tightness(e.children[n]) # 1
=============================================================================
