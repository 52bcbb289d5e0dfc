------------------------------- MODULE Parser -------------------------------
(***************************************************************************)
(* ANTLR's parser as ParserInterpreter runs it: one step of the automaton  *)
(* at a time.  It stands for the generated parser, which is not in the     *)
(* repository; after recover() that one leaves the rule with its state     *)
(* where the error was, and adds no leaf if recovery took no token.        *)
(* It builds the parse tree that NewVisitor reads, and counts the errors   *)
(* that main asks for.  DefaultErrorStrategy decides                       *)
(* what it does when the next token does not fit: drop it, pretend that a  *)
(* missing one was there, or give the rule up and skip to a token that     *)
(* some caller can go on with.                                             *)
(***************************************************************************)
EXTENDS Prediction

CONSTANTS
  InputMismatch, NoViableAlt, FailedPredicate,   \* the exceptions
  Inputs   \* the sequences of tokens, each with its end of file, to parse

-----------------------------------------------------------------------------
(* DefaultErrorStrategy.  w is the sequence of the tokens that the parser  *)
(* can see, the end of file last, p is the parser.                         *)

\* state: of the automaton.  frames: the contexts of the rules that are being
\* parsed, the current one last, each with the state that called it (0 for
\* the start rule) and its children so far.  errors: the offending tokens of
\* the errors that were reported.
NewParser(start) ==
  [state |-> StartOf(start), cursor |-> 1, precedences |-> << 0 >>,
   frames |-> << [rule |-> start, invokingState |-> 0, children |-> << >>] >>,
   errorRecoveryMode |-> FALSE, lastErrorIndex |-> -1, lastErrorStates |-> {}, errors |-> << >>]

LA(w, p, k) == w[IF p.cursor + k - 1 > Len(w) THEN Len(w) ELSE p.cursor + k - 1]

Context(p) == Last(p.frames)

\* Where the callers go on, the innermost first.
Follows(p) ==
  LET n == Len(p.frames)
  IN  [k \in 1 .. n - 1 |-> states[p.frames[n - k + 1].invokingState].edges[1].follow]

addChild(p, child) == [p EXCEPT !.frames[Len(p.frames)].children = Append(@, child)]

\* A leaf of the tree is a token of the input or one that was made up.
Leaf(index, error) == [token |-> index, error |-> error]
MadeUp             == Leaf(0, TRUE)

\* Mutant of consume: no error node for a token that is skipped.
consumeUnseen(w, p) ==
  [(IF p.errorRecoveryMode THEN p ELSE addChild(p, Leaf(p.cursor, FALSE))) EXCEPT !.cursor = NextIndex(w, @)]

\* The end of file stays where it is, but becomes a leaf every time.
consume(w, p) ==
  [addChild(p, Leaf(p.cursor, p.errorRecoveryMode)) EXCEPT !.cursor = NextIndex(w, @)]

reportMatch(p) == [p EXCEPT !.errorRecoveryMode = FALSE, !.lastErrorIndex = -1]

\* Nothing is reported until a token has been matched after the last error.
report(p, index) ==
  IF p.errorRecoveryMode THEN p
  ELSE [p EXCEPT !.errorRecoveryMode = TRUE, !.errors = Append(@, index)]

\* With the callers, as long as their rules may end too.
RECURSIVE ExpectedAfter(_, _)
ExpectedAfter(s, follows) ==
  IF EPSILON \notin nextTokens[s] THEN nextTokens[s]
  ELSE (nextTokens[s] \ {EPSILON})
         \cup (IF follows = << >> THEN {EOF} ELSE ExpectedAfter(Head(follows), Tail(follows)))

getExpectedTokens(p) == ExpectedAfter(p.state, Follows(p))

getErrorRecoverySet(p) == UNION {nextTokens[s] : s \in ToSet(Follows(p))} \ {EPSILON}

RECURSIVE consumeUntil(_, _, _)
consumeUntil(w, p, set) ==
  IF LA(w, p, 1) \in set \cup {EOF} THEN p ELSE consumeUntil(w, consume(w, p), set)

\* What a step came to: the parser and the exception, or none.
Done(p)               == [parser |-> p, thrown |-> Null, index |-> Null]
Throw(p, what, index) == [parser |-> p, thrown |-> what, index |-> index]

CanDelete(w, p) == LA(w, p, 2) \in getExpectedTokens(p)

\* Mutant of singleTokenDeletion: the token is dropped without a word.
deleteSilently(w, p) == reportMatch(consume(w, [p EXCEPT !.errorRecoveryMode = TRUE]))

\* The token after this one is what was expected.
singleTokenDeletion(w, p) == reportMatch(consume(w, report(p, p.cursor)))

\* This one is expected after the one that is missing.
CanInsert(w, p) == LA(w, p, 1) \in LOOK(states[p.state].edges[1].to, fromRuleContext(Follows(p)))

\* Mutant of singleTokenInsertion: the missing token is not reported.
insertSilently(p) == addChild(p, MadeUp)

singleTokenInsertion(p) == addChild(report(p, p.cursor), MadeUp)

recoverInline(w, p) ==
  IF CanDelete(w, p) THEN Done(consume(w, singleTokenDeletion(w, p)))
  ELSE IF CanInsert(w, p) THEN Done(singleTokenInsertion(p))
  ELSE Throw(p, InputMismatch, p.cursor)

\* Before a decision: is the next token one of those it can start with?
sync(w, p) ==
  IF p.errorRecoveryMode \/ nextTokens[p.state] \cap {EPSILON, LA(w, p, 1)} # {} THEN Done(p)
  ELSE IF states[p.state].kind = "PLUS_LOOP_BACK"
  THEN Done(consumeUntil(w, report(p, p.cursor), getExpectedTokens(p) \cup getErrorRecoverySet(p)))
  ELSE IF CanDelete(w, p) THEN Done(singleTokenDeletion(w, p))
  ELSE Throw(p, InputMismatch, p.cursor)

\* Mutant of failsafe: the same error may be recovered from again and again.
failsafeNever(w, p) == p

\* A second error at the same token and state: at least that token goes.
failsafe(w, p) ==
  IF p.lastErrorIndex = p.cursor /\ p.state \in p.lastErrorStates THEN consume(w, p) ELSE p

recover(w, p) ==
  LET safe == failsafe(w, p)
  IN  consumeUntil(w, [safe EXCEPT !.lastErrorIndex = safe.cursor, !.lastErrorStates = @ \cup {p.state}],
                   getErrorRecoverySet(p))

-----------------------------------------------------------------------------
(* The parser.                                                             *)

VARIABLES
  input,   \* the tokens that the parser can see
  parser,  \* the parser, see NewParser
  tree     \* the parse tree, once there is one

vars == << input, parser, tree >>

Node(rule, children) == [rule |-> rule, children |-> children]

Init ==
  /\ input \in Inputs
  /\ parser = NewParser("program")
  /\ tree = Null

-----------------------------------------------------------------------------
(* The edges.                                                              *)

Goto(p, s) == [p EXCEPT !.state = s]

match(p, e) ==
  LET r == IF matches(e, LA(input, p, 1))
           THEN Done(consume(input, reportMatch(p)))
           ELSE recoverInline(input, p)
  IN  [r EXCEPT !.parser.state = IF r.thrown = Null THEN e.to ELSE @]

\* Mutant of enterRule: the precedence of the call is not set.
enterRuleAtZero(p, e) ==
  Goto([p EXCEPT
          !.frames      = Append(@, [rule |-> states[e.to].rule, invokingState |-> p.state, children |-> << >>]),
          !.precedences = IF states[e.to].rule \in LeftRecursive THEN Append(@, 0) ELSE @], e.to)

enterRule(p, e) ==
  Goto([p EXCEPT
          !.frames      = Append(@, [rule |-> states[e.to].rule, invokingState |-> p.state, children |-> << >>]),
          !.precedences = IF states[e.to].rule \in LeftRecursive THEN Append(@, e.precedence) ELSE @], e.to)

\* What has been parsed becomes the first child: a left operand.
pushNewRecursionContext(p) ==
  [p EXCEPT !.frames[Len(p.frames)].children = << Node(Context(p).rule, @) >>]

\* Around the loop over the operators once more.
EntersLoop(p, e) == isPrecedenceDecision[p.state] /\ states[e.to].kind # "LOOP_END"

Follow_(p, e) ==
  CASE e.on = "symbol"     -> match(p, e)
    [] e.on = "rule"       -> Done(enterRule(p, e))
    [] e.on = "epsilon"    -> Done(Goto(IF EntersLoop(p, e) THEN pushNewRecursionContext(p) ELSE p, e.to))
    [] e.on = "precedence" -> IF e.precedence >= Last(p.precedences)
                              THEN Done(Goto(p, e.to))
                              ELSE Throw(p, FailedPredicate, p.cursor)

-----------------------------------------------------------------------------
(* The steps.                                                              *)

predict(p) == adaptivePredict(p.state, input, p.cursor, Last(p.precedences), Follows(p))

visitState(p) ==
  LET Take(q, chosen) ==
        IF chosen.alt = 0 THEN Throw(q, NoViableAlt, chosen.offending)
        ELSE Follow_(q, states[q.state].edges[chosen.alt])
      Decide(synced) == IF synced.thrown # Null THEN synced ELSE Take(synced.parser, predict(synced.parser))
  IN  IF IsDecision(p.state) THEN Decide(sync(input, p)) ELSE Follow_(p, states[p.state].edges[1])

\* The rule is given up: its stop state comes next.  A node for which recovery
\* took no token gets one that is made up.  Both are the interpreter's own.
handle(r) ==
  LET reported == report(Goto(r.parser, StopOf(states[parser.state].rule)), r.index)
      after    == recover(input, reported)
  IN  IF after.cursor = reported.cursor THEN addChild(after, MadeUp) ELSE after

Visit ==
  /\ ~ IsStop(parser.state)
  /\ LET Settled(r) == IF r.thrown = Null THEN r.parser ELSE handle(r)
     IN  parser' = Settled(visitState(parser))
  /\ UNCHANGED << input, tree >>

\* Mutant of exitRule: the precedence of the call is kept.
exitRuleKeeping(p) == [p EXCEPT !.frames = Front(@)]

exitRule(p) ==
  [p EXCEPT !.frames      = Front(@),
            !.precedences = IF Context(p).rule \in LeftRecursive THEN Front(@) ELSE @]

\* Back to the caller, with the rule's tree.
visitRuleStopState ==
  /\ IsStop(parser.state) /\ Len(parser.frames) > 1
  /\ LET done == Context(parser)
     IN  parser' = Goto(addChild(exitRule(parser), Node(done.rule, done.children)),
                        states[done.invokingState].edges[1].follow)
  /\ UNCHANGED << input, tree >>

Finish ==
  /\ IsStop(parser.state) /\ Len(parser.frames) = 1 /\ tree = Null
  /\ tree' = Node("program", Context(parser).children)
  /\ UNCHANGED << input, parser >>

Next == Visit \/ visitRuleStopState \/ Finish

\* parse is a loop that nothing interrupts, so this is WF_vars(Next): a step
\* is enabled until there is a tree.
Progress == []<>(tree # Null) \/ []<><< TRUE >>_vars

Spec == Init /\ [][Next]_vars /\ Progress
=============================================================================
