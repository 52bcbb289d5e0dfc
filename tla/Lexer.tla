------------------------------- MODULE Lexer -------------------------------
(***************************************************************************)
(* Lexer and LexerATNSimulator: from characters to tokens.  All rules of   *)
(* the lexer are followed at once, as far as any of them goes; the longest *)
(* match is taken, and of several the first rule's.                        *)
(*                                                                         *)
(* The rules are a fragment of FleetLang's: those that start alike, end    *)
(* optionally, are lazy, call a fragment or hide their token.  Characters  *)
(* that the rules do not tell apart are one of them.                       *)
(*                                                                         *)
(* Sets of configurations become the states of a DFA, which is asked       *)
(* before anything is computed again.  Indices count from 0, as in the     *)
(* code.                                                                   *)
(***************************************************************************)
EXTENDS AtnLayout, PredictionContexts

CONSTANT lexerStates   \* what the deserializer makes of the rules: LexerAutomaton

Letters == {"i", "f", "e"}
Other   == {"#"}                \* no rule has it outside strings and comments
Chars   == Letters \cup Other \cup {"_", "1", ".", "=", "!", "/", "*", "\"", "\\", " ", "\n"}

EOF == "EOF"   \* what LA returns at the end

Digits   == Plus(<< << OneOf({"1"}) >> >>)
Exponent == Optional(<< << OneOf({"e"}), Digits >> >>)

STRING_CHARACTER == 13   \* the fragment, behind the rules for tokens

LexerRules ==
  << [name |-> "IF",       body |-> << Tok("i"), Tok("f") >>],
     [name |-> "ASSIGN",   body |-> << Tok("=") >>],
     [name |-> "EQUALS",   body |-> << Tok("="), Tok("=") >>],
     [name |-> "NOT_EQUALS", body |-> << Tok("!"), Tok("=") >>],
     [name |-> "DIVIDE",   body |-> << Tok("/") >>],
     [name |-> "ID",       body |-> << Optional(<< << Tok("_") >> >>), OneOf(Letters),
                                       Star(<< << OneOf(Letters \cup {"_", "1"}) >> >>) >>],
     [name |-> "FLOAT_LIT",  body |-> << Star(<< << Tok("1") >> >>), Tok("."), Digits, Exponent, Tok("f") >>],
     [name |-> "DOUBLE_LIT", body |-> << Star(<< << Tok("1") >> >>), Tok("."), Digits, Exponent >>],
     [name |-> "STRING_LIT", body |-> << Tok("\""), Star(<< << Call(STRING_CHARACTER, 0) >> >>), Tok("\"") >>],
     [name |-> "WS",       body |-> << Plus(<< << OneOf({" ", "\n"}) >> >>), Action("skip") >>],
     [name |-> "COMMENT",  body |-> << Tok("/"), Tok("*"), Lazy(<< << OneOf(Chars) >> >>), Tok("*"), Tok("/"),
                                       Action("hidden") >>],
     [name |-> "LINE_COMMENT", body |-> << Tok("/"), Tok("/"), Star(<< << OneOf(Chars \ {"\n"}) >> >>),
                                           Action("hidden") >>],
     [name |-> "StringCharacter", body |-> << Block(<< << OneOf(Chars \ {"\"", "\\"}) >>,
                                                      << Tok("\\"), OneOf({"f", "\"", "\\"}) >> >>) >>] >>

Tokens == 1 .. STRING_CHARACTER - 1

LexerAutomaton == Laid(LexerRules)

-----------------------------------------------------------------------------
(* The closure.  Configurations are kept in the order of the rules and,    *)
(* within a rule, of its alternatives.  What is collected on the way is    *)
(* the sequence and whether the rule has come to its end.                  *)

LexerATNConfig(s, alt) == [state |-> s, alt |-> alt, context |-> EMPTY, command |-> "none", nonGreedy |-> FALSE]

Collected(configs, ended) == [configs |-> configs, ended |-> ended]

addOnce(configs, c) == IF c \in ToSet(configs) THEN configs ELSE Append(configs, c)

Ended(c)    == lexerStates[c.state].kind = "RULE_STOP" /\ c.context = EMPTY
ByEpsilon(s) == \A e \in ToSet(lexerStates[s].edges) : e.on # "symbol"

\* Commands in a rule that was called are ignored.
NextBy(c, e) ==
  [c EXCEPT !.state     = e.to,
            !.context   = IF e.on = "rule" THEN create(@, e.follow) ELSE @,
            !.command   = IF e.on = "action" /\ c.context = EMPTY THEN e.command ELSE @,
            !.nonGreedy = @ \/ lexerStates[e.to].kind = "LAZY_LOOP_ENTRY"]

\* No rule of the grammar goes on at the end of file.
getEpsilonTargets(c) ==
  LET edges == SelectSeq(lexerStates[c.state].edges, LAMBDA e : e.on # "symbol")
  IN  [n \in DOMAIN edges |-> NextBy(c, edges[n])]

\* Once a rule has ended, what a lazy loop in it would go on with is dropped.
Kept(c, soFar) ==
  IF ByEpsilon(c.state) \/ (soFar.ended /\ c.nonGreedy) THEN soFar
  ELSE [soFar EXCEPT !.configs = addOnce(@, c)]

RECURSIVE closure(_, _), closureAll(_, _)

closureAll(cs, soFar) == IF cs = << >> THEN soFar ELSE closureAll(Tail(cs), closure(Head(cs), soFar))

closure(c, soFar) ==
  IF Ended(c) THEN Collected(addOnce(soFar.configs, c), TRUE)
  ELSE IF lexerStates[c.state].kind = "RULE_STOP"
  THEN closure([c EXCEPT !.state = c.context[1].returnState, !.context = c.context[1].parent], soFar)
  ELSE closureAll(getEpsilonTargets(c), Kept(c, soFar))

computeStartState ==
  LET upTo[n \in 0 .. STRING_CHARACTER - 1] ==
        IF n = 0 THEN << >>
        ELSE closure(LexerATNConfig(RuleStart(n), n), Collected(upTo[n - 1], FALSE)).configs
  IN  upTo[STRING_CHARACTER - 1]

\* One character on.  skipAlt: the rule whose end has been reached by a
\* configuration before.
Reached(c, t, acc) ==
  LET ended == c.alt = acc.skipAlt
      taken == SelectSeq(lexerStates[c.state].edges, LAMBDA e : matches(e, t))
      got   == closure(NextBy(c, taken[1]), Collected(acc.configs, ended))
  IN  IF taken = << >> \/ (ended /\ c.nonGreedy) THEN acc
      ELSE [configs |-> got.configs, skipAlt |-> IF got.ended THEN c.alt ELSE acc.skipAlt]

getReachableConfigSet(configs, t) ==
  FoldLeft(LAMBDA acc, c : Reached(c, t, acc), [configs |-> << >>, skipAlt |-> 0], configs).configs

-----------------------------------------------------------------------------
(* The match.  `at' is a position: an index with its line and column.      *)

Start == [index |-> 0, line |-> 1, column |-> 0]

LA(text, at) == IF at.index < Len(text) THEN text[at.index + 1] ELSE EOF

consume(text, at) ==
  [index  |-> at.index + 1,
   line   |-> IF LA(text, at) = "\n" THEN at.line + 1 ELSE at.line,
   column |-> IF LA(text, at) = "\n" THEN 0 ELSE at.column + 1]

Nothing == [alt |-> 0, command |-> "none", at |-> Start]

\* The first configuration at the end of its rule decides.
firstConfigWithRuleStopState(configs) ==
  LET ends == SelectSeq(configs, Ended) IN IF ends = << >> THEN Null ELSE ends[1]

captureSimState(configs, prevAccept, at) ==
  LET first == firstConfigWithRuleStopState(configs)
  IN  IF first = Null THEN prevAccept ELSE [alt |-> first.alt, command |-> first.command, at |-> at]

\* Mutant of failOrAccept: the text goes on where the scan came to a stop.
acceptHere(prevAccept, at) == [prevAccept EXCEPT !.at = at]

\* Mutant of failOrAccept: line and column stay where the scan came to a stop.
acceptIndex(prevAccept, at) ==
  [prevAccept EXCEPT !.at = [at EXCEPT !.index = IF prevAccept.alt = 0 THEN @ ELSE prevAccept.at.index]]

\* The text goes on behind the match.  Without one it goes on where the scan
\* came to a stop: failing does not take it back.
failOrAccept(prevAccept, at) == IF prevAccept.alt = 0 THEN [prevAccept EXCEPT !.at = at] ELSE prevAccept

-----------------------------------------------------------------------------
(* The DFA.  A state is a number, its place in `states'.                   *)

ERROR == 0   \* the state from which nothing matches

NewDFA == [s0 |-> Null, states |-> << >>, edges |-> << >>]

\* Edges on characters above 127, which the other characters stand for, and on
\* the end of file are not kept.
BeyondEdges == Other \cup {EOF}

\* Whether a set of configurations is found among the states.  operator==
\* compares neither the command nor whether a lazy loop was passed, since that
\* of LexerATNConfig hides it and is not called; the hash code, which the table
\* compares first, takes in both.
SameState(a, b) == a = b

addDFAState(dfa, configs) ==
  LET same == {n \in DOMAIN dfa.states : SameState(dfa.states[n], configs)}
  IN  IF same # {} THEN [dfa |-> dfa, state |-> CHOOSE n \in same : TRUE]
      ELSE [dfa |-> [dfa EXCEPT !.states = Append(@, configs)], state |-> Len(dfa.states) + 1]

addDFAEdge(dfa, s, t, to) ==
  IF t \in BeyondEdges THEN dfa ELSE [dfa EXCEPT !.edges = @ @@ (<< s, t >> :> to)]

computeTargetState(dfa, s, t) ==
  LET reach == getReachableConfigSet(dfa.states[s], t)
      added == addDFAState(dfa, reach)
  IN  IF reach = << >> THEN [dfa |-> addDFAEdge(dfa, s, t, ERROR), state |-> ERROR]
      ELSE [added EXCEPT !.dfa = addDFAEdge(@, s, t, added.state)]

getExistingTargetState(dfa, s, t) ==
  IF << s, t >> \in DOMAIN dfa.edges THEN dfa.edges[<< s, t >>] ELSE Null

Target(dfa, s, t) ==
  LET existing == getExistingTargetState(dfa, s, t)
  IN  IF existing # Null THEN [dfa |-> dfa, state |-> existing] ELSE computeTargetState(dfa, s, t)

-----------------------------------------------------------------------------
(* From a state of the DFA as far as a rule goes.  Both return the match   *)
(* and the DFA as it is then.                                              *)

RECURSIVE execATN(_, _, _, _, _)
execATN(text, at, dfa, s, prevAccept) ==
  LET next == Target(dfa, s, LA(text, at))
      to   == consume(text, at)
  IN  IF next.state = ERROR THEN [found |-> failOrAccept(prevAccept, at), dfa |-> next.dfa]
      ELSE execATN(text, to, next.dfa, next.state,
                   captureSimState(next.dfa.states[next.state], prevAccept, to))

matchATN(text, at, dfa) ==
  LET added == addDFAState(dfa, computeStartState)
  IN  execATN(text, at, [added.dfa EXCEPT !.s0 = added.state], added.state,
              captureSimState(computeStartState, Nothing, at))

match(text, at, dfa) ==
  IF dfa.s0 = Null THEN matchATN(text, at, dfa)
  ELSE execATN(text, at, dfa, dfa.s0, captureSimState(dfa.states[dfa.s0], Nothing, at))
=============================================================================
