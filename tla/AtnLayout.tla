----------------------------- MODULE AtnLayout -----------------------------
(***************************************************************************)
(* The automaton of a grammar, as ANTLR's tool stores it in the generated  *)
(* code: one edge at a time, each rule with a start and a stop state, and  *)
(* the states of blocks and loops that the runtime's classes are named     *)
(* after.  A state is a number, its edges are in the order of the          *)
(* alternatives.                                                           *)
(***************************************************************************)
EXTENDS Integers, Sequences, SequencesExt

-----------------------------------------------------------------------------
(* Grammars as data.  A rule is a sequence of elements, a grammar `rules'  *)
(* a sequence of rules, and a symbol is a token of the parser or, in a     *)
(* lexer's grammar, a character.                                           *)

OneOf(symbols)          == [op |-> "symbol", symbols |-> symbols]
Tok(type)               == OneOf({type})
Call(rule, precedence)  == [op |-> "rule", rule |-> rule, precedence |-> precedence]   \* rule: a number
Test(precedence)        == [op |-> "precedence", precedence |-> precedence]
Action(command)         == [op |-> "action", command |-> command]
Block(alternatives)     == [op |-> "block", alternatives |-> alternatives]
Optional(alternatives)  == [op |-> "optional", alternatives |-> alternatives]
Star(alternatives)      == [op |-> "star", alternatives |-> alternatives]
Lazy(alternatives)      == [op |-> "lazy", alternatives |-> alternatives]   \* *?
Plus(alternatives)      == [op |-> "plus", alternatives |-> alternatives]

-----------------------------------------------------------------------------
(* The language of a grammar, by its definition: where a sequence of       *)
(* elements that starts at the i-th symbol of w may end.  Precedences and  *)
(* laziness only choose between derivations.  At the end of w anything may *)
(* follow if `open'.                                                       *)

RECURSIVE Ends(_, _, _, _, _), EndsAny(_, _, _, _, _), EndsLoop(_, _, _, _, _)

EndsAny(rules, w, open, alternatives, i) ==
  UNION {Ends(rules, w, open, alternatives[a], i) : a \in DOMAIN alternatives}

\* Zero or more times.  Every iteration takes a symbol.
EndsLoop(rules, w, open, alternatives, i) ==
  {i} \cup UNION {EndsLoop(rules, w, open, alternatives, j) :
                    j \in EndsAny(rules, w, open, alternatives, i) \ {i}}

EndsElement(rules, w, open, e, i) ==
  CASE e.op = "symbol"                 -> IF i <= Len(w) /\ w[i] \in e.symbols THEN {i + 1} ELSE {}
    [] e.op = "rule"                   -> Ends(rules, w, open, rules[e.rule].body, i)
    [] e.op \in {"precedence", "action"} -> {i}
    [] e.op = "block"                  -> EndsAny(rules, w, open, e.alternatives, i)
    [] e.op = "optional"               -> {i} \cup EndsAny(rules, w, open, e.alternatives, i)
    [] e.op \in {"star", "lazy"}       -> EndsLoop(rules, w, open, e.alternatives, i)
    [] e.op = "plus"                   -> UNION {EndsLoop(rules, w, open, e.alternatives, j) :
                                                   j \in EndsAny(rules, w, open, e.alternatives, i)}

Ends(rules, w, open, elements, i) ==
  IF open /\ i > Len(w) THEN {i}
  ELSE IF elements = << >> THEN {i}
  ELSE UNION {Ends(rules, w, open, Tail(elements), j) : j \in EndsElement(rules, w, open, Head(elements), i)}

\* All of w is derived by the elements; some word that they derive starts with w.
Derives(rules, elements, w)      == Len(w) + 1 \in Ends(rules, w, FALSE, elements, 1)
DerivesFrom(rules, elements, w)  == Len(w) + 1 \in Ends(rules, w, TRUE, elements, 1)

-----------------------------------------------------------------------------
(* The states and edges of the automaton.                                  *)

State(kind, rule, edges) == [kind |-> kind, rule |-> rule, edges |-> edges]

Eps(to)              == [on |-> "epsilon", to |-> to]
SymEdge(symbols, to) == [on |-> "symbol", symbols |-> symbols, to |-> to]
PrecEdge(precedence, to)  == [on |-> "precedence", to |-> to, precedence |-> precedence]
ActionEdge(command, to)   == [on |-> "action", to |-> to, command |-> command]
RuleEdge(to, precedence, follow) == [on |-> "rule", to |-> to, precedence |-> precedence, follow |-> follow]

matches(e, symbol) == e.on = "symbol" /\ symbol \in e.symbols

\* Each rule has its own range of numbers: its start, its stop, its body.
RuleStart(n) == 100 * n + 1
RuleStop(n)  == 100 * n + 2

-----------------------------------------------------------------------------
(* From the grammar to states.  The states of an element are numbered from *)
(* `at' on and the first of them is where it starts; `to' is where it ends.*)

\* Behind the last token or call of an alternative there is a state of its own.
WithEnd(alternative) ==
  IF Last(alternative).op \in {"symbol", "rule", "action"} THEN Append(alternative, [op |-> "epsilon"]) ELSE alternative

RECURSIVE Size(_), SizeOfAll(_)
SizeOfAll(elements) == IF elements = << >> THEN 0 ELSE Size(Head(elements)) + SizeOfAll(Tail(elements))
SizeOfBlock(alternatives) ==
  2 + SizeOfAll(FlattenSeq([a \in DOMAIN alternatives |-> WithEnd(alternatives[a])]))

Size(e) ==
  CASE e.op \in {"symbol", "rule", "precedence", "action", "epsilon"} -> 1
    [] e.op \in {"block", "optional"} -> SizeOfBlock(e.alternatives)
    [] e.op \in {"star", "lazy"} -> SizeOfBlock(e.alternatives) + 3
    [] e.op = "plus" -> SizeOfBlock(e.alternatives) + 2

RECURSIVE Lay(_, _, _, _), LayElements(_, _, _, _), LayAlternatives(_, _, _, _)

LayElements(rule, elements, at, to) ==
  IF elements = << >> THEN << >>
  ELSE LET next == at + Size(Head(elements))
       IN  Lay(rule, Head(elements), at, IF Len(elements) = 1 THEN to ELSE next)
             \o LayElements(rule, Tail(elements), next, to)

LayAlternatives(rule, alternatives, at, to) ==
  IF alternatives = << >> THEN << >>
  ELSE LET first == WithEnd(Head(alternatives))
       IN  LayElements(rule, first, at, to) \o LayAlternatives(rule, Tail(alternatives), at + SizeOfAll(first), to)

\* The edges to where the alternatives start.
Starts(alternatives, at) ==
  [a \in DOMAIN alternatives |-> Eps(at + SizeOfBlock(SubSeq(alternatives, 1, a - 1)) - 2)]

\* An optional block has an edge that passes it by.
LayBlock(rule, kind, alternatives, at, to, optional) ==
  LET end == at + SizeOfBlock(alternatives) - 1
  IN  << State(kind, rule, Starts(alternatives, at + 1) \o IF optional THEN << Eps(end) >> ELSE << >>) >>
      \o LayAlternatives(rule, alternatives, at + 1, end)
      \o << State("BLOCK_END", rule, << Eps(to) >>) >>

\* entry -> block or loop end, block end -> loop back -> entry.  If it is lazy
\* the way out comes first.
LayStar(rule, alternatives, at, to, lazy) ==
  << IF lazy THEN State("LAZY_LOOP_ENTRY", rule, << Eps(at + 1), Eps(at + 3) >>)
             ELSE State("STAR_LOOP_ENTRY", rule, << Eps(at + 3), Eps(at + 1) >>),
     State("LOOP_END", rule, << Eps(to) >>),
     State("STAR_LOOP_BACK", rule, << Eps(at) >>) >>
  \o LayBlock(rule, "STAR_BLOCK_START", alternatives, at + 3, at + 2, FALSE)

\* block end -> loop back -> block or loop end.
LayPlus(rule, alternatives, at, to) ==
  LET back == at + SizeOfBlock(alternatives)
  IN  LayBlock(rule, "PLUS_BLOCK_START", alternatives, at, back, FALSE)
      \o << State("PLUS_LOOP_BACK", rule, << Eps(at), Eps(back + 1) >>), State("LOOP_END", rule, << Eps(to) >>) >>

Lay(rule, e, at, to) ==
  CASE e.op = "epsilon"    -> << State("BASIC", rule, << Eps(to) >>) >>
    [] e.op = "symbol"     -> << State("BASIC", rule, << SymEdge(e.symbols, to) >>) >>
    [] e.op = "action"     -> << State("BASIC", rule, << ActionEdge(e.command, to) >>) >>
    [] e.op = "rule"       -> << State("BASIC", rule, << RuleEdge(RuleStart(e.rule), e.precedence, to) >>) >>
    [] e.op = "precedence" -> << State("BASIC", rule, << PrecEdge(e.precedence, to) >>) >>
    [] e.op = "block"      -> LayBlock(rule, "BLOCK_START", e.alternatives, at, to, FALSE)
    [] e.op = "optional"   -> LayBlock(rule, "BLOCK_START", e.alternatives, at, to, TRUE)
    [] e.op = "star"       -> LayStar(rule, e.alternatives, at, to, FALSE)
    [] e.op = "lazy"       -> LayStar(rule, e.alternatives, at, to, TRUE)
    [] e.op = "plus"       -> LayPlus(rule, e.alternatives, at, to)

\* The n-th rule.
LayRule(n, r) ==
  LET stop == RuleStop(n)
  IN  << State("RULE_START", r.name, << Eps(stop + 1) >>), State("RULE_STOP", r.name, << >>) >>
      \o LayElements(r.name, WithEnd(r.body), stop + 1, stop)

\* The states of all rules.
Laid(rules) ==
  LET layout == [n \in DOMAIN rules |-> LayRule(n, rules[n])]
  IN  [s \in UNION {{100 * n + k : k \in DOMAIN layout[n]} : n \in DOMAIN rules} |-> layout[s \div 100][s % 100]]

-----------------------------------------------------------------------------
(* What ATNDeserializer asks of an automaton before it is used.            *)

BlockStart == {"BLOCK_START", "PLUS_BLOCK_START", "STAR_BLOCK_START"}
LoopEntry  == {"STAR_LOOP_ENTRY", "LAZY_LOOP_ENTRY"}
Decision   == BlockStart \cup LoopEntry \cup {"PLUS_LOOP_BACK"}

epsilonOnlyTransitions(state) == \A e \in ToSet(state.edges) : e.on # "symbol"

\* The state behind the n-th edge is of this kind.
LeadsTo(automaton, s, n, kind) == automaton[automaton[s].edges[n].to].kind = kind

\* Loop-back states are found by their edges.
loopBackStates(automaton, s) ==
  {b \in DOMAIN automaton :
     /\ << automaton[b].kind, automaton[s].kind >>
          \in {<< "PLUS_LOOP_BACK", "PLUS_BLOCK_START" >>} \cup ({"STAR_LOOP_BACK"} \X LoopEntry)
     /\ \E e \in ToSet(automaton[b].edges) : e.to = s}

verifyATN(automaton) ==
  \A s \in DOMAIN automaton :
    LET state == automaton[s]
    IN  /\ epsilonOnlyTransitions(state) \/ Len(state.edges) <= 1
        /\ state.kind = "PLUS_BLOCK_START" => loopBackStates(automaton, s) # {}
        /\ state.kind \in LoopEntry =>
             /\ loopBackStates(automaton, s) # {}
             /\ Len(state.edges) = 2
             /\ LET body == IF state.kind = "LAZY_LOOP_ENTRY" THEN 2 ELSE 1
                IN  /\ LeadsTo(automaton, s, body, "STAR_BLOCK_START")
                    /\ LeadsTo(automaton, s, 3 - body, "LOOP_END")
        /\ state.kind = "STAR_LOOP_BACK" =>
             Len(state.edges) = 1 /\ automaton[state.edges[1].to].kind \in LoopEntry
        /\ state.kind \notin Decision => Len(state.edges) <= 1 \/ state.kind = "RULE_STOP"
=============================================================================
