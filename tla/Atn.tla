-------------------------------- MODULE Atn --------------------------------
(***************************************************************************)
(* The automaton that drives the parser: what is stored for the grammar,   *)
(* to which the runtime's ATNDeserializer adds the edges that leave a rule *)
(* and marks the loops of left-recursive rules.                            *)
(***************************************************************************)
EXTENDS Grammar, AtnLayout, PredictionContexts

CONSTANT states   \* what the deserializer makes of the grammar: Deserialized

EPSILON == "EPSILON"   \* in a set of tokens: the rule may end here

StartOf(name) == RuleStart(RuleIndex(name))
StopOf(name)  == RuleStop(RuleIndex(name))

Serialized == Laid(Rules)

\* An edge out of a rule.
Follow(to, outermost) == [on |-> "epsilon", to |-> to, outermost |-> outermost]

-----------------------------------------------------------------------------
(* What the deserializer adds.                                             *)

\* A rule stop state leads to whatever follows a call of the rule.  A call
\* with precedence 0 of a left-recursive rule is told from its inner ones.
Returns(atn, rule) ==
  LET start        == StartOf(rule)
      Calls(s)     == s \in DOMAIN atn /\ \E e \in ToSet(atn[s].edges) : e.on = "rule" /\ e.to = start
      callers      == SelectSeq([s \in 1 .. 100 * (Len(Rules) + 1) |-> s], Calls)
      Outermost(e) == IF rule \in LeftRecursive /\ e.precedence = 0 THEN rule ELSE Null
  IN  [n \in DOMAIN callers |-> LET e == atn[callers[n]].edges[1] IN Follow(e.follow, Outermost(e))]

Deserialize(atn) ==
  [s \in DOMAIN atn |->
     IF atn[s].kind = "RULE_STOP" THEN [atn[s] EXCEPT !.edges = Returns(atn, atn[s].rule)] ELSE atn[s]]

Deserialized == Deserialize(Serialized)

Targets(s) == {e.to : e \in ToSet(states[s].edges)}

\* The loop over the operators of a left-recursive rule: its exit ends the rule.
isPrecedenceDecision ==
  [s \in DOMAIN states |->
     /\ states[s].kind = "STAR_LOOP_ENTRY"
     /\ states[s].rule \in LeftRecursive
     /\ LET loopEnd == Last(states[s].edges).to
        IN  states[loopEnd].kind = "LOOP_END" /\ states[states[loopEnd].edges[1].to].kind = "RULE_STOP"]

IsStop(s)      == states[s].kind = "RULE_STOP"
IsDecision(s)  == states[s].kind \notin {"RULE_STOP", "BASIC"} /\ Len(states[s].edges) > 1
epsilonOnly(s) == states[s].edges # << >> /\ \A e \in ToSet(states[s].edges) : e.on # "symbol"

-----------------------------------------------------------------------------
(* One token of lookahead: LL1Analyzer.  A place is a state with the       *)
(* callers to return to, or Null if nothing is known of them.              *)

Place(s, ctx) == [state |-> s, ctx |-> ctx]

Onwards(c) ==
  IF IsStop(c.state)
  THEN IF c.ctx \in {Null, EMPTY} THEN {}
       ELSE {Place(x.returnState, x.parent) : x \in ToSet(c.ctx)}
  ELSE {Place(e.to, IF e.on = "rule" THEN create(c.ctx, e.follow) ELSE c.ctx) :
          e \in {e \in ToSet(states[c.state].edges) : e.on # "symbol"}}

RECURSIVE ReachedFrom(_, _)
ReachedFrom(todo, seen) ==
  IF todo = {} THEN seen
  ELSE ReachedFrom(UNION {Onwards(c) : c \in todo} \ (seen \cup todo), seen \cup todo)

\* What a place can start with.
Symbols(c) ==
  IF IsStop(c.state)
  THEN CASE c.ctx = Null -> {EPSILON} [] c.ctx = EMPTY -> {EOF} [] OTHER -> {}
  ELSE UNION {e.symbols : e \in {e \in ToSet(states[c.state].edges) : e.on = "symbol"}}

LOOK(s, ctx) == UNION {Symbols(c) : c \in ReachedFrom({Place(s, ctx)}, {})}

\* Within the rule: EPSILON if it may end.
nextTokens == [s \in DOMAIN states |-> LOOK(s, Null)]
=============================================================================
