----------------------------- MODULE Prediction -----------------------------
(***************************************************************************)
(* ParserATNSimulator: which alternative of a decision to take.  All       *)
(* alternatives are followed at once, as configurations (a state of the    *)
(* automaton, an alternative and a graph of callers), token by token until *)
(* one alternative is left.  The first attempt, SLL, does not look at the  *)
(* callers of the rule; if it finds a conflict, a second one, LL, starts   *)
(* over with the parser's own stack.                                       *)
(*                                                                         *)
(* The predictions come twice: as they are when each starts afresh, and    *)
(* with the DFA in which the code remembers the configurations of the      *)
(* first attempt.                                                          *)
(***************************************************************************)
EXTENDS Atn, TLC

NONE == 1000   \* no predicate: it holds at every precedence

\* sem: the largest precedence at which the configuration is still alive.
\* depth: the rules that were entered less those that were left, within one
\* closure; -1 once the rule of the decision has been left.
\* outer: reachesIntoOuterContext is not 0.
ATNConfig(s, alt, context) ==
  [state |-> s, alt |-> alt, context |-> context, sem |-> NONE, depth |-> 0, outer |-> FALSE, suppressed |-> FALSE]

Alts(configs) == {c.alt : c \in configs}

\* SemanticContext: tests in a row hold if the one of the smallest precedence
\* does, one of several if the one of the largest.
And(sem, precedence) == IF precedence < sem THEN precedence ELSE sem
Or(sems)             == Max(sems)

hasEmptyPath(context) == \E x \in ToSet(context) : x.returnState = EMPTY_RETURN_STATE

-----------------------------------------------------------------------------
(* ATNConfigSet: one configuration for a state, an alternative and a       *)
(* predicate.                                                              *)

RECURSIVE MergeAll(_, _)
MergeAll(contexts, rootIsWildcard) ==
  LET one == CHOOSE c \in contexts : TRUE
  IN  IF contexts = {one} THEN one ELSE merge(one, MergeAll(contexts \ {one}, rootIsWildcard), rootIsWildcard)

Merged(same, rootIsWildcard) ==
  [(CHOOSE c \in same : TRUE) EXCEPT
     !.context    = MergeAll({c.context : c \in same}, rootIsWildcard),
     !.depth      = 0,
     !.outer      = \E c \in same : c.outer,
     !.suppressed = \E c \in same : c.suppressed]

ConfigSet(configs, full) ==
  LET Like(c) == {d \in configs : d.state = c.state /\ d.alt = c.alt /\ d.sem = c.sem}
  IN  {Merged(same, ~ full) : same \in {Like(c) : c \in configs}}

-----------------------------------------------------------------------------
(* The closure: everything that is reached without taking a token.  m is   *)
(* what all steps of it share: the attempt, whether predicates are         *)
(* collected, whether the end of file has been seen, the decision and the  *)
(* precedence of the rule that is being parsed.                            *)

Mode(full, collect, eof, decision, precedence) ==
  [full |-> full, collect |-> collect, eof |-> eof, decision |-> decision, precedence |-> precedence]

Outwards(depth) == IF depth >= 0 THEN depth - 1 ELSE depth

\* The return state leads back to the loop p over the operators of its own
\* rule without a token: a call there may be left to the caller's own loop.
LeadsBack(r, p) ==
  LET to       == states[r].edges[1].to
      BlockEnd == {s \in DOMAIN states : states[s].kind = "BLOCK_END"}
      LoopBlockEnd     == {s \in BlockEnd : \E back \in Targets(s) : p \in Targets(back)}
  IN  /\ states[r].rule = states[p].rule
      /\ Len(states[r].edges) = 1 /\ states[r].edges[1].on # "symbol"
      /\ \/ r \in BlockEnd /\ to = p
         \/ r \in LoopBlockEnd \/ to \in LoopBlockEnd
         \/ to \in BlockEnd /\ Targets(to) = {p}

canDropLoopEntryEdgeInLeftRecursiveRule(c) ==
  /\ isPrecedenceDecision[c.state]
  /\ ~ hasEmptyPath(c.context)
  /\ \A x \in ToSet(c.context) : LeadsBack(x.returnState, c.state)

\* Mutant of precedenceTransition: the test is passed in any context.
precedenceIgnored(c, e, m) == {[c EXCEPT !.state = e.to]}

\* In an inner call of the rule the precedence is another one: no test.
precedenceTransition(c, e, m) ==
  LET to == [c EXCEPT !.state = e.to]
  IN  IF ~ m.collect \/ c.depth # 0 THEN {to}
      ELSE IF m.full THEN {d \in {to} : e.precedence >= m.precedence}
      ELSE {[to EXCEPT !.sem = And(@, e.precedence)]}

\* Behind the end of the decision's rule, whoever called it.
FallOff(c, e, m) ==
  [c EXCEPT !.state = e.to, !.outer = TRUE, !.depth = Outwards(@),
            !.suppressed = @ \/ (isPrecedenceDecision[m.decision] /\ e.outermost = states[m.decision].rule)]

getEpsilonTarget(c, e, m) ==
  CASE e.on = "rule"       -> {[c EXCEPT !.state = e.to, !.context = create(@, e.follow), !.depth = IF @ >= 0 THEN @ + 1 ELSE @]}
    [] e.on = "precedence" -> precedenceTransition(c, e, m)
    [] e.on = "symbol"     -> IF m.eof /\ matches(e, EOF) THEN {[c EXCEPT !.state = e.to]} ELSE {}
    [] e.on = "epsilon"    -> {IF IsStop(c.state) THEN FallOff(c, e, m) ELSE [c EXCEPT !.state = e.to]}

\* At the end of a rule its callers are popped.  If there is none the LL
\* attempt has reached the end of the start rule.
Closer(c, m) ==
  IF IsStop(c.state) /\ (m.full \/ c.context # EMPTY)
  THEN {[c EXCEPT !.state = x.returnState, !.context = x.parent, !.depth = Outwards(@)] :
          x \in {x \in ToSet(c.context) : x.returnState # EMPTY_RETURN_STATE}}
  ELSE UNION {getEpsilonTarget(c, states[c.state].edges[i], m) :
                i \in {i \in DOMAIN states[c.state].edges :
                         i > 1 \/ ~ canDropLoopEntryEdgeInLeftRecursiveRule(c)}}

RECURSIVE CloseOver(_, _, _)
CloseOver(todo, seen, m) ==
  IF todo = {} THEN seen
  ELSE CloseOver(UNION {Closer(c, m) : c \in todo} \ (seen \cup todo), seen \cup todo, m)

\* Kept are the configurations that wait for a token and those at the end of
\* the start rule.
Kept(configs, m) ==
  LET ended == {c \in configs : m.full /\ IsStop(c.state) /\ hasEmptyPath(c.context)}
      wait  == {c \in configs : ~ epsilonOnly(c.state) /\ ~ (m.full /\ IsStop(c.state))}
  IN  ConfigSet(wait \cup {[c EXCEPT !.context = EMPTY] : c \in ended}, m.full)

closure(configs, m) == Kept(CloseOver(configs, {}, m), m)

computeStartState(p, context, m) ==
  closure({ATNConfig(states[p].edges[i].to, i, context) : i \in DOMAIN states[p].edges}, m)

\* With no callers known it depends on the decision alone.
StartConfigs ==
  [p \in {s \in DOMAIN states : IsDecision(s)} |-> computeStartState(p, EMPTY, Mode(FALSE, TRUE, FALSE, p, 0))]

\* An operator that binds too loosely is no way on, and one that both an
\* inner and an outer call could take is left to the inner call.
applyPrecedenceFilter(configs, precedence) ==
  LET enter == {[c EXCEPT !.sem = NONE] : c \in {c \in configs : c.alt = 1 /\ c.sem >= precedence}}
      leave == {c \in configs : c.alt # 1 /\ (c.suppressed \/ ~ \E d \in enter : d.state = c.state /\ d.context = c.context)}
  IN  ConfigSet(enter \cup leave, FALSE)

-----------------------------------------------------------------------------
(* One token on.                                                           *)

Over(c, t) == {[c EXCEPT !.state = e.to] : e \in {e \in ToSet(states[c.state].edges) : matches(e, t)}}

\* skipped: the configurations at the end of a rule, which takes no token.
ClosedIfNeeded(intermediate, skipped, m) ==
  IF skipped = {} /\ ~ m.eof /\ Cardinality(Alts(intermediate)) = 1 THEN intermediate
  ELSE closure(intermediate, m)

WithSkipped(reach, skipped, m) ==
  IF m.full /\ \E c \in reach : IsStop(c.state) THEN reach ELSE ConfigSet(reach \cup skipped, m.full)

\* m.collect is FALSE, and m.eof says that t is the end of file.
computeReachSet(configs, t, m) ==
  LET skipped == {c \in configs : IsStop(c.state) /\ (m.full \/ m.eof)}
      closed  == ClosedIfNeeded(ConfigSet(UNION {Over(c, t) : c \in configs}, m.full), skipped, m)
  IN  WithSkipped({c \in closed : m.eof => IsStop(c.state)}, skipped, m)

-----------------------------------------------------------------------------
(* PredictionMode: is it decided?                                          *)

getConflictingAltSubsets(configs) ==
  {Alts({d \in configs : d.state = c.state /\ d.context = c.context}) : c \in configs}

hasSLLConflictTerminatingPrediction(configs) ==
  LET dup == IF \A c \in configs : c.sem = NONE THEN configs
             ELSE ConfigSet({[c EXCEPT !.sem = NONE] : c \in configs}, TRUE)
  IN  \/ \A c \in configs : IsStop(c.state)
      \/ /\ \E alts \in getConflictingAltSubsets(dup) : Cardinality(alts) > 1
         /\ \A c \in dup : Cardinality(Alts({d \in dup : d.state = c.state})) > 1

\* Mutant of getSingleViableAlt: the last of them is taken.
getSingleViableAltLast(altsets) ==
  LET viable == {Max(alts) : alts \in altsets} IN IF Cardinality(viable) = 1 THEN Max(viable) ELSE 0

\* 0 if the subsets do not agree on their smallest alternative.
getSingleViableAlt(altsets) ==
  LET viable == {Min(alts) : alts \in altsets} IN IF Cardinality(viable) = 1 THEN Min(viable) ELSE 0

PredOf(configs, alt) == Or({c.sem : c \in {c \in configs : c.alt = alt}})

\* The alternatives whose predicates hold.
evalSemanticContext(configs, alts, precedence) == {a \in alts : PredOf(configs, a) >= precedence}

-----------------------------------------------------------------------------
(* The two attempts.  A prediction is an alternative, or 0 with the index  *)
(* of the token that no alternative can go on with.                        *)

Predicted(alt)  == [alt |-> alt, offending |-> Null]
noViableAlt(i)  == [alt |-> 0, offending |-> i]

getAltThatFinishedDecisionEntryRule(configs) ==
  LET alts == Alts({c \in configs : c.outer \/ (IsStop(c.state) /\ hasEmptyPath(c.context))})
  IN  IF alts = {} THEN 0 ELSE Min(alts)

\* No way on at token i: an alternative that was through with the rule before
\* the token will do, the error is then found behind the rule.
getSynValidOrSemInvalidAlt(configs, precedence, i) ==
  LET valid   == getAltThatFinishedDecisionEntryRule({c \in configs : c.sem >= precedence})
      invalid == getAltThatFinishedDecisionEntryRule({c \in configs : c.sem < precedence})
  IN  IF valid # 0 THEN Predicted(valid) ELSE IF invalid # 0 THEN Predicted(invalid) ELSE noViableAlt(i)

\* The end of file is never consumed.
NextIndex(w, i) == IF w[i] = EOF THEN i ELSE i + 1

RECURSIVE execATNWithFullContext(_, _, _, _, _)
execATNWithFullContext(p, previous, w, i, precedence) ==
  LET From(reach) ==
        IF reach = {} THEN getSynValidOrSemInvalidAlt(previous, precedence, i)
        ELSE IF getSingleViableAlt(getConflictingAltSubsets(reach)) # 0
        THEN Predicted(getSingleViableAlt(getConflictingAltSubsets(reach)))
        ELSE execATNWithFullContext(p, reach, w, NextIndex(w, i), precedence)
  IN  From(computeReachSet(previous, w[i], Mode(TRUE, FALSE, w[i] = EOF, p, precedence)))

LLPredict(p, w, i, precedence, follows) ==
  execATNWithFullContext(p, computeStartState(p, fromRuleContext(follows), Mode(TRUE, TRUE, FALSE, p, precedence)),
                         w, i, precedence)

RECURSIVE execATN(_, _, _, _, _, _, _)
execATN(p, previous, w, start, i, precedence, follows) ==
  LET From(reach, viable) ==
        LET unique   == Cardinality(Alts(reach)) = 1
            hasPreds == \E a \in Alts(reach) : PredOf(reach, a) # NONE
        IN  IF reach = {} THEN getSynValidOrSemInvalidAlt(previous, precedence, i)
            ELSE IF unique \/ (hasSLLConflictTerminatingPrediction(reach) /\ hasPreds /\ Cardinality(viable) = 1)
            THEN IF viable = {} THEN noViableAlt(start) ELSE Predicted(Min(viable))
            ELSE IF hasSLLConflictTerminatingPrediction(reach) THEN LLPredict(p, w, start, precedence, follows)
            ELSE execATN(p, reach, w, start, NextIndex(w, i), precedence, follows)
      Viable(reach) == From(reach, evalSemanticContext(reach, Alts(reach), precedence))
  IN  Viable(computeReachSet(previous, w[i], Mode(FALSE, FALSE, w[i] = EOF, p, precedence)))

\* The decision at state p with the tokens w from index i on, in a rule called
\* with the precedence, whose callers go on at the states `follows'.
adaptivePredict(p, w, i, precedence, follows) ==
  LET s0 == IF isPrecedenceDecision[p] THEN applyPrecedenceFilter(StartConfigs[p], precedence) ELSE StartConfigs[p]
  IN  execATN(p, s0, w, i, i, precedence, follows)

-----------------------------------------------------------------------------
(***************************************************************************)
(* The memory of ParserATNSimulator: for each decision a DFA, whose states *)
(* are sets of configurations and whose edges are the steps of the first   *)
(* attempt that were computed before.  A prediction follows the edges      *)
(* there are and adds those that are missing.  States are found by the     *)
(* equality of ATNConfigSet, which leaves out some of what a configuration *)
(* holds, so that a state may stand for others than it was made from.      *)
(***************************************************************************)
DFAState(configs) == [configs |-> configs, uniqueAlt |-> 0, conflictingAlts |-> {}, predicates |-> << >>]

ERROR == DFAState({})   \* nothing matches

requiresFullContext(D) == D.conflictingAlts # {}

\* starts: the first state, by precedence if the decision is a loop over
\* operators, else under 0.
EmptyDFA == [states |-> {}, starts |-> << >>, edges |-> << >>]

dipsIntoOuterContext(D) == \E c \in D.configs : c.outer

\* How far a configuration reaches out of its rule is not compared.
Compared(D) == [D EXCEPT !.configs = {[c EXCEPT !.outer = FALSE] : c \in @}]

Equal(D, E) == Compared(D) = Compared(E) /\ dipsIntoOuterContext(D) = dipsIntoOuterContext(E)

\* The state of the DFA that D is, D itself if it is new.
addDFAState(dfa, D) ==
  LET existing == {E \in dfa.states : Equal(D, E)}
  IN  IF existing = {} THEN D ELSE CHOOSE E \in existing : TRUE

getUniqueAlt(configs) == IF Cardinality(Alts(configs)) = 1 THEN Min(Alts(configs)) ELSE 0

\* An alternative with a configuration that has no predicate has none.
getPredicatePredictions(configs, alts) ==
  IF \A a \in alts : PredOf(configs, a) = NONE THEN << >> ELSE [a \in alts |-> PredOf(configs, a)]

ConflictingAlts(configs) ==
  IF getUniqueAlt(configs) = 0 /\ hasSLLConflictTerminatingPrediction(configs)
  THEN UNION getConflictingAltSubsets(configs) ELSE {}

Target(configs) ==
  LET With(unique, clash) ==
        [DFAState(configs) EXCEPT
           !.uniqueAlt       = unique,
           !.conflictingAlts = clash,
           !.predicates      = getPredicatePredictions(configs, IF unique # 0 THEN {unique} ELSE clash)]
  IN  With(getUniqueAlt(configs), ConflictingAlts(configs))

TargetIn(dfa, reach) == IF reach = {} THEN ERROR ELSE addDFAState(dfa, Target(reach))

\* The step from a state with token t, taken or computed.
computeTargetState(p, dfa, previousD, t) ==
  LET With(D) == [dfa EXCEPT !.states = @ \cup ({D} \ {ERROR}), !.edges = (<< previousD, t >> :> D) @@ @]
  IN  With(TargetIn(dfa, computeReachSet(previousD.configs, t, Mode(FALSE, FALSE, t = EOF, p, 0))))

withEdge(p, dfa, previousD, t) ==
  IF << previousD, t >> \in DOMAIN dfa.edges THEN dfa ELSE computeTargetState(p, dfa, previousD, t)

evalPredicates(D, precedence) == {a \in DOMAIN D.predicates : D.predicates[a] >= precedence}

\* What is asked for is described at adaptivePredict.  The answer comes with
\* the DFA as it is afterwards.
RECURSIVE execDFA(_, _, _, _, _, _, _, _)
execDFA(p, dfa, previousD, w, start, i, precedence, follows) ==
  LET By(next, D) ==
        LET viable    == evalPredicates(D, precedence)
            Answer(a) == [prediction |-> a, dfa |-> next]
        IN  CASE D = ERROR -> Answer(getSynValidOrSemInvalidAlt(previousD.configs, precedence, i))
              [] D # ERROR /\ requiresFullContext(D) ->
                   Answer(IF Cardinality(viable) = 1 THEN Predicted(Min(viable))
                          ELSE LLPredict(p, w, start, precedence, follows))
              [] D # ERROR /\ D.uniqueAlt # 0 ->
                   Answer(CASE D.predicates = << >>               -> Predicted(D.uniqueAlt)
                            [] D.predicates # << >> /\ viable = {} -> noViableAlt(start)
                            [] OTHER                               -> Predicted(Min(viable)))
              [] OTHER -> execDFA(p, next, D, w, start, NextIndex(w, i), precedence, follows)
      Along(next) == By(next, next.edges[<< previousD, w[i] >>])
  IN  Along(withEdge(p, dfa, previousD, w[i]))

\* Mutant of StartKey: one start state for all precedences.
StartKeyShared(p, precedence) == 0

StartKey(p, precedence) == IF isPrecedenceDecision[p] THEN precedence ELSE 0

withStart(p, dfa, precedence) ==
  LET configs == IF isPrecedenceDecision[p] THEN applyPrecedenceFilter(StartConfigs[p], precedence) ELSE StartConfigs[p]
      s0      == addDFAState(dfa, DFAState(configs))
  IN  IF StartKey(p, precedence) \in DOMAIN dfa.starts THEN dfa
      ELSE [dfa EXCEPT !.states = @ \cup {s0}, !.starts = (StartKey(p, precedence) :> s0) @@ @]

predictByDFA(p, dfa, w, i, precedence, follows) ==
  LET From(started) == execDFA(p, started, started.starts[StartKey(p, precedence)], w, i, i, precedence, follows)
  IN  From(withStart(p, dfa, precedence))
=============================================================================
