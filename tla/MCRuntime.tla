----------------------------- MODULE MCRuntime -----------------------------
(***************************************************************************)
(* The data structures of ANTLR's runtime that FleetLang's front end rests *)
(* on, each under all sequences of its operations: the lexer, the streams, *)
(* interval sets, and the stacks and tests of configurations.  `machine'   *)
(* is the one that runs, the others stay where they start.                 *)
(***************************************************************************)
EXTENDS TokenSource, Streams

CONSTANTS
  Machines,   \* the ones to look at
  MaxPieces,  \* bound: the length of a text
  Largest,                                                           \* IntervalSets
  NoContext, ReturnStates, MaxDepth, Precedences, Tests, MaxOperands \* ConfigurationContexts

VARIABLES
  machine,
  intervals, contents,                                               \* IntervalSets
  local, context, stacks, other, otherStacks,                        \* ConfigurationContexts
  sem, calls, kept, keptIn, possible

\* Texts of up to MaxPieces pieces: each character and what several rules begin
\* with.
Pieces ==
  {<< c >> : c \in Chars \ {"i"}}
    \cup { << "i", "f" >>, << "/", "*" >>, << "*", "/" >>, << "/", "/" >>, << "1", ".", "1" >>, << "e", "1" >>,
           << "\\", "f" >>, << "=", "=" >> }

MCTexts == {FlattenSeq(pieces) : pieces \in BoundedSeq(Pieces, MaxPieces)}

MCLexerStates == LET atn == LexerAutomaton IN atn

\* The rules are laid out as the deserializer wants an automaton to be.
ASSUME LexerVerified == verifyATN(lexerStates)

Sets == INSTANCE IntervalSets
Contexts == INSTANCE ConfigurationContexts

intervalVars == << intervals, contents >>
stackVars    == << local, context, stacks, other, otherStacks >>
testVars     == << sem, calls, kept, keptIn, possible >>

RInit ==
  /\ machine \in Machines
  /\ Init /\ StreamInit /\ Sets!Init /\ Contexts!StackInit /\ Contexts!TestInit
  /\ machine # "lexer"   => characters = << >>
  /\ machine # "streams" => reader = "characters" /\ Len(source) = 1
  /\ machine # "stacks"  => local

RNext ==
  /\ UNCHANGED machine
  /\ \/ machine = "lexer" /\ Next
        /\ UNCHANGED << streamVars, intervalVars, stackVars, testVars >>
     \/ machine = "streams" /\ StreamNext
        /\ UNCHANGED << vars, intervalVars, stackVars, testVars >>
     \/ machine = "intervals" /\ Sets!Next
        /\ UNCHANGED << vars, streamVars, stackVars, testVars >>
     \/ machine = "stacks" /\ Contexts!StackNext
        /\ UNCHANGED << vars, streamVars, intervalVars, testVars >>
     \/ machine = "tests" /\ Contexts!TestNext
        /\ UNCHANGED << vars, streamVars, intervalVars, stackVars >>

RSpec == RInit /\ [][RNext]_<< machine, vars, streamVars, intervalVars, stackVars, testVars >>

-----------------------------------------------------------------------------
\* Interval sets stay canonical and answer every question as a plain set does,
\* whatever the operations and their order (IntervalSet.cpp).
IntervalsAreSets == Sets!IntervalsCanonical /\ Sets!QuestionsAnswered

\* A merged context stands for the stacks of both operands, and contexts with
\* the same stacks are equal, however they came about (PredictionContext.cpp).
ContextsAreStacks == Contexts!StacksMerged /\ Contexts!ContextsSorted

\* A merge that the cache holds from the first stage of a prediction is what
\* the second stage would compute (PredictionContext.cpp:139).
CacheTransparent == Contexts!CacheTransparent

\* Tests that are put together and evaluated in any order hold in the calls
\* their parts say; those of precedences are as good as one number
\* (SemanticContext.cpp).
PredicatesKeepTruth == Contexts!TruthIsKept /\ Contexts!NumberSuffices
=============================================================================
