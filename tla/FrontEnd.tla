------------------------------ MODULE FrontEnd ------------------------------
(***************************************************************************)
(* main with its parser: the Driver whose second phase is the Parser.  The *)
(* two meet in the number of errors that the parser has reported.          *)
(***************************************************************************)
EXTENDS ParserProperties, CommandLine

CONSTANTS
  MaxArgs,          \* of the Driver
  Commands(_),      \* the command lines that are tried with an input
  Remembered        \* the inputs for which the parser's DFAs are looked at

VARIABLES
  decisionToDFA,    \* the DFA of every decision
  pc, argi, verbose, output_file, stdout   \* of the Driver

D == INSTANCE Driver

driver == << pc, argv, argi, verbose, output_file, accepted, errors, stdout, disk, exit >>
all    == << vars, decisionToDFA, driver >>

FInit ==
  /\ Init
  /\ argv \in Commands(input) /\ D!Init
  /\ decisionToDFA = [p \in {s \in DOMAIN states : IsDecision(s)} |-> EmptyDFA]

\* Mutant of getNumberOfSyntaxErrors: asked before the parser has run.
getNumberOfSyntaxErrorsEarly == 0

getNumberOfSyntaxErrors == Len(parser.errors)

\* The parser is about to take a decision.
Deciding == IsDecision(parser.state) /\ sync(input, parser).thrown = Null

\* What the DFA of the decision answers, and what becomes of it.
ByDFA ==
  LET p == sync(input, parser).parser
  IN  predictByDFA(p.state, decisionToDFA[p.state], input, p.cursor, Last(p.precedences), Follows(p))

Remember ==
  IF input \in Remembered /\ Deciding
  THEN decisionToDFA' = [decisionToDFA EXCEPT ![parser.state] = ByDFA.dfa]
  ELSE UNCHANGED decisionToDFA

\* parser.program() of main.
RunParser == pc = "parse" /\ Next /\ Remember /\ UNCHANGED driver

\* Errors of the lexer are not in this number.
Parse ==
  /\ tree # Null
  /\ D!Parse
  /\ getNumberOfSyntaxErrors > 0 <=> exit' = "1"
  /\ UNCHANGED << vars, decisionToDFA >>

OtherPhase == pc # "parse" /\ D!Next /\ UNCHANGED << vars, decisionToDFA >>

FNext == RunParser \/ Parse \/ OtherPhase

\* One sequential program that nothing interrupts: this is WF_all(FNext), for
\* a step is enabled until the process has ended.
FProgress == []<>(pc = "ended") \/ []<><< TRUE >>_all

-----------------------------------------------------------------------------
\* What the parser remembers of earlier decisions, made with other callers, at
\* other precedences and on other tokens, never changes what it decides: a DFA
\* answers what adaptivePredict without one would (ParserATNSimulator.cpp:96,
\* 162, DFAState::operator==).
MemoryTransparent ==
  input \in Remembered /\ pc = "parse" /\ Deciding => ByDFA.prediction = predict(sync(input, parser).parser)

\* A process that does not crash ends with 1 exactly on what is not a program
\* of the grammar, and nothing else is validated or gets as far as a file
\* (main.cpp:52-60, Parser::getNumberOfSyntaxErrors).
OnlyProgramsCompile ==
  /\ exit = "1" => input \notin Programs
  /\ exit = "0" /\ argv # << >> => input \in Programs
  /\ accepted \/ (\E f \in Words : disk[f] # "old") => input \in Programs

\* Whatever the input and whatever the outcome of the phases, the process ends.
ProcessEnds == <>(exit # "running")
=============================================================================
