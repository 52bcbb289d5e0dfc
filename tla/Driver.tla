------------------------------- MODULE Driver -------------------------------
(***************************************************************************)
(* src/main.cpp from the command line to the exit code, and WriteOBJ of    *)
(* src/AST/CodegenHelper.cpp.  What the phases do is the subject of the    *)
(* other modules: here a phase ends in one of its outcomes, whatever the   *)
(* program.                                                                *)
(***************************************************************************)
EXTENDS CommandLine, StdMap

CONSTANT MaxArgs   \* bound: arguments after the input file

VARIABLES
  pc,           \* what main does next
  argi,         \* the loop's i over argv
  verbose, output_file,
  stdout        \* what was written there

vars == << pc, argv, argi, verbose, output_file, accepted, errors,
           stdout, disk, exit >>
arguments == << argv, argi, verbose, output_file >>
outputs   == << errors, stdout, disk >>

CommandLines == { << >> } \cup { << "input" >> \o rest : rest \in SeqOf(Words, MaxArgs) }

Init ==
  /\ pc = "argc"
  /\ argv \in CommandLines
  /\ argi = 2 /\ verbose = FALSE /\ output_file = ""
  /\ accepted = FALSE /\ errors = FALSE /\ stdout = {}
  /\ disk = [f \in Words |-> "old"]
  /\ exit = "running"

Exit(code) == pc' = "ended" /\ exit' = code
Goto(phase) == pc' = phase /\ UNCHANGED exit

-----------------------------------------------------------------------------
(* The command line.                                                       *)

Usage ==
  /\ pc = "argc" /\ argc < 2
  /\ Exit("0")
  /\ stdout' = {"usage"}
  /\ UNCHANGED << arguments, accepted, errors, disk >>

Arguments ==
  /\ pc = "argc" /\ argc >= 2
  /\ Goto("argv")
  /\ UNCHANGED << arguments, accepted, outputs >>

Verbose ==
  /\ pc = "argv" /\ argi < argc /\ argv[argi] = "-v"
  /\ verbose' = TRUE /\ argi' = argi + 1
  /\ UNCHANGED << pc, exit, argv, output_file, accepted, outputs >>

\* Mutant of Named: the argument itself.
NamedFlag(k) == argv[k]

\* output_file = argv[i + 1].  The argument that is taken is looked at again.
Named(k) == argv[k + 1]

\* The test for a missing name, i == argc, cannot hold in the loop.
Output ==
  /\ pc = "argv" /\ argi < argc /\ argv[argi] = "-o"
  /\ IF argi + 1 = argc
     THEN Exit("crashed") /\ UNCHANGED << argi, output_file >>   \* a string from nullptr
     ELSE output_file' = Named(argi) /\ argi' = argi + 1 /\ UNCHANGED << pc, exit >>
  /\ UNCHANGED << argv, verbose, accepted, outputs >>

Ignored ==
  /\ pc = "argv" /\ argi < argc /\ argv[argi] \notin {"-v", "-o"}
  /\ argi' = argi + 1
  /\ UNCHANGED << pc, exit, argv, verbose, output_file, accepted, outputs >>

EndOfArguments ==
  /\ pc = "argv" /\ argi = argc
  /\ Goto("parse")
  /\ UNCHANGED << arguments, accepted, outputs >>

-----------------------------------------------------------------------------
(* The phases.  A file that cannot be opened reads as an empty program.    *)

Parse ==
  /\ pc = "parse"
  /\ \/ Exit("1") /\ errors' = TRUE          \* ANTLR has reported syntax errors
     \/ Goto("visit") /\ UNCHANGED errors
  /\ UNCHANGED << arguments, accepted, stdout, disk >>

Visit ==
  /\ pc = "visit"
  /\ Goto("check") \/ Exit("crashed")        \* an exception nobody catches
  /\ UNCHANGED << arguments, accepted, outputs >>

\* "Error compiling" is all that a rejected program leads to.
CheckProgram ==
  /\ pc = "check"
  /\ \/ Goto("generate") /\ accepted' = TRUE /\ UNCHANGED errors
     \/ Exit("0") /\ errors' = TRUE /\ UNCHANGED accepted
  /\ UNCHANGED << arguments, stdout, disk >>

\* Code generation reports what it cannot do on stderr and goes on.
GenerateProgram ==
  /\ pc = "generate"
  /\ \/ Exit("crashed") /\ UNCHANGED << errors, stdout >>
     \/ /\ Goto("target")
        /\ errors' \in {errors, TRUE}
        /\ stdout' = IF verbose THEN stdout \cup {"module"} ELSE stdout
  /\ UNCHANGED << arguments, accepted, disk >>

-----------------------------------------------------------------------------
(* WriteOBJ returns nothing: main exits with 0 after it.                   *)

Report == Exit("0") /\ errors' = TRUE

LookupTarget ==
  /\ pc = "target"
  /\ \/ Report
     \/ Goto(IF output_file = "" THEN "tmpnam" ELSE "open") /\ UNCHANGED errors
  /\ UNCHANGED << arguments, accepted, stdout, disk >>

\* Mutant of OpenFailed: the error code is not printed.
OpenFailedSilently == Exit("0") /\ UNCHANGED << errors, disk >>

\* Mutant of OpenFailed: it is tried again, until it works.
OpenFailedRetried == Goto("target") /\ errors' = TRUE /\ UNCHANGED disk

OpenFailed == Report /\ UNCHANGED disk

\* raw_fd_ostream truncates the file it opens.
OpenFile ==
  /\ pc = "open"
  /\ \/ OpenFailed
     \/ Goto("emit") /\ disk' = [disk EXCEPT ![output_file] = "incomplete"] /\ UNCHANGED errors
  /\ UNCHANGED << arguments, accepted, stdout >>

\* LLVM ends the process on a write error, and may on functions its verifier
\* has complained about.
EmitFile ==
  /\ pc = "emit"
  /\ \/ Report /\ UNCHANGED disk
     \/ Exit("0") /\ disk' = [disk EXCEPT ![output_file] = "object"] /\ UNCHANGED errors
     \/ Exit("crashed") /\ UNCHANGED << disk, errors >>
  /\ UNCHANGED << arguments, accepted, stdout >>

\* Without -o: a temporary file that is printed line by line.  A last line
\* gets a newline the object does not have; that the file cannot be opened
\* for reading is not reported.
EmitTemporary ==
  /\ pc = "tmpnam"
  /\ \/ Report /\ UNCHANGED stdout
     \/ Exit("0") /\ stdout' = stdout \cup {"object and newline"} /\ UNCHANGED errors
     \/ Exit("0") /\ UNCHANGED << stdout, errors >>
     \/ Exit("crashed") /\ UNCHANGED << stdout, errors >>
  /\ UNCHANGED << arguments, accepted, disk >>

-----------------------------------------------------------------------------
Ended == pc = "ended" /\ UNCHANGED vars

Next ==
  \/ Usage \/ Arguments \/ Verbose \/ Output \/ Ignored \/ EndOfArguments
  \/ Parse \/ Visit \/ CheckProgram \/ GenerateProgram
  \/ LookupTarget \/ OpenFile \/ EmitFile \/ EmitTemporary
  \/ Ended

Spec == Init /\ [][Next]_vars

-----------------------------------------------------------------------------
\* test_runner.py:63-68 runs the compiler on a program that must not compile
\* and takes an exit code of 0 for a failed test.
RejectedFails == exit = "0" /\ argc >= 2 => accepted
=============================================================================
