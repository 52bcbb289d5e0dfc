---------------------------- MODULE CommandLine ----------------------------
(***************************************************************************)
(* The compiler as its user sees it: a command line goes in; files, errors *)
(* and an exit code come out (src/main.cpp).                               *)
(***************************************************************************)
EXTENDS SequencesExt

CONSTANT Files   \* names of files that arguments can be

VARIABLES
  argv,         \* argv[1], argv[2], ...
  accepted,     \* the program has been validated and generated
  errors,       \* something was written to stderr
  disk,         \* what is in the files
  exit          \* how the process ended

argc  == Len(argv) + 1
Words == Files \cup {"-v", "-o"}

\* The file the command line asks for, read from its end: the name after the
\* last -o that has one.
Asked ==
  LET flags == {k \in 2 .. Len(argv) - 1 : argv[k] = "-o"}
  IN  IF flags = {} THEN "" ELSE argv[Max(flags) + 1]

\* A file is touched only if the program was accepted and the command line,
\* with all its repeated and overlapping flags, asks for that file.
OnlyAskedIsWritten == \A f \in Words : disk[f] # "old" => accepted /\ f = Asked

\* The exit code says little, but silence can be relied on: a process that
\* was asked for a file, ends with 0 and writes nothing to stderr has written
\* the whole object.  An incomplete file never comes without a message or a crash.
SilenceMeansWritten ==
  /\ exit = "0" /\ ~errors /\ Asked # "" => disk[Asked] = "object"
  /\ exit = "0" /\ (\E f \in Words : disk[f] = "incomplete") => errors
=============================================================================
