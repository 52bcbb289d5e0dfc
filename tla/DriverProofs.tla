---------------------------- MODULE DriverProofs ----------------------------
(***************************************************************************)
(* What main promises about files, for every command line of any length,   *)
(* every set of file names and every outcome of the phases.                *)
(***************************************************************************)
EXTENDS Driver, TLAPS

\* The -o among the words that the loop has looked at.
Flags(k) == {j \in 2 .. k - 1 : argv[j] = "-o"}

\* output_file is the word after the last of them, and every one has such a word.
OutputRead ==
  IF Flags(argi) = {} THEN output_file = ""
  ELSE \E m \in Flags(argi) : (\A j \in Flags(argi) : j <= m) /\ output_file = argv[m + 1] /\ m < Len(argv)

\* What is known before and after the loop over the words, by what main does next.
WordsRead ==
  /\ Len(argv) \in Nat
  /\ \A j \in 2 .. Len(argv) : argv[j] \in Words
  /\ argi \in Nat
  /\ argv = << >> => pc \in {"argc", "ended"} /\ argi = 2
  /\ pc = "argc" => argi = 2 /\ output_file = ""
  /\ argv # << >> => argi \in 2 .. argc
  /\ OutputRead
  /\ pc \notin {"argc", "argv", "ended"} => argi = argc

\* No file has been touched.
Untouched == \A f \in Words : disk[f] = "old"

\* Only the output file has, and the command line has been read to its end.
OnlyOutput == \A f \in Words : disk[f] # "old" => accepted /\ argi = argc /\ f = output_file

\* How far the files are, by what main does next.
FilesTouched ==
  /\ DOMAIN disk = Words
  /\ pc \notin {"emit", "ended"} => Untouched
  /\ pc \in {"generate", "target", "open", "emit", "tmpnam"} => accepted
  /\ pc \in {"open", "emit"} => output_file \in Words
  /\ pc = "tmpnam" => output_file = ""
  /\ OnlyOutput

\* How the process has ended.
EndSeen ==
  /\ pc # "ended" => exit = "running"
  /\ exit = "0" => \/ errors
                   \/ argv = << >> /\ Untouched
                   \/ argi = argc /\ output_file = "" /\ Untouched
                   \/ argi = argc /\ output_file \in Words /\ disk[output_file] = "object"

IInv == WordsRead /\ FilesTouched /\ EndSeen

-----------------------------------------------------------------------------
(* IInv is inductive.                                                      *)

\* Every command line is empty, or the input file and words.
LEMMA CommandLineWords ==
  ASSUME NEW line \in CommandLines
  PROVE  /\ Len(line) \in Nat
         /\ line # << >> => Len(line) >= 1
         /\ \A j \in 2 .. Len(line) : line[j] \in Words
<1>1. CASE line = << >>
  BY <1>1
<1>2. CASE line \in {<< "input" >> \o rest : rest \in SeqOf(Words, MaxArgs)}
  <2>1. PICK rest \in SeqOf(Words, MaxArgs) : line = << "input" >> \o rest
    BY <1>2
  <2>2. PICK n \in 0 .. MaxArgs : rest \in [1 .. n -> Words]
    BY <2>1 DEF SeqOf
  <2>3. rest \in Seq(Words) /\ Len(rest) = n /\ n \in Nat
    BY <2>2
  <2>4. << "input" >> \in Seq({"input"} \cup Words) /\ rest \in Seq({"input"} \cup Words)
    BY <2>3
  <2>5. Len(line) = n + 1 /\ \A j \in 2 .. n + 1 : line[j] = rest[j - 1]
    BY <2>1, <2>3, <2>4
  <2>6. \A j \in 2 .. n + 1 : rest[j - 1] \in Words
    BY <2>2, <2>3
  <2> QED
    BY <2>3, <2>5, <2>6
<1> QED
  BY <1>1, <1>2 DEF CommandLines

\* The initial states satisfy the invariant.
LEMMA InitIInv == Init => IInv
<1> SUFFICES ASSUME Init PROVE IInv
  OBVIOUS
<1>1. /\ Len(argv) \in Nat
      /\ argv # << >> => Len(argv) >= 1
      /\ \A j \in 2 .. Len(argv) : argv[j] \in Words
  BY CommandLineWords DEF Init
<1>2. argi = 2 /\ output_file = "" /\ pc = "argc"
  BY DEF Init
<1>3. OutputRead
  <2>1. Flags(2) = {}
    BY DEF Flags
  <2> QED
    BY <1>2, <2>1 DEF OutputRead
<1>4. argi \in Nat /\ (argv # << >> => argi \in 2 .. argc)
  <2>1. argv # << >> => 2 \in 2 .. Len(argv) + 1
    BY <1>1
  <2> QED
    BY <1>2, <2>1 DEF argc
<1>5. WordsRead
  BY <1>1, <1>2, <1>3, <1>4 DEF WordsRead
<1>6. FilesTouched /\ EndSeen
  BY DEF Init, FilesTouched, EndSeen, Untouched, OnlyOutput
<1> QED
  BY <1>5, <1>6 DEF IInv

\* The next word is a flag or it is not.
LEMMA FlagsNext ==
  ASSUME argi \in Nat, argi >= 2
  PROVE  Flags(argi + 1) = IF argv[argi] = "-o" THEN Flags(argi) \cup {argi} ELSE Flags(argi)
BY DEF Flags

\* What no step after the loop changes: the words and the output file.
LEMMA WordsKept ==
  ASSUME WordsRead, UNCHANGED arguments, argv # << >>,
         pc' # "argc",
         pc' \notin {"argv", "ended"} => argi = argc
  PROVE  WordsRead'
<1>1. OutputRead'
  BY DEF WordsRead, arguments, OutputRead, Flags
<1> QED
  BY <1>1 DEF WordsRead, arguments, argc

\* One more word has been looked at, which was not a -o with a name.
LEMMA WordSkipped ==
  ASSUME WordsRead, pc = "argv", argi < argc, argv[argi] # "-o",
         UNCHANGED << pc, argv, output_file >>, argi' = argi + 1
  PROVE  WordsRead'
<1>1. argv # << >> /\ argi >= 2 /\ argi \in Nat
  BY DEF WordsRead
<1>2. OutputRead'
  <2>1. (Flags(argi))' = Flags(argi)
    BY <1>1, FlagsNext DEF Flags
  <2> QED
    BY <2>1 DEF WordsRead, OutputRead
<1>3. argi' \in Nat /\ argi' \in 2 .. argc
  BY <1>1 DEF WordsRead, argc
<1> QED
  BY <1>1, <1>2, <1>3 DEF WordsRead, argc

\* A -o with a name has been looked at.
LEMMA NameTaken ==
  ASSUME WordsRead, pc = "argv", argi < argc, argv[argi] = "-o", argi + 1 # argc,
         UNCHANGED << pc, argv >>, output_file' = argv[argi + 1], argi' = argi + 1
  PROVE  WordsRead'
<1>1. argv # << >> /\ argi >= 2 /\ argi \in Nat /\ Len(argv) \in Nat
  BY DEF WordsRead
<1>2. OutputRead'
  <2>1. (Flags(argi))' = Flags(argi) \cup {argi}
    BY <1>1, FlagsNext DEF Flags
  <2>2. argi < Len(argv)
    BY <1>1 DEF argc
  <2>3. \A j \in Flags(argi) : j <= argi
    BY <1>1 DEF Flags
  <2>4. \A j \in (Flags(argi))' : j <= argi
    BY <1>1, <2>1, <2>3
  <2> QED
    BY <2>1, <2>2, <2>4 DEF OutputRead
<1>3. argi' \in Nat /\ argi' \in 2 .. argc
  BY <1>1 DEF WordsRead, argc
<1> QED
  BY <1>1, <1>2, <1>3 DEF WordsRead, argc

\* The usage is printed if there are no words.
LEMMA NothingAsked ==
  ASSUME WordsRead, Usage
  PROVE  argv = << >> /\ argi = 2 /\ output_file = ""
<1>1. pc = "argc" /\ argc < 2
  BY DEF Usage
<1>2. argi = 2 /\ output_file = ""
  BY <1>1 DEF WordsRead
<1>3. argc \in Nat
  <2>1. Len(argv) \in Nat
    BY DEF WordsRead
  <2> QED
    BY <2>1 DEF argc
<1>4. argv # << >> => argi \in 2 .. argc
  BY DEF WordsRead
<1>5. ASSUME argv # << >> PROVE FALSE
  <2>1. argc >= 2
    BY <1>3, <1>4, <1>5
  <2> QED
    BY <1>1, <1>3, <2>1
<1> QED
  BY <1>2, <1>5

\* Every step keeps what is known of the words.
LEMMA NextWordsRead ==
  ASSUME IInv, Next
  PROVE  WordsRead'
<1> USE DEF IInv
<1>1. CASE Usage
  <2>1. argv = << >> /\ argi = 2 /\ output_file = ""
    BY <1>1, NothingAsked
  <2>2. OutputRead'
    BY <1>1 DEF Usage, WordsRead, arguments, OutputRead, Flags
  <2> QED
    BY <1>1, <2>1, <2>2 DEF Usage, Exit, arguments, WordsRead, argc
<1>2. CASE Arguments
  BY <1>2, WordsKept DEF Arguments, Goto, argc
<1>3. CASE Verbose
  BY <1>3, WordSkipped DEF Verbose
<1>4. CASE Ignored
  BY <1>4, WordSkipped DEF Ignored
<1>5. CASE Output
  <2>1. CASE argi + 1 = argc
    <3>1. UNCHANGED << argv, argi, output_file >> /\ pc' = "ended" /\ argv # << >>
      BY <1>5, <2>1 DEF Output, Exit, WordsRead
    <3>2. OutputRead'
      BY <3>1 DEF WordsRead, OutputRead, Flags
    <3> QED
      BY <3>1, <3>2 DEF WordsRead, argc
  <2>2. CASE argi + 1 # argc
    BY <1>5, <2>2, NameTaken DEF Output, Named
  <2> QED
    BY <2>1, <2>2
<1>6. CASE EndOfArguments
  BY <1>6, WordsKept DEF EndOfArguments, Goto, WordsRead
<1>7. CASE \/ Parse \/ Visit \/ CheckProgram \/ GenerateProgram
           \/ LookupTarget \/ OpenFile \/ EmitFile \/ EmitTemporary
  <2>1. UNCHANGED arguments /\ pc \notin {"argc", "argv", "ended"}
    BY <1>7 DEF Parse, Visit, CheckProgram, GenerateProgram, LookupTarget, OpenFile, EmitFile, EmitTemporary
  <2>2. pc' # "argc" /\ argi = argc /\ argv # << >>
    BY <1>7, <2>1 DEF Parse, Visit, CheckProgram, GenerateProgram, LookupTarget, OpenFile,
       EmitFile, EmitTemporary, OpenFailed, Report, Goto, Exit, WordsRead
  <2> QED
    BY <2>1, <2>2, WordsKept
<1>8. CASE Ended
  BY <1>8 DEF Ended, vars, WordsRead, OutputRead, Flags, argc
<1> QED
  BY <1>1, <1>2, <1>3, <1>4, <1>5, <1>6, <1>7, <1>8 DEF Next

\* An output file is one of the words.
LEMMA OutputNamed ==
  ASSUME WordsRead
  PROVE  output_file = "" \/ output_file \in Words
<1>1. CASE Flags(argi) = {}
  BY <1>1 DEF WordsRead, OutputRead
<1>2. CASE Flags(argi) # {}
  <2>1. PICK m \in Flags(argi) : output_file = argv[m + 1] /\ m < Len(argv)
    BY <1>2 DEF WordsRead, OutputRead
  <2>2. m \in 2 .. argi - 1 /\ argi \in Nat /\ Len(argv) \in Nat
    BY <2>1 DEF Flags, WordsRead
  <2>3. m + 1 \in 2 .. Len(argv)
    BY <2>1, <2>2
  <2> QED
    BY <2>1, <2>3 DEF WordsRead
<1> QED
  BY <1>1, <1>2

\* Every step keeps what is known of the files.
LEMMA NextFilesTouched ==
  ASSUME IInv, Next
  PROVE  FilesTouched'
<1> USE DEF IInv
<1>1. CASE Usage \/ Arguments \/ Verbose \/ Output \/ Ignored \/ EndOfArguments \/ Parse \/ Visit
  <2>1. disk' = disk /\ pc \notin {"emit", "ended"}
    BY <1>1 DEF Usage, Arguments, Verbose, Output, Ignored, EndOfArguments, Parse, Visit, outputs
  <2>2. Untouched /\ DOMAIN disk = Words
    BY <2>1 DEF FilesTouched
  <2>3. pc' \in {"argc", "argv", "parse", "visit", "check", "ended"}
    BY <1>1 DEF Usage, Arguments, Verbose, Output, Ignored, EndOfArguments, Parse, Visit, Goto, Exit
  <2> QED
    BY <2>1, <2>2, <2>3 DEF FilesTouched, Untouched, OnlyOutput
<1>2. CASE CheckProgram
  <2>1. disk' = disk /\ Untouched /\ DOMAIN disk = Words
    BY <1>2 DEF CheckProgram, FilesTouched
  <2>2. \/ pc' = "generate" /\ accepted'
        \/ pc' = "ended"
    BY <1>2 DEF CheckProgram, Goto, Exit
  <2> QED
    BY <2>1, <2>2 DEF FilesTouched, Untouched, OnlyOutput
<1>3. CASE GenerateProgram
  <2>1. disk' = disk /\ Untouched /\ DOMAIN disk = Words /\ accepted /\ accepted' = accepted
    BY <1>3 DEF GenerateProgram, FilesTouched
  <2>2. pc' \in {"target", "ended"}
    BY <1>3 DEF GenerateProgram, Goto, Exit
  <2> QED
    BY <2>1, <2>2 DEF FilesTouched, Untouched, OnlyOutput
<1>4. CASE LookupTarget
  <2>1. /\ disk' = disk /\ Untouched /\ DOMAIN disk = Words /\ accepted /\ accepted' = accepted
        /\ output_file' = output_file
    BY <1>4 DEF LookupTarget, FilesTouched, arguments
  <2>2. \/ pc' = "ended"
        \/ pc' = "tmpnam" /\ output_file = ""
        \/ pc' = "open" /\ output_file # ""
    BY <1>4 DEF LookupTarget, Report, Goto, Exit
  <2> QED
    BY <2>1, <2>2, OutputNamed DEF FilesTouched, Untouched, OnlyOutput
<1>5. CASE OpenFile \/ EmitFile
  <2>1. /\ accepted /\ output_file \in Words /\ argi = argc /\ DOMAIN disk = Words
        /\ UNCHANGED << accepted, output_file, argi, argv >>
    BY <1>5 DEF OpenFile, EmitFile, FilesTouched, WordsRead, arguments
  <2>2. \/ disk' = disk
        \/ \E content : disk' = [disk EXCEPT ![output_file] = content]
    BY <1>5 DEF OpenFile, OpenFailed, EmitFile
  <2>3. \A f \in Words : disk[f] # "old" => f = output_file
    BY DEF FilesTouched, OnlyOutput
  <2>4. DOMAIN disk' = Words /\ \A f \in Words : disk'[f] # "old" => f = output_file
    BY <2>1, <2>2, <2>3
  <2>5. OnlyOutput'
    BY <2>1, <2>4 DEF OnlyOutput, argc
  <2>6. pc' \in {"emit", "ended"}
    BY <1>5 DEF OpenFile, OpenFailed, EmitFile, Report, Goto, Exit
  <2> QED
    BY <2>1, <2>4, <2>5, <2>6 DEF FilesTouched
<1>6. CASE EmitTemporary
  <2>1. disk' = disk /\ Untouched /\ DOMAIN disk = Words
    BY <1>6 DEF EmitTemporary, FilesTouched
  <2>2. pc' = "ended"
    BY <1>6 DEF EmitTemporary, Report, Exit
  <2> QED
    BY <2>1, <2>2 DEF FilesTouched, Untouched, OnlyOutput
<1>7. CASE Ended
  BY <1>7 DEF Ended, vars, FilesTouched, Untouched, OnlyOutput, argc
<1> QED
  BY <1>1, <1>2, <1>3, <1>4, <1>5, <1>6, <1>7 DEF Next

\* Every step keeps what is known of the end.
LEMMA NextEndSeen ==
  ASSUME IInv, Next
  PROVE  EndSeen'
<1> USE DEF IInv
<1>1. CASE Usage
  <2>1. argv = << >> /\ argv' = argv
    BY <1>1, NothingAsked DEF Usage, arguments
  <2>2. Untouched'
    BY <1>1 DEF Usage, FilesTouched, Untouched
  <2> QED
    BY <1>1, <2>1, <2>2 DEF Usage, Exit, EndSeen
<1>2. CASE Arguments \/ Verbose \/ Output \/ Ignored \/ EndOfArguments
  <2>1. exit = "running" /\ (pc' # "ended" => exit' = exit) /\ exit' \in {exit, "crashed"}
    BY <1>2 DEF Arguments, Verbose, Output, Ignored, EndOfArguments, Goto, Exit, EndSeen
  <2> QED
    BY <2>1 DEF EndSeen
<1>3. CASE Parse \/ Visit \/ CheckProgram \/ GenerateProgram \/ LookupTarget \/ OpenFile
  <2>1. /\ exit = "running"
        /\ pc' # "ended" => exit' = exit
        /\ exit' = "0" => errors'
    BY <1>3 DEF Parse, Visit, CheckProgram, GenerateProgram, LookupTarget, OpenFile, OpenFailed,
       Report, Goto, Exit, EndSeen
  <2> QED
    BY <2>1 DEF EndSeen
<1>4. CASE EmitFile
  <2>1. /\ UNCHANGED << argv, argi, output_file >> /\ argi = argc /\ output_file \in Words
        /\ DOMAIN disk = Words /\ pc' = "ended"
    BY <1>4 DEF EmitFile, arguments, FilesTouched, WordsRead, Report, Exit
  <2>2. exit' = "0" => errors' \/ disk'[output_file] = "object"
    BY <1>4, <2>1 DEF EmitFile, Report, Exit
  <2> QED
    BY <2>1, <2>2 DEF EndSeen, argc
<1>5. CASE EmitTemporary
  <2>1. /\ UNCHANGED << argv, argi, output_file, disk >> /\ argi = argc /\ output_file = ""
        /\ Untouched /\ pc' = "ended"
    BY <1>5 DEF EmitTemporary, arguments, FilesTouched, WordsRead, Report, Exit
  <2> QED
    BY <2>1 DEF EndSeen, argc, Untouched
<1>6. CASE Ended
  BY <1>6 DEF Ended, vars, EndSeen, argc, Untouched
<1> QED
  BY <1>1, <1>2, <1>3, <1>4, <1>5, <1>6 DEF Next

\* The invariant holds throughout.
LEMMA AlwaysIInv == Spec => []IInv
<1>1. IInv /\ [Next]_vars => IInv'
  <2>1. CASE Next
    BY <2>1, NextWordsRead, NextFilesTouched, NextEndSeen DEF IInv
  <2>2. CASE UNCHANGED vars
    BY <2>2 DEF vars, IInv, WordsRead, OutputRead, Flags, FilesTouched, Untouched, OnlyOutput, EndSeen, argc
  <2> QED
    BY <2>1, <2>2
<1> QED
  BY InitIInv, <1>1, PTL DEF Spec

-----------------------------------------------------------------------------
(* The promises.                                                           *)

\* A loop that has read all words leaves the file that is asked for: it reads
\* them from the left, Asked from the right.
LEMMA AskedRead ==
  ASSUME WordsRead, argi = argc
  PROVE  output_file = Asked
<1> DEFINE flags == {k \in 2 .. Len(argv) - 1 : argv[k] = "-o"}
<1>1. Len(argv) \in Nat
  BY DEF WordsRead
<1>2. Flags(argi) = {k \in 2 .. Len(argv) : argv[k] = "-o"}
  BY <1>1 DEF Flags, argc
<1>3. CASE Flags(argi) = {}
  <2>1. output_file = ""
    BY <1>3 DEF WordsRead, OutputRead
  <2>2. flags = {}
    BY <1>1, <1>2, <1>3
  <2> QED
    BY <2>1, <2>2 DEF Asked
<1>4. CASE Flags(argi) # {}
  <2>1. PICK m \in Flags(argi) :
          (\A j \in Flags(argi) : j <= m) /\ output_file = argv[m + 1] /\ m < Len(argv)
    BY <1>4 DEF WordsRead, OutputRead
  <2>2. flags \subseteq Flags(argi) /\ m \in flags
    BY <1>1, <1>2, <2>1
  <2>3. \A x, y \in flags : x \in Int /\ (x >= y /\ y >= x => x = y)
    BY <1>1
  <2>4. \A x \in flags : (\A y \in flags : x >= y) => x = m
    BY <2>1, <2>2, <2>3
  <2>5. \A y \in flags : m >= y
    BY <1>1, <2>1, <2>2
  <2>6. Max(flags) = m
    BY <2>2, <2>4, <2>5 DEF Max
  <2> QED
    BY <2>1, <2>2, <2>6 DEF Asked
<1> QED
  BY <1>3, <1>4

\* No words ask for no file.
LEMMA NothingRead ==
  ASSUME argv = << >>
  PROVE  Asked = "" /\ argc = 1
<1>1. {k \in 2 .. Len(argv) - 1 : argv[k] = "-o"} = {}
  OBVIOUS
<1> QED
  BY <1>1 DEF Asked, argc

\* Whatever the words and their number, and however the phases end, only the
\* file that is asked for is touched, and only for an accepted program.
THEOREM OnlyAsked == Spec => []OnlyAskedIsWritten
<1>1. IInv => OnlyAskedIsWritten
  <2> SUFFICES ASSUME IInv, NEW f \in Words, disk[f] # "old"
               PROVE  accepted /\ f = Asked
    BY DEF OnlyAskedIsWritten
  <2>1. accepted /\ argi = argc /\ f = output_file
    BY DEF IInv, FilesTouched, OnlyOutput
  <2> QED
    BY <2>1, AskedRead DEF IInv
<1> QED
  BY AlwaysIInv, <1>1, PTL

\* Whatever the words and their number, a process that was asked for a file,
\* ends with 0 and is silent has written all of it.
THEOREM Silence == Spec => []SilenceMeansWritten
<1>1. IInv => SilenceMeansWritten
  <2> SUFFICES ASSUME IInv, exit = "0", ~errors
               PROVE  /\ Asked # "" => disk[Asked] = "object"
                      /\ \A f \in Words : disk[f] # "incomplete"
    BY DEF SilenceMeansWritten
  <2>1. CASE argv = << >> /\ Untouched
    BY <2>1, NothingRead DEF Untouched
  <2>2. CASE argi = argc /\ output_file = "" /\ Untouched
    BY <2>2, AskedRead DEF IInv, Untouched
  <2>3. CASE argi = argc /\ output_file \in Words /\ disk[output_file] = "object"
    <3>1. Asked = output_file
      BY <2>3, AskedRead DEF IInv
    <3>2. \A f \in Words : disk[f] # "old" => f = output_file
      BY DEF IInv, FilesTouched, OnlyOutput
    <3> QED
      BY <2>3, <3>1, <3>2
  <2> QED
    BY <2>1, <2>2, <2>3 DEF IInv, EndSeen
<1> QED
  BY AlwaysIInv, <1>1, PTL
=============================================================================
