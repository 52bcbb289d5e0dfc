---------------------------- MODULE TokenSource ----------------------------
(***************************************************************************)
(* Lexer::nextToken, asked again and again until the end of file: one step *)
(* for each time round its loop.                                           *)
(***************************************************************************)
EXTENDS Lexer

CONSTANT Texts   \* the sequences of characters to read

VARIABLES
  characters,   \* what is read
  position,     \* where the lexer is
  hitEOF,
  lexemes,  \* what was matched, skipped and failed on, in order
  syntaxErrors,
  dfa       \* what the lexer remembers of earlier matches

vars == << characters, position, hitEOF, lexemes, syntaxErrors, dfa >>

EOFType == -1

\* alt: the rule, EOFType or 0 for a failure.  channel: that of the token, or "none"
\* for what does not become one.
Lexeme(alt, channel, from, to) == [alt |-> alt, channel |-> channel, from |-> from, to |-> to]

Init ==
  /\ characters \in Texts
  /\ position = Start /\ hitEOF = FALSE /\ lexemes = << >> /\ syntaxErrors = 0
  /\ dfa = NewDFA

\* Commands: skip drops the token, the other command puts it on another channel.
ChannelOf(command) ==
  CASE command = "skip" -> "none" [] command = "hidden" -> "hidden" [] OTHER -> "default"

\* Mutant of recover: nothing is dropped.
recoverStays(where) == where

\* A failure has been reported; then one character more is dropped.
recover(where) == IF LA(characters, where) = EOF THEN where ELSE consume(characters, where)

Leave(to) == hitEOF' = (LA(characters, to) = EOF) /\ position' = to

Match ==
  /\ ~ hitEOF /\ characters # << >>
  /\ LET matched == match(characters, position, dfa)
         m       == matched.found
     IN  /\ m.alt # 0
         /\ dfa' = matched.dfa
         /\ Leave(m.at)
         /\ lexemes' = Append(lexemes, Lexeme(m.alt, ChannelOf(m.command), position, m.at))
  /\ UNCHANGED << characters, syntaxErrors >>

Fail ==
  /\ ~ hitEOF /\ characters # << >>
  /\ LET matched == match(characters, position, dfa)
         m       == matched.found
     IN  /\ m.alt = 0
         /\ dfa' = matched.dfa
         /\ Leave(recover(m.at))
         /\ lexemes' = Append(lexemes, Lexeme(0, "none", position, recover(m.at)))
  /\ syntaxErrors' = syntaxErrors + 1
  /\ UNCHANGED characters

\* No more characters, or none at all.
emitEOF ==
  /\ hitEOF \/ characters = << >>
  /\ \A n \in DOMAIN lexemes : lexemes[n].alt # EOFType
  /\ lexemes' = Append(lexemes, Lexeme(EOFType, "default", position, position))
  /\ hitEOF' = TRUE
  /\ UNCHANGED << characters, position, syntaxErrors, dfa >>

Next == Match \/ Fail \/ emitEOF

Spec == Init /\ [][Next]_vars

-----------------------------------------------------------------------------
(* What the lexer promises, by the definition of its rules.                *)

Between(from, to) == SubSeq(characters, from + 1, to)

Is(alt, w)       == Derives(LexerRules, LexerRules[alt].body, w)
CanBegin(alt, w) == DerivesFrom(LexerRules, LexerRules[alt].body, w)

\* A lazy rule has no other match that is shorter.
LazyRules == {n \in Tokens : \E e \in ToSet(LexerRules[n].body) : e.op = "lazy"}
MatchesOf(alt, from) ==
  LET stops == {to \in from + 1 .. Len(characters) : Is(alt, Between(from, to))}
  IN  IF alt \in LazyRules THEN {to \in stops : \A shorter \in stops : to <= shorter} ELSE stops

\* Each match is the longest of any rule, the rule the first with it.
LongestFirst ==
  \A n \in DOMAIN lexemes :
    LET x == lexemes[n]
    IN  x.alt \in Tokens =>
          /\ x.to.index \in MatchesOf(x.alt, x.from.index)
          /\ \A alt \in Tokens : \A to \in MatchesOf(alt, x.from.index) :
               to < x.to.index \/ (to = x.to.index /\ x.alt <= alt)

\* A failure begins where no rule matches, and what is dropped is what some
\* rule could have begun with and the character that ends it.
FailsWhereNothingMatches ==
  \A n \in DOMAIN lexemes :
    LET x    == lexemes[n]
        from == x.from.index
        to   == x.to.index
    IN  x.alt = 0 =>
          /\ \A alt \in Tokens : MatchesOf(alt, from) = {}
          /\ \A stop \in from + 1 .. to - 1 : \E alt \in Tokens : CanBegin(alt, Between(from, stop))
          /\ to < Len(characters) => \A alt \in Tokens : ~ CanBegin(alt, Between(from, to))

\* The lexemes follow one another without a gap and end with the only end of
\* file, and each has the line and column of its first character.
LexemesTile ==
  /\ \A n \in DOMAIN lexemes :
       LET x == lexemes[n]
           lineFeeds == {k \in 1 .. x.from.index : characters[k] = "\n"}
       IN  /\ x.from.index = IF n = 1 THEN 0 ELSE lexemes[n - 1].to.index
           /\ x.from.line = 1 + Cardinality(lineFeeds)
           /\ x.from.column = x.from.index - (IF lineFeeds = {} THEN 0 ELSE Max(lineFeeds))
           /\ x.alt = EOFType => n = Len(lexemes) /\ x.from.index = Len(characters)
  /\ syntaxErrors = Len(SelectSeq(lexemes, LAMBDA x : x.alt = 0))

\* The text is accounted for: every character is in one lexeme, and those that
\* are dropped are dropped because no rule matches (Lexer.cpp:64-98).
TextAccountedFor == LexemesTile /\ FailsWhereNothingMatches

\* "skip a char and try again" (Lexer.cpp:240): what is dropped is one character.
OneCharacterSkipped == \A n \in DOMAIN lexemes : lexemes[n].alt = 0 => lexemes[n].to.index <= lexemes[n].from.index + 1
=============================================================================
